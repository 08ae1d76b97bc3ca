---------------------------- MODULE LocatorProofs ----------------------------
(***************************************************************************)
(* Proofs about the record locators of src/sys/block_group.rs and         *)
(* src/sys/inode.rs (module Locator), for every sector size, record size, *)
(* table length and volume extent.                                        *)
(***************************************************************************)
EXTENDS Locator, SectorProofs, WellFoundedInduction

(***************************************************************************)
(* Helpers.                                                                *)
(***************************************************************************)

\* The outcomes one find_descriptor or find_inode step can have: a panic,
\* an AddressOutOfBounds error, or one record cast from [a, e).
LocOutcome(r) ==
  \/ r = PanicResult
  \/ r \in ResultType /\ r.kind = "err"
  \/ \E a, e \in Address : r = OkResult(<<ByteRange(a, e)>>, e)

\* A nonempty set of naturals has a least element.
LEMMA LeastNat ==
  ASSUME NEW T, T \subseteq Nat, T # {}
  PROVE  \E x \in T : \A y \in T : x <= y
<1>1. \E x \in T : \A y \in T : ~(<<y, x>> \in OpToRel(<, Nat))
  BY NatLessThanWellFounded, WFMin
<1>2. \E x \in T : \A y \in T : ~(y < x)
  BY <1>1, Zenon DEF OpToRel
<1>. QED BY <1>2, SMT

\* A function on 1 .. n is a sequence.
LEMMA FcnIsSeq ==
  ASSUME NEW S, NEW n \in Nat, NEW f \in [1 .. n -> S]
  PROVE  f \in Seq(S)
BY SMT

\* Every outcome of a single locator step is a result of the right type,
\* and what it casts is a sequence of byte ranges.
LEMMA OutcomeType ==
  ASSUME NEW r, LocOutcome(r)
  PROVE  /\ r \in ResultType
         /\ CastsOf(r) \in Seq(RangeType)
         /\ r.kind = "ok" => r.recs[1] \in RangeType
<1>1. CASE r = PanicResult
  BY <1>1 DEF PanicResult, ResultType, CastsOf
<1>2. CASE r \in ResultType /\ r.kind = "err"
  BY <1>2 DEF CastsOf
<1>3. CASE \E a, e \in Address : r = OkResult(<<ByteRange(a, e)>>, e)
  <2>1. PICK a, e \in Address : r = OkResult(<<ByteRange(a, e)>>, e)
    BY <1>3
  <2>2. ByteRange(a, e) \in RangeType
    BY DEF ByteRange, RangeType
  <2>3. <<ByteRange(a, e)>> \in Seq(RangeType)
    BY <2>2, SMT
  <2>. QED BY <2>1, <2>2, <2>3 DEF OkResult, ResultType, CastsOf
<1>. QED BY <1>1, <1>2, <1>3 DEF LocOutcome

\* The end address of Add with a length is an address or a panic.
LEMMA EndType ==
  ASSUME NEW s \in Address, NEW len \in Nat
  PROVE  AddAddr(s, FromIndex(len)) \in Address \cup {Panic}
BY FromIndexType, BinaryTypes

\* The AddressOutOfBounds error of an address.
LEMMA OutOfBoundsType ==
  ASSUME NEW e \in Address
  PROVE  OutOfBounds(e) \in ResultType /\ OutOfBounds(e).kind = "err"
BY DEF OutOfBounds, ResultType, Address

\* find_descriptor and find_inode (past the size check) have a locator
\* outcome.
LEMMA LocateOutcome ==
  ASSUME NEW s \in Address, NEW len \in Nat
  PROVE  LocOutcome(Locate(s, len))
<1>. DEFINE end == AddAddr(s, FromIndex(len))
<1>1. end \in Address \cup {Panic}
  BY EndType
<1>2. CASE end = Panic
  BY <1>2 DEF Locate, LocOutcome
<1>3. CASE end \in Address /\ SizeLtAddr(vol, end)
  <2>1. end # Panic
    BY <1>3, NotAddress
  <2>. QED BY <1>3, <2>1, OutOfBoundsType DEF Locate, LocOutcome
<1>4. CASE end \in Address /\ ~SizeLtAddr(vol, end)
  <2>1. end # Panic
    BY <1>4, NotAddress
  <2>2. Locate(s, len) = OkResult(<<ByteRange(s, end)>>, end)
    BY <1>4, <2>1 DEF Locate, DynamicCast
  <2>. QED BY <1>4, <2>2 DEF LocOutcome
<1>. QED BY <1>1, <1>2, <1>3, <1>4

\* One iteration of the table loop has a locator outcome.
LEMMA TableElemOutcome ==
  ASSUME NEW s \in Address, NEW i \in Nat
  PROVE  LocOutcome(TableElem(s, i))
<1>. DEFINE at == AddAddr(s, FromIndex(i * DescriptorSize))
<1>1. i * DescriptorSize \in Nat
  BY LocatorAssumption, SMT
<1>2. at \in Address \cup {Panic}
  BY <1>1, EndType
<1>3. CASE at = Panic
  BY <1>3 DEF TableElem, LocOutcome
<1>4. CASE at \in Address
  <2>1. at # Panic
    BY <1>4, NotAddress
  <2>. QED BY <1>4, <2>1, LocatorAssumption, LocateOutcome DEF TableElem
<1>. QED BY <1>2, <1>3, <1>4

(***************************************************************************)
(* Type correctness.                                                       *)
(***************************************************************************)

\* The table loop: every iteration has a locator outcome, and the
\* iterations before the first failing one all cast one range.
LEMMA TableLoop ==
  ASSUME NEW start \in Address, NEW count \in Nat
  PROVE  LET elem  == [i \in 0 .. count - 1 |-> TableElem(start, i)]
             fails == {i \in 0 .. count - 1 : elem[i].kind # "ok"}
             first == CHOOSE i \in fails : \A j \in fails : i <= j
         IN  /\ \A i \in 0 .. count - 1 : LocOutcome(elem[i])
             /\ fails = {} =>
                  [k \in 1 .. count |-> elem[k - 1].recs[1]] \in Seq(RangeType)
             /\ fails # {} =>
                  /\ first \in fails
                  /\ [k \in 1 .. first |-> elem[k - 1].recs[1]] \in Seq(RangeType)
<1>. DEFINE elem  == [i \in 0 .. count - 1 |-> TableElem(start, i)]
            fails == {i \in 0 .. count - 1 : elem[i].kind # "ok"}
            first == CHOOSE i \in fails : \A j \in fails : i <= j
<1>1. \A i \in 0 .. count - 1 : LocOutcome(elem[i])
  <2>. SUFFICES ASSUME NEW i \in 0 .. count - 1 PROVE LocOutcome(elem[i])
    OBVIOUS
  <2>1. i \in Nat
    BY SMT
  <2>. QED BY <2>1, TableElemOutcome
<1>2. \A i \in 0 .. count - 1 : i \notin fails => elem[i].recs[1] \in RangeType
  BY <1>1, OutcomeType
<1>3. ASSUME NEW n \in 0 .. count, \A i \in 0 .. n - 1 : i \notin fails
      PROVE  [k \in 1 .. n |-> elem[k - 1].recs[1]] \in Seq(RangeType)
  <2>1. \A k \in 1 .. n : k - 1 \in 0 .. count - 1 /\ k - 1 \in 0 .. n - 1
    BY SMT
  <2>2. [k \in 1 .. n |-> elem[k - 1].recs[1]] \in [1 .. n -> RangeType]
    BY <1>2, <1>3, <2>1
  <2>3. n \in Nat
    BY SMT
  <2>. QED BY <2>2, <2>3, FcnIsSeq
<1>4. fails = {} =>
        [k \in 1 .. count |-> elem[k - 1].recs[1]] \in Seq(RangeType)
  <2>1. count \in 0 .. count
    BY SMT
  <2>. QED BY <2>1, <1>3
<1>5. fails # {} =>
        /\ first \in fails
        /\ [k \in 1 .. first |-> elem[k - 1].recs[1]] \in Seq(RangeType)
  <2>. SUFFICES ASSUME fails # {}
               PROVE  /\ first \in fails
                      /\ [k \in 1 .. first |-> elem[k - 1].recs[1]]
                           \in Seq(RangeType)
    OBVIOUS
  <2>1. fails \subseteq Nat
    BY SMT
  <2>2. \E x \in fails : \A j \in fails : x <= j
    BY <2>1, LeastNat
  <2>3. first \in fails /\ \A j \in fails : first <= j
    BY <2>2
  <2>4. first \in 0 .. count /\ \A i \in 0 .. first - 1 : i \notin fails
    <3>1. fails \subseteq 0 .. count - 1
      OBVIOUS
    <3>. HIDE DEF fails, first
    <3>2. first \in 0 .. count
      BY <2>3, <3>1, SMT
    <3>3. ASSUME NEW i \in 0 .. first - 1, i \in fails PROVE FALSE
      BY <2>1, <2>3, <3>3, SMT
    <3>. QED BY <3>2, <3>3
  <2>. QED BY <2>3, <2>4, <1>3
<1>. QED BY <1>1, <1>4, <1>5

\* Every variable of the locator model keeps its type: whatever start
\* address, table length and inode size a caller passes, every address a
\* locator computes or returns is normalised, every range it casts joins
\* two normalised addresses, and the call records its arguments.
THEOREM LocatorTypeCorrect == Spec => []TypeOK
<1>1. Init => TypeOK
  BY DEF Init, TypeOK, CallType, ResultType, NoResult
<1>2. TypeOK /\ [Next]_vars => TypeOK'
  <2>. SUFFICES ASSUME TypeOK, [Next]_vars PROVE TypeOK'
    OBVIOUS
  <2>1. ASSUME NEW start \in Address, FindDescriptor(start)
        PROVE  TypeOK'
    <3>1. LocOutcome(result')
      BY <2>1, LocatorAssumption, LocateOutcome DEF FindDescriptor
    <3>2. call' \in CallType
      BY <2>1, LocatorAssumption DEF FindDescriptor, CallType
    <3>. QED BY <2>1, <3>1, <3>2, OutcomeType DEF FindDescriptor, TypeOK
  <2>2. ASSUME NEW start \in Address, NEW size \in InodeSizeInputs,
               FindInode(start, size)
        PROVE  TypeOK'
    <3>1. size \in Nat
      BY LocatorAssumption
    <3>2. LocOutcome(result')
      BY <2>2, <3>1, LocateOutcome DEF FindInode, LocOutcome
    <3>3. call' \in CallType
      BY <2>2, <3>1 DEF FindInode, CallType
    <3>. QED BY <2>2, <3>2, <3>3, OutcomeType DEF FindInode, TypeOK
  <2>3. ASSUME NEW start \in Address, NEW count \in TableCounts,
               FindDescriptorTable(start, count)
        PROVE  TypeOK'
    <3>. DEFINE end   == AddAddr(start, FromIndex(TableBytes(count)))
                elem  == [i \in 0 .. count - 1 |-> TableElem(start, i)]
                fails == {i \in 0 .. count - 1 : elem[i].kind # "ok"}
                first == CHOOSE i \in fails : \A j \in fails : i <= j
                done  == [k \in 1 .. count |-> elem[k - 1].recs[1]]
    <3>1. count \in Nat /\ TableBytes(count) \in Nat
      BY LocatorAssumption, UsizeAssumption, SMT DEF TableBytes
    <3>2. end \in Address \cup {Panic}
      BY <3>1, EndType
    <3>3. call' \in CallType /\ vol' = vol
      BY <2>3, <3>1 DEF FindDescriptorTable, CallType
    <3>4. /\ \A i \in 0 .. count - 1 : LocOutcome(elem[i])
          /\ fails = {} => done \in Seq(RangeType)
          /\ fails # {} =>
               /\ first \in fails
               /\ [k \in 1 .. first |-> elem[k - 1].recs[1]] \in Seq(RangeType)
      BY <3>1, TableLoop
    <3>5. \/ result' = PanicResult /\ casts' = <<>>
          \/ end # Panic /\ result' = OutOfBounds(end) /\ casts' = <<>>
          \/ /\ fails # {} /\ result' = elem[first]
             /\ casts' = [k \in 1 .. first |-> elem[k - 1].recs[1]]
          \/ fails = {} /\ result' = OkResult(done, start) /\ casts' = done
      BY <2>3 DEF FindDescriptorTable
    <3>6. <<>> \in Seq(RangeType)
      BY SMT
    <3>7. result' \in ResultType /\ casts' \in Seq(RangeType)
      <4>1. CASE result' = PanicResult /\ casts' = <<>>
        BY <4>1, <3>6 DEF PanicResult, ResultType
      <4>2. CASE end # Panic /\ result' = OutOfBounds(end) /\ casts' = <<>>
        BY <4>2, <3>2, <3>6, OutOfBoundsType
      <4>3. CASE /\ fails # {} /\ result' = elem[first]
                 /\ casts' = [k \in 1 .. first |-> elem[k - 1].recs[1]]
        <5>1. first \in 0 .. count - 1
          BY <4>3, <3>4
        <5>. QED BY <4>3, <5>1, <3>4, OutcomeType
      <4>4. CASE fails = {} /\ result' = OkResult(done, start) /\ casts' = done
        BY <4>4, <3>4 DEF OkResult, ResultType
      <4>. QED BY <3>5, <4>1, <4>2, <4>3, <4>4
    <3>. QED BY <3>3, <3>7 DEF TypeOK
  <2>4. CASE UNCHANGED vars
    BY <2>4 DEF vars, TypeOK
  <2>. QED BY <2>1, <2>2, <2>3, <2>4 DEF Next
<1>. QED BY <1>1, <1>2, PTL DEF Spec

(***************************************************************************)
(* Calls whose end is representable.                                       *)
(***************************************************************************)

\* `size < end` compares indices, and an unbounded extent is never less.
LEMMA SizeLtIndex ==
  ASSUME NEW v \in Size, NEW e \in Address
  PROVE  SizeLtAddr(v, e) <=> v.bounded /\ IntoIndex(v.len) < IntoIndex(e)
<1>1. CASE v = Unbounded
  BY <1>1 DEF SizeLtAddr, SizeCmpAddr, Unbounded
<1>2. CASE \E a \in Address : v = Bounded(a)
  <2>1. PICK a \in Address : v = Bounded(a)
    BY <1>2
  <2>2. SizeLtAddr(v, e) <=> AddrLt(a, e)
    BY <2>1 DEF SizeLtAddr, SizeCmpAddr, AddrCmp, Bounded
  <2>. QED BY <2>1, <2>2, AddrLtIndex DEF Bounded
<1>. QED BY <1>1, <1>2 DEF Size

\* find_descriptor and find_inode (past the size check), for a record that
\* ends in the addressable range: the end is the exact sum, and the call
\* casts the record iff it ends within the volume, and fails with the end
\* address otherwise.
LEMMA LocateSpec ==
  ASSUME NoOffsetWrap, vol \in Size, NEW s \in Address, NEW len \in Nat,
         IntoIndex(s) + len < MaxIndex
  PROVE  LET end == AddAddr(s, FromIndex(len)) IN
         /\ end \in Address
         /\ IntoIndex(end) = IntoIndex(s) + len
         /\ WithinVolume(IntoIndex(s) + len) =>
              Locate(s, len) = OkResult(<<ByteRange(s, end)>>, end)
         /\ ~WithinVolume(IntoIndex(s) + len) =>
              Locate(s, len) = OutOfBounds(end)
<1>. DEFINE end == AddAddr(s, FromIndex(len))
<1>1. end \in Address /\ IntoIndex(end) = IntoIndex(s) + len
  BY AddRepresentable
<1>2. end # Panic
  BY <1>1, NotAddress
<1>3. SizeLtAddr(vol, end) <=> ~WithinVolume(IntoIndex(s) + len)
  <2>1. SizeLtAddr(vol, end) <=> vol.bounded /\ IntoIndex(vol.len) < IntoIndex(end)
    BY <1>1, SizeLtIndex
  <2>2. vol.bounded => IntoIndex(vol.len) \in Int
    <3>1. vol.bounded => vol.len \in Address
      BY DEF Size, Bounded, Unbounded
    <3>. QED BY <3>1, Powers, SMT DEF IntoIndex, Address
  <2>3. IntoIndex(end) \in Int
    BY <1>1, IndexRange, SMT
  <2>. QED BY <1>1, <2>1, <2>2, <2>3, SMT DEF WithinVolume
<1>. QED BY <1>1, <1>2, <1>3 DEF Locate, DynamicCast

\* A product with a natural factor is monotone in the other factor.
LEMMA MulMono ==
  ASSUME NEW x \in Int, NEW y \in Int, NEW z \in Nat, x <= y
  PROVE  x * z <= y * z
BY SMT

\* The bounded extent of a volume has an index.
LEMMA VolIndex ==
  ASSUME vol \in Size
  PROVE  vol.bounded => vol.len \in Address /\ IntoIndex(vol.len) \in Nat
<1>1. vol.bounded => vol.len \in Address
  BY DEF Size, Bounded, Unbounded
<1>. QED BY <1>1, Powers, SMT DEF IntoIndex, Address

\* One iteration of the table loop, for a table that ends in the
\* addressable range and within the volume: the i-th descriptor starts
\* i descriptors after the start and is cast.
LEMMA ElemSpec ==
  ASSUME NoOffsetWrap, vol \in Size, NEW start \in Address, NEW count \in Nat,
         NEW i \in 0 .. count - 1,
         IntoIndex(start) + count * DescriptorSize < MaxIndex,
         WithinVolume(IntoIndex(start) + count * DescriptorSize)
  PROVE  \E a, e \in Address :
           /\ TableElem(start, i) = OkResult(<<ByteRange(a, e)>>, e)
           /\ IntoIndex(a) = IntoIndex(start) + i * DescriptorSize
           /\ IntoIndex(e) = IntoIndex(a) + DescriptorSize
<1>. DEFINE D  == DescriptorSize
            at == AddAddr(start, FromIndex(i * D))
            e  == AddAddr(at, FromIndex(D))
<1>1. /\ i * D \in Nat
      /\ IntoIndex(start) + i * D < MaxIndex
      /\ IntoIndex(start) + i * D + D <= IntoIndex(start) + count * D
  <2>1. i \in Nat /\ i + 1 <= count /\ D \in Nat \ {0}
    BY LocatorAssumption, SMT
  <2>2. (i + 1) * D <= count * D
    BY <2>1, MulMono
  <2>3. IntoIndex(start) \in 0 .. MaxIndex - 1
    BY IndexRange
  <2>4. (i + 1) * D = i * D + D /\ i * D \in Nat /\ count * D \in Nat
    BY <2>1, SMT
  <2>5. MaxIndex \in Nat
    BY Powers
  <2>. QED BY <2>1, <2>2, <2>3, <2>4, <2>5, SMT
<1>2. at \in Address /\ IntoIndex(at) = IntoIndex(start) + i * D
  BY <1>1, AddRepresentable
<1>3. TableElem(start, i) = Locate(at, D)
  BY <1>2, NotAddress DEF TableElem
<1>4. IntoIndex(at) + D < MaxIndex /\ WithinVolume(IntoIndex(at) + D)
  <2>1. IntoIndex(start) \in 0 .. MaxIndex - 1
    BY IndexRange
  <2>2. D \in Nat
    BY LocatorAssumption
  <2>3. IntoIndex(at) + D < MaxIndex
    <3>1. i * D \in Nat /\ count * D \in Nat /\ MaxIndex \in Nat
      BY LocatorAssumption, Powers, SMT
    <3>. QED BY <1>1, <1>2, <2>1, <2>2, <3>1, SMT
  <2>4. CASE ~vol.bounded
    BY <2>3, <2>4 DEF WithinVolume
  <2>5. CASE vol.bounded
    <3>1. IntoIndex(vol.len) \in Nat
      BY <2>5, VolIndex
    <3>2. IntoIndex(start) + count * D <= IntoIndex(vol.len)
      BY <2>5 DEF WithinVolume
    <3>3. IntoIndex(at) + D <= IntoIndex(vol.len)
      BY <1>1, <1>2, <2>1, <2>2, <3>1, <3>2, SMT
    <3>. QED BY <2>3, <3>3 DEF WithinVolume
  <2>. QED BY <2>4, <2>5
<1>5. /\ e \in Address
      /\ IntoIndex(e) = IntoIndex(at) + D
      /\ Locate(at, D) = OkResult(<<ByteRange(at, e)>>, e)
  <2>1. D \in Nat
    BY LocatorAssumption
  <2>. QED BY <1>2, <1>4, <2>1, LocateSpec
<1>. QED BY <1>2, <1>3, <1>5

(***************************************************************************)
(* What a representable call establishes.                                  *)
(***************************************************************************)

\* RepresentableCallsMeetSpec's conclusion for a call c with result r and
\* casts cs on a volume of extent v.
Meets(v, c, r, cs) ==
  LET Within(i) == ~v.bounded \/ i <= IntoIndex(v.len) IN
  /\ r.kind \in {"ok", "err"}
  /\ (r.kind = "ok") <=> Within(RequestEnd(c))
  /\ r.kind = "err" =>
       [sector |-> r.sector, offset |-> r.offset] = Split(RequestEnd(c))
  /\ \A k \in 1 .. Len(cs) :
       /\ IntoIndex(cs[k].from) + RecordLen(c) = IntoIndex(cs[k].to)
       /\ Within(IntoIndex(cs[k].to))

\* TableAllOrNothing's conclusion for a table call c.
AllOrNothing(c, r, cs) ==
  /\ r.kind = "ok" =>
       /\ Len(r.recs) = c.arg
       /\ \A k \in 1 .. c.arg :
            IntoIndex(r.recs[k].from)
              = IntoIndex(c.start) + (k - 1) * DescriptorSize
       /\ cs = r.recs
  /\ r.kind # "ok" => cs = <<>>

\* The bounds check rejects an end exactly when it lies beyond the volume.
LEMMA CheckIsWithin ==
  ASSUME vol \in Size, NEW e \in Address
  PROVE  SizeLtAddr(vol, e) <=> ~WithinVolume(IntoIndex(e))
<1>1. SizeLtAddr(vol, e) <=> vol.bounded /\ IntoIndex(vol.len) < IntoIndex(e)
  BY SizeLtIndex
<1>2. IntoIndex(e) \in Nat /\ (vol.bounded => IntoIndex(vol.len) \in Nat)
  BY VolIndex, IndexRange, SMT
<1>. QED BY <1>1, <1>2, SMT DEF WithinVolume

\* An AddressOutOfBounds error built from a normalised end carries the
\* split of that end's index.
LEMMA ErrPayload ==
  ASSUME NEW e \in Address
  PROVE  [sector |-> OutOfBounds(e).sector, offset |-> OutOfBounds(e).offset]
           = Split(IntoIndex(e))
<1>1. Split(IntoIndex(e)) = e
  BY SplitInto
<1>2. e = [sector |-> e.sector, offset |-> e.offset]
  BY DEF Address
<1>. QED BY <1>1, <1>2 DEF OutOfBounds

\* find_descriptor and find_inode (past the size check) meet the spec on
\* every representable request.
LEMMA LocateMeets ==
  ASSUME NoOffsetWrap, vol \in Size, NEW s \in Address, NEW len \in Nat,
         NEW c, c.start = s, RequestLen(c) = len, RecordLen(c) = len,
         IntoIndex(s) + len < MaxIndex
  PROVE  Meets(vol, c, Locate(s, len), CastsOf(Locate(s, len)))
<1>. DEFINE end == AddAddr(s, FromIndex(len))
<1>1. /\ end \in Address
      /\ IntoIndex(end) = IntoIndex(s) + len
      /\ WithinVolume(IntoIndex(s) + len) =>
           Locate(s, len) = OkResult(<<ByteRange(s, end)>>, end)
      /\ ~WithinVolume(IntoIndex(s) + len) =>
           Locate(s, len) = OutOfBounds(end)
  BY LocateSpec
<1>2. RequestEnd(c) = IntoIndex(s) + len
  BY DEF RequestEnd
<1>3. CASE WithinVolume(IntoIndex(s) + len)
  <2>1. CastsOf(Locate(s, len)) = <<ByteRange(s, end)>>
        /\ Locate(s, len).kind = "ok"
    BY <1>1, <1>3 DEF CastsOf, OkResult
  <2>. QED BY <1>1, <1>2, <1>3, <2>1 DEF Meets, ByteRange, WithinVolume
<1>4. CASE ~WithinVolume(IntoIndex(s) + len)
  <2>1. CastsOf(Locate(s, len)) = <<>> /\ Locate(s, len).kind = "err"
    BY <1>1, <1>4 DEF CastsOf, OutOfBounds
  <2>2. [sector |-> Locate(s, len).sector, offset |-> Locate(s, len).offset]
          = Split(RequestEnd(c))
    BY <1>1, <1>2, <1>4, ErrPayload
  <2>. QED BY <1>2, <1>4, <2>1, <2>2 DEF Meets, WithinVolume
<1>. QED BY <1>3, <1>4

\* A table that ends inside the address space is small for usize: the
\* byte length neither overflows nor wraps, and Vec::with_capacity takes it.
LEMMA SmallTable ==
  ASSUME NEW start \in Address, NEW count \in Nat,
         IntoIndex(start) + count * DescriptorSize < MaxIndex
  PROVE  /\ TableBytes(count) = count * DescriptorSize
         /\ ~MulOverflows(count)
         /\ ~CapacityOverflow(count)
<1>1. IntoIndex(start) \in Nat /\ MaxIndex \in Nat
  BY IndexRange, Powers, SMT
<1>2. count * DescriptorSize \in Nat
  BY LocatorAssumption, SMT
<1>3. count * DescriptorSize <= ISIZE_MAX /\ count * DescriptorSize < USIZE
  BY <1>1, <1>2, UsizeAssumption, SMT
<1>4. TableBytes(count) = count * DescriptorSize
  BY <1>2, <1>3, UsizeAssumption, ModIdem DEF TableBytes
<1>5. ~MulOverflows(count)
  BY <1>2, <1>3, UsizeAssumption, SMT DEF MulOverflows
<1>6. ~CapacityOverflow(count)
  BY <1>2, <1>3, UsizeAssumption, SMT DEF CapacityOverflow
<1>. QED BY <1>4, <1>5, <1>6

\* find_descriptor_table meets the spec on every representable table, and
\* is all or nothing: the whole-table check decides, and when it passes
\* every iteration of the loop succeeds.
LEMMA TableMeets ==
  ASSUME NoOffsetWrap, vol \in Size, NEW start \in Address, NEW count \in Nat,
         IntoIndex(start) + count * DescriptorSize < MaxIndex,
         FindDescriptorTable(start, count)
  PROVE  /\ Meets(vol, call', result', casts')
         /\ AllOrNothing(call', result', casts')
<1>. DEFINE D     == DescriptorSize
            end   == AddAddr(start, FromIndex(TableBytes(count)))
            elem  == [i \in 0 .. count - 1 |-> TableElem(start, i)]
            fails == {i \in 0 .. count - 1 : elem[i].kind # "ok"}
            done  == [k \in 1 .. count |-> elem[k - 1].recs[1]]
<1>0. /\ TableBytes(count) = count * D
      /\ ~MulOverflows(count)
      /\ ~CapacityOverflow(count)
  BY SmallTable
<1>1. count * D \in Nat
  BY LocatorAssumption, SMT
<1>2. end \in Address /\ IntoIndex(end) = IntoIndex(start) + count * D
  <2>1. end = AddAddr(start, FromIndex(count * D))
    BY <1>0
  <2>. QED BY <1>1, <2>1, AddRepresentable
<1>3. end # Panic
  BY <1>2, NotAddress
<1>4. call' = [op |-> "table", start |-> start, arg |-> count]
  BY DEF FindDescriptorTable
<1>5. RequestEnd(call') = IntoIndex(start) + count * D /\ RecordLen(call') = D
  BY <1>4 DEF RequestEnd, RequestLen, RecordLen
<1>6. SizeLtAddr(vol, end) <=> ~WithinVolume(IntoIndex(start) + count * D)
  BY <1>2, CheckIsWithin
<1>7. CASE ~WithinVolume(IntoIndex(start) + count * D)
  <2>1. result' = OutOfBounds(end) /\ casts' = <<>>
    BY <1>0, <1>3, <1>6, <1>7 DEF FindDescriptorTable
  <2>2. [sector |-> result'.sector, offset |-> result'.offset]
          = Split(RequestEnd(call'))
    BY <2>1, <1>2, <1>5, ErrPayload
  <2>3. result'.kind = "err"
    BY <2>1 DEF OutOfBounds
  <2>. QED BY <2>2, <2>3, <2>1, <1>5, <1>7 DEF Meets, AllOrNothing, WithinVolume
<1>8. CASE WithinVolume(IntoIndex(start) + count * D)
  <2>1. ASSUME NEW i \in 0 .. count - 1
        PROVE  \E a, e \in Address :
                 /\ elem[i] = OkResult(<<ByteRange(a, e)>>, e)
                 /\ IntoIndex(a) = IntoIndex(start) + i * D
                 /\ IntoIndex(e) = IntoIndex(a) + D
    BY <1>8, ElemSpec
  <2>2. fails = {}
    BY <2>1 DEF OkResult
  <2>3. result' = OkResult(done, start) /\ casts' = done
    BY <1>0, <1>3, <1>6, <1>8, <2>2 DEF FindDescriptorTable
  <2>4. ASSUME NEW k \in 1 .. count
        PROVE  /\ IntoIndex(done[k].from) = IntoIndex(start) + (k - 1) * D
               /\ IntoIndex(done[k].from) + D = IntoIndex(done[k].to)
               /\ WithinVolume(IntoIndex(done[k].to))
    <3>1. k - 1 \in 0 .. count - 1
      BY SMT
    <3>2. PICK a, e \in Address :
            /\ elem[k - 1] = OkResult(<<ByteRange(a, e)>>, e)
            /\ IntoIndex(a) = IntoIndex(start) + (k - 1) * D
            /\ IntoIndex(e) = IntoIndex(a) + D
      BY <3>1, <2>1
    <3>3. done[k] = ByteRange(a, e)
      BY <3>2 DEF OkResult
    <3>4. k * D <= count * D /\ (k - 1) * D + D = k * D
      BY LocatorAssumption, SMT
    <3>5. IntoIndex(start) \in Nat /\ IntoIndex(a) \in Nat /\ IntoIndex(e) \in Nat
      BY IndexRange, SMT
    <3>6. IntoIndex(e) <= IntoIndex(start) + count * D
      <4>1. IntoIndex(a) = IntoIndex(start) + (k - 1) * D
            /\ IntoIndex(e) = IntoIndex(a) + D
        BY <3>2
      <4>. QED BY <4>1, <3>4, <3>5, LocatorAssumption, SMT
    <3>7. vol.bounded => IntoIndex(vol.len) \in Nat
      BY VolIndex
    <3>8. WithinVolume(IntoIndex(e))
      BY <1>8, <3>5, <3>6, <3>7, LocatorAssumption, SMT DEF WithinVolume
    <3>. QED BY <3>2, <3>3, <3>8 DEF ByteRange
  <2>5. done \in Seq(RangeType) /\ Len(done) = count
    <3>1. \A k \in 1 .. count : done[k] \in RangeType
      <4>1. SUFFICES ASSUME NEW k \in 1 .. count PROVE done[k] \in RangeType
        OBVIOUS
      <4>2. k - 1 \in 0 .. count - 1
        BY SMT
      <4>3. PICK a, e \in Address : elem[k - 1] = OkResult(<<ByteRange(a, e)>>, e)
        BY <4>2, <2>1
      <4>. QED BY <4>3 DEF OkResult, ByteRange, RangeType
    <3>2. done \in [1 .. count -> RangeType]
      BY <3>1
    <3>3. done \in Seq(RangeType)
      BY <3>2, FcnIsSeq
    <3>4. DOMAIN done = 1 .. Len(done) /\ Len(done) \in Nat /\ DOMAIN done = 1 .. count
      BY <3>2, <3>3
    <3>. QED BY <3>3, <3>4, SMT
  <2>6. result'.kind = "ok" /\ result'.recs = done
    BY <2>3 DEF OkResult
  <2>7. Meets(vol, call', result', casts')
    <3>1. \A k \in 1 .. Len(casts') :
            /\ IntoIndex(casts'[k].from) + RecordLen(call') = IntoIndex(casts'[k].to)
            /\ WithinVolume(IntoIndex(casts'[k].to))
      BY <1>5, <2>3, <2>4, <2>5
    <3>. QED BY <1>5, <1>8, <2>6, <3>1 DEF Meets, WithinVolume
  <2>8. AllOrNothing(call', result', casts')
    BY <1>4, <2>3, <2>4, <2>5, <2>6 DEF AllOrNothing
  <2>. QED BY <2>7, <2>8
<1>. QED BY <1>7, <1>8

\* Meets and AllOrNothing of the new state are the two invariants.
LEMMA MeetsIsSpec ==
  ASSUME vol' = vol, Meets(vol, call', result', casts')
  PROVE  RepresentableCallsMeetSpec'
BY DEF Meets, RepresentableCallsMeetSpec, CastsInBounds, CastInBounds,
       WithinVolume

LEMMA AllOrNothingIsSpec ==
  ASSUME AllOrNothing(call', result', casts')
  PROVE  TableAllOrNothing'
BY DEF AllOrNothing, TableAllOrNothing

\* A call whose request end does not fit the addressable range, or
\* another operation than the table, leaves the invariants vacuous.
LEMMA Vacuous ==
  /\ ~Representable' => RepresentableCallsMeetSpec' /\ TableAllOrNothing'
  /\ call'.op # "table" => TableAllOrNothing'
BY DEF Representable, RepresentableCallsMeetSpec, TableAllOrNothing

\* For every sector size whose offsets add without wrapping the i32 cast
\* of Add, every record size, every table length and every volume: when
\* the end of a request fits the u32 sector field, find_descriptor,
\* find_descriptor_table and find_inode succeed exactly when the request
\* ends within the volume, report the request's end in AddressOutOfBounds
\* otherwise, and cast only whole records inside the volume (the
\* RepresentableCallsMeetSpec invariant of run locator).  The invariant
\* depends on the last call only, so TypeOK is the whole strengthening it
\* needs; each call is one of LocateMeets and TableMeets.
THEOREM RepresentableCorrect ==
  ASSUME NoOffsetWrap
  PROVE  Spec => []RepresentableCallsMeetSpec
<1>1. Init => RepresentableCallsMeetSpec
  BY DEF Init, RepresentableCallsMeetSpec, Representable
<1>2. TypeOK /\ RepresentableCallsMeetSpec /\ [Next]_vars
        => RepresentableCallsMeetSpec'
  <2>. SUFFICES ASSUME TypeOK, RepresentableCallsMeetSpec, [Next]_vars
               PROVE  RepresentableCallsMeetSpec'
    OBVIOUS
  <2>0. vol \in Size
    BY DEF TypeOK
  <2>1. ASSUME NEW start \in Address, FindDescriptor(start)
        PROVE  RepresentableCallsMeetSpec'
    <3>1. /\ call' = [op |-> "descriptor", start |-> start, arg |-> DescriptorSize]
          /\ result' = Locate(start, DescriptorSize)
          /\ casts' = CastsOf(result')
          /\ vol' = vol
      BY <2>1 DEF FindDescriptor
    <3>2. RequestLen(call') = DescriptorSize /\ RecordLen(call') = DescriptorSize
          /\ RequestEnd(call') = IntoIndex(start) + DescriptorSize
      BY <3>1 DEF RequestLen, RecordLen, RequestEnd
    <3>3. CASE IntoIndex(start) + DescriptorSize < MaxIndex
      <4>1. Meets(vol, call', Locate(start, DescriptorSize),
                  CastsOf(Locate(start, DescriptorSize)))
        BY <2>0, <3>1, <3>2, <3>3, LocatorAssumption, LocateMeets
      <4>. QED BY <3>1, <4>1, MeetsIsSpec
    <3>4. CASE ~(IntoIndex(start) + DescriptorSize < MaxIndex)
      BY <3>2, <3>4, Vacuous DEF Representable
    <3>. QED BY <3>3, <3>4
  <2>2. ASSUME NEW start \in Address, NEW count \in TableCounts,
               FindDescriptorTable(start, count)
        PROVE  RepresentableCallsMeetSpec'
    <3>1. call' = [op |-> "table", start |-> start, arg |-> count] /\ vol' = vol
      BY <2>2 DEF FindDescriptorTable
    <3>2. RequestEnd(call') = IntoIndex(start) + count * DescriptorSize
      BY <3>1 DEF RequestLen, RequestEnd
    <3>3. count \in Nat
      BY LocatorAssumption, SMT
    <3>4. CASE IntoIndex(start) + count * DescriptorSize < MaxIndex
      <4>1. Meets(vol, call', result', casts')
        BY <2>0, <2>2, <3>3, <3>4, TableMeets
      <4>. QED BY <3>1, <4>1, MeetsIsSpec
    <3>5. CASE ~(IntoIndex(start) + count * DescriptorSize < MaxIndex)
      BY <3>2, <3>5, Vacuous DEF Representable
    <3>. QED BY <3>4, <3>5
  <2>3. ASSUME NEW start \in Address, NEW size \in InodeSizeInputs,
               FindInode(start, size)
        PROVE  RepresentableCallsMeetSpec'
    <3>1. /\ call' = [op |-> "inode", start |-> start, arg |-> size]
          /\ casts' = CastsOf(result')
          /\ vol' = vol
      BY <2>3 DEF FindInode
    <3>2. CASE size # InodeSize
      BY <3>1, <3>2 DEF RepresentableCallsMeetSpec
    <3>3. CASE size = InodeSize
      <4>1. result' = Locate(start, InodeSize)
        BY <2>3, <3>3 DEF FindInode
      <4>2. RequestLen(call') = InodeSize /\ RecordLen(call') = InodeSize
            /\ RequestEnd(call') = IntoIndex(start) + InodeSize
        BY <3>1, <3>3 DEF RequestLen, RecordLen, RequestEnd
      <4>3. CASE IntoIndex(start) + InodeSize < MaxIndex
        <5>1. Meets(vol, call', Locate(start, InodeSize),
                    CastsOf(Locate(start, InodeSize)))
          BY <2>0, <3>1, <4>2, <4>3, LocatorAssumption, LocateMeets
        <5>. QED BY <3>1, <4>1, <5>1, MeetsIsSpec
      <4>4. CASE ~(IntoIndex(start) + InodeSize < MaxIndex)
        BY <4>2, <4>4, Vacuous DEF Representable
      <4>. QED BY <4>3, <4>4
    <3>. QED BY <3>2, <3>3
  <2>4. CASE UNCHANGED vars
    BY <2>4 DEF vars, RepresentableCallsMeetSpec, Representable, RequestEnd,
              RequestLen, RecordLen, WithinVolume, CastsInBounds, CastInBounds
  <2>. QED BY <2>1, <2>2, <2>3, <2>4 DEF Next
<1>. QED BY <1>1, <1>2, LocatorTypeCorrect, PTL DEF Spec

\* For every instance satisfying NoOffsetWrap: find_descriptor_table on a
\* table whose end fits the u32 sector field returns all `count`
\* descriptors, read back to back from the start, and has cast exactly
\* those; or it fails having cast nothing (the TableAllOrNothing invariant
\* of run locator).  The whole-table check in front of the loop is what
\* makes the `?` inside it unreachable.
THEOREM TableAllOrNothingCorrect ==
  ASSUME NoOffsetWrap
  PROVE  Spec => []TableAllOrNothing
<1>1. Init => TableAllOrNothing
  BY DEF Init, TableAllOrNothing
<1>2. TypeOK /\ TableAllOrNothing /\ [Next]_vars => TableAllOrNothing'
  <2>. SUFFICES ASSUME TypeOK, TableAllOrNothing, [Next]_vars
               PROVE  TableAllOrNothing'
    OBVIOUS
  <2>0. vol \in Size
    BY DEF TypeOK
  <2>1. ASSUME NEW start \in Address, FindDescriptor(start)
        PROVE  TableAllOrNothing'
    BY <2>1, Vacuous DEF FindDescriptor
  <2>2. ASSUME NEW start \in Address, NEW count \in TableCounts,
               FindDescriptorTable(start, count)
        PROVE  TableAllOrNothing'
    <3>1. call' = [op |-> "table", start |-> start, arg |-> count]
      BY <2>2 DEF FindDescriptorTable
    <3>2. RequestEnd(call') = IntoIndex(start) + count * DescriptorSize
      BY <3>1 DEF RequestLen, RequestEnd
    <3>3. count \in Nat
      BY LocatorAssumption, SMT
    <3>4. CASE IntoIndex(start) + count * DescriptorSize < MaxIndex
      BY <2>0, <2>2, <3>3, <3>4, TableMeets, AllOrNothingIsSpec
    <3>5. CASE ~(IntoIndex(start) + count * DescriptorSize < MaxIndex)
      BY <3>2, <3>5, Vacuous DEF Representable
    <3>. QED BY <3>4, <3>5
  <2>3. ASSUME NEW start \in Address, NEW size \in InodeSizeInputs,
               FindInode(start, size)
        PROVE  TableAllOrNothing'
    BY <2>3, Vacuous DEF FindInode
  <2>4. CASE UNCHANGED vars
    BY <2>4 DEF vars, TableAllOrNothing, Representable, RequestEnd, RequestLen
  <2>. QED BY <2>1, <2>2, <2>3, <2>4 DEF Next
<1>. QED BY <1>1, <1>2, LocatorTypeCorrect, PTL DEF Spec

=============================================================================
