------------------------ MODULE LocatorRefinementProofs ------------------------
(***************************************************************************)
(* Locator implements AbstractLocator for a caller that keeps its         *)
(* requests representable, for every sector size whose offsets add       *)
(* without wrapping the i32 cast of Add.  The lemmas about one call are   *)
(* in LocatorProofs (LocateSpec, TableMeets); here they are read through  *)
(* the refinement mapping.                                                 *)
(***************************************************************************)
EXTENDS LocatorRefinement, LocatorProofs

\* The outcome's kind is preserved by the mapping.
LEMMA OutKind == OutBar.kind = result.kind
BY DEF OutBar

\* The abstract bounds check is WithinVolume read through the mapping.
LEMMA WithinBar ==
  ASSUME vol \in Size, NEW e
  PROVE  A!Within(e) <=> WithinVolume(e)
<1>1. CASE vol.bounded
  BY <1>1 DEF A!Within, ExtentBar, WithinVolume
<1>2. CASE ~vol.bounded
  BY <1>2 DEF A!Within, ExtentBar, WithinVolume, Size, Unbounded, Bounded
<1>. QED BY <1>1, <1>2

\* find_descriptor and find_inode, on a representable request, take a
\* step of the abstract locator reading one record.
LEMMA LocateRefines ==
  ASSUME NoOffsetWrap, vol \in Size, NEW s \in Address, NEW len \in Nat,
         IntoIndex(s) + len < MaxIndex,
         NEW op \in {"descriptor", "inode"},
         result.kind # "panic",
         call' = [op |-> op, start |-> s, arg |-> len],
         result' = Locate(s, len),
         casts' = CastsOf(result'),
         vol' = vol
  PROVE  A!ReadRecords(op, IntoIndex(s), len, 1, len)
<1>. DEFINE i   == IntoIndex(s)
            end == AddAddr(s, FromIndex(len))
<1>1. /\ end \in Address
      /\ IntoIndex(end) = i + len
      /\ WithinVolume(i + len) => Locate(s, len) = OkResult(<<ByteRange(s, end)>>, end)
      /\ ~WithinVolume(i + len) => Locate(s, len) = OutOfBounds(end)
  BY LocateSpec
<1>2. i \in Nat /\ i + 1 * len = i + len /\ i + (1 - 1) * len = i
  BY IndexRange, SMT
<1>3. A!Within(i + 1 * len) <=> WithinVolume(i + len)
  BY <1>2, WithinBar
<1>4. /\ OutBar.kind # "panic"
      /\ ReqBar' = [op |-> op, start |-> i, arg |-> len]
      /\ ExtentBar' = ExtentBar
  BY OutKind DEF ReqBar, ExtentBar
<1>5. CASE WithinVolume(i + len)
  <2>1. result' = OkResult(<<ByteRange(s, end)>>, end)
        /\ casts' = <<ByteRange(s, end)>>
    BY <1>1, <1>5 DEF CastsOf, OkResult
  <2>2. ReadsBar' = A!Records(i, len, 1)
    <3>1. Len(casts') = 1 /\ casts'[1] = [from |-> s, to |-> end]
      BY <2>1 DEF ByteRange
    <3>2. ReadsBar' = [k \in 1 .. 1 |->
                        [from |-> IntoIndex(casts'[k].from),
                         to |-> IntoIndex(casts'[k].to)]]
      BY <3>1 DEF ReadsBar
    <3>3. \A k \in 1 .. 1 : k = 1
      BY SMT
    <3>4. ReadsBar' = [k \in 1 .. 1 |-> [from |-> i, to |-> i + len]]
      BY <3>1, <3>2, <3>3, <1>1
    <3>. QED BY <3>4, <1>2, <3>3 DEF A!Records
  <2>3. OutBar' = [kind |-> "ok", addr |-> i + 1 * len]
    BY <2>1, <1>1, <1>2 DEF OutBar, OkResult
  <2>4. i + 1 * len \in A!Returned(op, i + 1 * len)
    BY DEF A!Returned
  <2>. QED BY <1>3, <1>4, <1>5, <2>2, <2>3, <2>4 DEF A!ReadRecords
<1>6. CASE ~WithinVolume(i + len)
  <2>1. result' = OutOfBounds(end) /\ casts' = <<>>
    BY <1>1, <1>6 DEF CastsOf, OutOfBounds
  <2>2. ReadsBar' = <<>>
    BY <2>1 DEF ReadsBar
  <2>3. OutBar' = [kind |-> "err", end |-> i + 1 * len]
    BY <2>1, <1>1, <1>2 DEF OutBar, OutOfBounds, IntoIndex
  <2>. QED BY <1>3, <1>4, <1>6, <2>2, <2>3 DEF A!ReadRecords
<1>. QED BY <1>5, <1>6

\* find_descriptor_table, on a representable table, takes a step of the
\* abstract locator reading `count` descriptors back to back.
LEMMA TableRefines ==
  ASSUME NoOffsetWrap, vol \in Size, NEW s \in Address, NEW count \in Nat,
         IntoIndex(s) + count * DescriptorSize < MaxIndex,
         FindDescriptorTable(s, count),
         result' \in ResultType
  PROVE  A!ReadRecords("table", IntoIndex(s), DescriptorSize, count, count)
<1>. DEFINE i   == IntoIndex(s)
            D   == DescriptorSize
            end == AddAddr(s, FromIndex(count * D))
<1>1. Meets(vol, call', result', casts') /\ AllOrNothing(call', result', casts')
  BY TableMeets
<1>2. call' = [op |-> "table", start |-> s, arg |-> count] /\ vol' = vol
      /\ result.kind # "panic"
  BY DEF FindDescriptorTable
<1>3. RequestEnd(call') = i + count * D /\ RecordLen(call') = D
  BY <1>2 DEF RequestEnd, RequestLen, RecordLen
<1>4. /\ OutBar.kind # "panic"
      /\ ReqBar' = [op |-> "table", start |-> i, arg |-> count]
      /\ ExtentBar' = ExtentBar
  BY <1>2, OutKind DEF ReqBar, ExtentBar
<1>5. A!Within(i + count * D) <=> WithinVolume(i + count * D)
  BY WithinBar
<1>6. i \in Nat /\ D \in Nat
  BY IndexRange, LocatorAssumption, SMT
<1>7. CASE WithinVolume(i + count * D)
  <2>1. result'.kind = "ok"
    BY <1>1, <1>3, <1>7 DEF Meets, WithinVolume
  <2>2. /\ Len(result'.recs) = count
        /\ casts' = result'.recs
        /\ \A k \in 1 .. count : IntoIndex(casts'[k].from) = i + (k - 1) * D
    BY <1>1, <1>2, <2>1 DEF AllOrNothing
  <2>3. \A k \in 1 .. Len(casts') :
          IntoIndex(casts'[k].from) + D = IntoIndex(casts'[k].to)
    BY <1>1, <1>3 DEF Meets
  <2>4. ASSUME NEW k \in 1 .. count
        PROVE  [from |-> IntoIndex(casts'[k].from), to |-> IntoIndex(casts'[k].to)]
                 = [from |-> i + (k - 1) * D, to |-> i + k * D]
    <3>1. IntoIndex(casts'[k].from) = i + (k - 1) * D
          /\ IntoIndex(casts'[k].to) = IntoIndex(casts'[k].from) + D
      BY <2>2, <2>3
    <3>2. i + (k - 1) * D + D = i + k * D
      BY <1>6, SMT
    <3>. QED BY <3>1, <3>2
  <2>5. ReadsBar' = A!Records(i, D, count)
    BY <2>2, <2>4 DEF ReadsBar, A!Records
  <2>6. result'.addr \in Address
    BY <2>1 DEF ResultType, NoResult, PanicResult
  <2>7. IntoIndex(result'.addr) \in 0 .. MaxIndex - 1
    BY <2>6, IndexRange
  <2>8. OutBar' = [kind |-> "ok", addr |-> IntoIndex(result'.addr)]
    BY <2>1 DEF OutBar
  <2>9. IntoIndex(result'.addr) \in A!Returned("table", i + count * D)
    BY <2>7 DEF A!Returned
  <2>. QED BY <1>4, <1>5, <1>7, <2>5, <2>8, <2>9 DEF A!ReadRecords
<1>8. CASE ~WithinVolume(i + count * D)
  <2>1. result'.kind = "err" /\ casts' = <<>>
    BY <1>1, <1>3, <1>8 DEF Meets, AllOrNothing, WithinVolume
  <2>2. [sector |-> result'.sector, offset |-> result'.offset] = Split(i + count * D)
    BY <1>1, <1>3, <1>8, <2>1 DEF Meets
  <2>3. count * D \in Nat
    BY LocatorAssumption, SMT
  <2>4. end \in Address /\ IntoIndex(end) = i + count * D
    BY <2>3, AddRepresentable
  <2>5. Split(i + count * D) = end
    BY <2>4, SplitInto
  <2>6. result'.sector * SIZE + result'.offset = i + count * D
    BY <2>2, <2>4, <2>5 DEF IntoIndex
  <2>7. OutBar' = [kind |-> "err", end |-> i + count * D]
    BY <2>1, <2>6 DEF OutBar
  <2>8. ReadsBar' = <<>>
    BY <2>1 DEF ReadsBar
  <2>. QED BY <1>4, <1>5, <1>8, <2>7, <2>8 DEF A!ReadRecords
<1>. QED BY <1>7, <1>8

\* For every instance satisfying NoOffsetWrap, a caller that keeps its
\* requests representable sees the locators behave as the abstract
\* locator: every call reads exactly the requested records or nothing,
\* and fails exactly when the request ends beyond the volume (the
\* ImplementsAbstract property of run locator_refinement).  Initial
\* states map to initial states, and every call maps to one abstract
\* call (LocateRefines, TableRefines) or to Unsupported; TypeOK of the
\* new state, from LocatorTypeCorrect, gives the type of the table's
\* returned address.
THEOREM RefinementCorrect ==
  ASSUME NoOffsetWrap
  PROVE  RSpec => ImplementsAbstract
<1>1. Init => A!Init
  <2>. SUFFICES ASSUME Init PROVE A!Init
    OBVIOUS
  <2>1. ExtentBar \in A!Extents
    <3>1. CASE vol.bounded
      <4>1. PICK a \in Address : vol = Bounded(a)
        BY <3>1 DEF Init, Size, Unbounded
      <4>2. IntoIndex(a) \in 0 .. MaxIndex - 1
        BY IndexRange
      <4>. QED BY <4>1, <4>2 DEF ExtentBar, A!Extents, Bounded
    <3>2. CASE ~vol.bounded
      <4>1. vol = [bounded |-> FALSE]
        BY <3>2 DEF Init, Size, Unbounded, Bounded
      <4>. QED BY <3>2, <4>1 DEF ExtentBar, A!Extents
    <3>. QED BY <3>1, <3>2
  <2>2. ReqBar = [op |-> "none"] /\ OutBar = [kind |-> "none"] /\ ReadsBar = <<>>
    BY DEF Init, ReqBar, OutBar, NoResult, ReadsBar
  <2>. QED BY <2>1, <2>2 DEF A!Init
<1>2. RSpec => []TypeOK
  <2>1. [RNext]_vars => [Next]_vars
    BY DEF RNext
  <2>. QED BY <2>1, LocatorTypeCorrect, PTL DEF RSpec, Spec
<1>3. TypeOK /\ TypeOK' /\ [RNext]_vars => [A!Next]_(A!avars)
  <2>. SUFFICES ASSUME TypeOK, TypeOK', [RNext]_vars PROVE [A!Next]_(A!avars)
    OBVIOUS
  <2>0. vol \in Size
    BY DEF TypeOK
  <2>1. ASSUME NEW start \in Address, FindDescriptor(start), Representable'
        PROVE  A!Next
    <3>1. IntoIndex(start) + DescriptorSize < MaxIndex
      BY <2>1 DEF FindDescriptor, Representable, RequestEnd, RequestLen
    <3>2. A!ReadRecords("descriptor", IntoIndex(start), DescriptorSize, 1,
                        DescriptorSize)
      BY <2>0, <2>1, <3>1, LocatorAssumption, LocateRefines DEF FindDescriptor
    <3>3. IntoIndex(start) \in 0 .. MaxIndex - 1
      BY IndexRange
    <3>. QED BY <3>2, <3>3 DEF A!Next
  <2>2. ASSUME NEW start \in Address, NEW count \in TableCounts,
               FindDescriptorTable(start, count), Representable'
        PROVE  A!Next
    <3>1. count \in Nat
      BY LocatorAssumption, SMT
    <3>2. IntoIndex(start) + count * DescriptorSize < MaxIndex
      BY <2>2 DEF FindDescriptorTable, Representable, RequestEnd, RequestLen
    <3>3. result' \in ResultType
      BY DEF TypeOK
    <3>4. A!ReadRecords("table", IntoIndex(start), DescriptorSize, count, count)
      BY <2>0, <2>2, <3>1, <3>2, <3>3, TableRefines
    <3>5. IntoIndex(start) \in 0 .. MaxIndex - 1
      BY IndexRange
    <3>. QED BY <3>4, <3>5 DEF A!Next
  <2>3. ASSUME NEW start \in Address, NEW size \in InodeSizeInputs,
               FindInode(start, size), Representable'
        PROVE  A!Next
    <3>1. IntoIndex(start) \in 0 .. MaxIndex - 1
      BY IndexRange
    <3>2. CASE size = InodeSize
      <4>1. IntoIndex(start) + InodeSize < MaxIndex
        BY <2>3, <3>2 DEF FindInode, Representable, RequestEnd, RequestLen
      <4>2. A!ReadRecords("inode", IntoIndex(start), size, 1, size)
        BY <2>0, <2>3, <3>2, <4>1, LocatorAssumption, LocateRefines DEF FindInode
      <4>. QED BY <3>1, <3>2, <4>2 DEF A!Next
    <3>3. CASE size # InodeSize
      <4>1. result' = PanicResult /\ casts' = <<>>
        BY <2>3, <3>3 DEF FindInode, CastsOf, PanicResult
      <4>2. /\ OutBar.kind # "panic"
            /\ ReqBar' = [op |-> "inode", start |-> IntoIndex(start), arg |-> size]
            /\ OutBar' = [kind |-> "panic"]
            /\ ReadsBar' = <<>>
            /\ ExtentBar' = ExtentBar
        BY <2>3, <4>1, OutKind DEF FindInode, ReqBar, OutBar, PanicResult,
                                   ReadsBar, ExtentBar
      <4>3. A!Unsupported(IntoIndex(start), size)
        BY <4>2 DEF A!Unsupported
      <4>. QED BY <3>1, <3>3, <4>3 DEF A!Next
    <3>. QED BY <3>2, <3>3
  <2>4. CASE UNCHANGED vars
    BY <2>4 DEF vars, A!avars, ExtentBar, ReqBar, OutBar, ReadsBar
  <2>. QED BY <2>1, <2>2, <2>3, <2>4 DEF RNext, Next
<1>. QED BY <1>1, <1>2, <1>3, PTL DEF RSpec, ImplementsAbstract, A!Spec

=============================================================================
