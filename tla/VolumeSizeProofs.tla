--------------------------- MODULE VolumeSizeProofs ---------------------------
(***************************************************************************)
(* The order on volume extents (Size<S> of src/volume/size.rs), for every *)
(* sector size and u32 width: the two PartialOrd impls obey the laws      *)
(* core::cmp::PartialOrd asks of them, agree with the PartialEq impls,    *)
(* and the comparisons with an address the locators use agree with the   *)
(* comparisons with that address's Bounded extent.  MCLocator checks the  *)
(* last part on its instance (SizeOrderConsistency).                      *)
(***************************************************************************)
EXTENDS VolumeSize, SectorProofs

\* The derived Ord of Address is a strict total order: Less and Greater
\* are dual, Equal is equality, and Less is transitive.
LEMMA AddrCmpLaws ==
  ASSUME NEW a \in Address, NEW b \in Address, NEW c \in Address
  PROVE  /\ AddrCmp(a, b) \in {"Less", "Equal", "Greater"}
         /\ AddrCmp(a, b) = "Less" <=> AddrCmp(b, a) = "Greater"
         /\ AddrCmp(a, b) = "Equal" <=> a = b
         /\ AddrCmp(a, b) = "Less" /\ AddrCmp(b, c) = "Less" =>
              AddrCmp(a, c) = "Less"
<1>1. a.sector \in Int /\ a.offset \in Int /\ b.sector \in Int
      /\ b.offset \in Int /\ c.sector \in Int /\ c.offset \in Int
  BY Powers, SMT DEF Address
<1>2. a = b <=> a.sector = b.sector /\ a.offset = b.offset
  BY DEF Address
<1>3. AddrLt(a, b) <=> ~AddrLt(b, a) /\ a # b
  BY <1>1, <1>2, SMT DEF AddrLt
<1>4. AddrLt(a, b) /\ AddrLt(b, c) => AddrLt(a, c)
  BY <1>1, SMT DEF AddrLt
<1>. QED BY <1>3, <1>4 DEF AddrCmp

\* An extent is Unbounded, or Bounded with a normalised length.
LEMMA SizeCases ==
  ASSUME NEW x \in Size
  PROVE  \/ ~x.bounded /\ x = Unbounded
         \/ x.bounded /\ x.len \in Address /\ x = Bounded(x.len)
<1>1. x = Unbounded \/ \E a \in Address : x = Bounded(a)
  BY DEF Size
<1>2. CASE x = Unbounded
  <2>1. x.bounded = FALSE
    BY <1>2 DEF Unbounded
  <2>. QED BY <1>2, <2>1
<1>3. CASE \E a \in Address : x = Bounded(a)
  <2>1. PICK a \in Address : x = Bounded(a)
    BY <1>3
  <2>2. x.bounded = TRUE /\ x.len = a
    BY <2>1 DEF Bounded
  <2>. QED BY <2>1, <2>2
<1>. QED BY <1>1, <1>2, <1>3

\* The four arms of PartialOrd for Size.
LEMMA SizeCmpArms ==
  ASSUME NEW x \in Size, NEW y \in Size
  PROVE  /\ ~x.bounded /\ ~y.bounded => SizePartialCmp(x, y) = "Unordered"
         /\ ~x.bounded /\ y.bounded => SizePartialCmp(x, y) = "Greater"
         /\ x.bounded /\ ~y.bounded => SizePartialCmp(x, y) = "Less"
         /\ x.bounded /\ y.bounded =>
              SizePartialCmp(x, y) = AddrCmp(x.len, y.len)
BY Zenon DEF SizePartialCmp

\* What spec section 3 and core::cmp::PartialOrd ask of Size: Unbounded
\* equals nothing, itself included, and is unordered with itself; Less
\* and Greater are dual; two extents compare Equal exactly when they are
\* equal; Less is transitive; and comparing an extent with an address
\* (`haystack.size() < end` in the locators) is comparing it with the
\* Bounded extent of that address, so the locators' checks inherit these
\* laws.
THEOREM SizeOrderLaws ==
  ASSUME NEW s \in Size, NEW t \in Size, NEW u \in Size, NEW a \in Address
  PROVE  /\ ~SizeEq(Unbounded, Unbounded)
         /\ SizePartialCmp(Unbounded, Unbounded) = "Unordered"
         /\ SizePartialCmp(s, t) = "Less" <=> SizePartialCmp(t, s) = "Greater"
         /\ SizeEq(s, t) <=> SizePartialCmp(s, t) = "Equal"
         /\ SizePartialCmp(s, t) = "Less" /\ SizePartialCmp(t, u) = "Less" =>
              SizePartialCmp(s, u) = "Less"
         /\ SizeCmpAddr(s, a) = SizePartialCmp(s, Bounded(a))
         /\ SizeEqAddr(s, a) = SizeEq(s, Bounded(a))
<1>1. ~SizeEq(Unbounded, Unbounded)
      /\ SizePartialCmp(Unbounded, Unbounded) = "Unordered"
  BY Zenon DEF SizeEq, SizePartialCmp, Unbounded
<1>2. SizePartialCmp(s, t) = "Less" <=> SizePartialCmp(t, s) = "Greater"
  <2>1. CASE s.bounded /\ t.bounded
    BY <2>1, SizeCases, SizeCmpArms, AddrCmpLaws
  <2>2. CASE ~(s.bounded /\ t.bounded)
    BY <2>2, SizeCmpArms, Zenon
  <2>. QED BY <2>1, <2>2
<1>3. SizeEq(s, t) <=> SizePartialCmp(s, t) = "Equal"
  <2>1. CASE s.bounded /\ t.bounded
    <3>1. s.len \in Address /\ t.len \in Address
      BY <2>1, SizeCases
    <3>2. SizePartialCmp(s, t) = AddrCmp(s.len, t.len)
      BY <2>1, SizeCmpArms
    <3>. QED BY <2>1, <3>1, <3>2, AddrCmpLaws DEF SizeEq
  <2>2. CASE ~(s.bounded /\ t.bounded)
    BY <2>2, SizeCmpArms, Zenon DEF SizeEq
  <2>. QED BY <2>1, <2>2
<1>4. SizePartialCmp(s, t) = "Less" /\ SizePartialCmp(t, u) = "Less" =>
        SizePartialCmp(s, u) = "Less"
  <2>. SUFFICES ASSUME SizePartialCmp(s, t) = "Less",
                       SizePartialCmp(t, u) = "Less"
                PROVE  SizePartialCmp(s, u) = "Less"
    OBVIOUS
  <2>1. s.bounded /\ t.bounded
    BY SizeCmpArms, Zenon
  <2>2. CASE u.bounded
    <3>1. s.len \in Address /\ t.len \in Address /\ u.len \in Address
      BY <2>1, <2>2, SizeCases
    <3>2. AddrCmp(s.len, t.len) = "Less" /\ AddrCmp(t.len, u.len) = "Less"
      BY <2>1, <2>2, SizeCmpArms
    <3>3. SizePartialCmp(s, u) = AddrCmp(s.len, u.len)
      BY <2>1, <2>2, SizeCmpArms
    <3>. QED BY <3>1, <3>2, <3>3, AddrCmpLaws
  <2>3. CASE ~u.bounded
    BY <2>1, <2>3, SizeCmpArms
  <2>. QED BY <2>2, <2>3
<1>5. SizeCmpAddr(s, a) = SizePartialCmp(s, Bounded(a))
      /\ SizeEqAddr(s, a) = SizeEq(s, Bounded(a))
  <2>1. Bounded(a) \in Size /\ Bounded(a).bounded /\ Bounded(a).len = a
    BY Zenon DEF Size, Bounded
  <2>2. CASE s.bounded
    <3>1. SizePartialCmp(s, Bounded(a)) = AddrCmp(s.len, a)
      BY <2>1, <2>2, SizeCmpArms
    <3>. QED BY <2>1, <2>2, <3>1, Zenon DEF SizeCmpAddr, SizeEqAddr, SizeEq
  <2>3. CASE ~s.bounded
    <3>1. SizePartialCmp(s, Bounded(a)) = "Greater"
      BY <2>1, <2>3, SizeCmpArms
    <3>. QED BY <2>1, <2>3, <3>1, Zenon DEF SizeCmpAddr, SizeEqAddr, SizeEq
  <2>. QED BY <2>2, <2>3
<1>. QED BY <1>1, <1>2, <1>3, <1>4, <1>5

=============================================================================
