------------------------------ MODULE SectorProofs -----------------------------
(***************************************************************************)
(* Lemmas about the Address<S> operators of src/sector.rs, for every      *)
(* sector size and every width of the u32 and i32 types.                  *)
(*                                                                         *)
(* The arithmetic facts rest on the uniqueness of Euclidean division with *)
(* a positive divisor (ModUnique), from which the congruences that the    *)
(* shift-and-mask split needs are derived.                                 *)
(***************************************************************************)
EXTENDS Sector, TLAPS

(***************************************************************************)
(* Arithmetic lemmas.                                                      *)
(***************************************************************************)

\* The remainder of a * M + r is r when r lies in 0 .. M - 1.
LEMMA ModUnique ==
  ASSUME NEW M \in Nat \ {0}, NEW a \in Int, NEW r \in 0 .. M - 1
  PROVE  (M * a + r) % M = r
BY SMT

\* Adding a multiple of M does not change the remainder modulo M.
LEMMA ModShift ==
  ASSUME NEW M \in Nat \ {0}, NEW y \in Int, NEW q \in Int
  PROVE  (y + q * M) % M = y % M
<1>1. (y % M) \in 0 .. M - 1 /\ (y \div M) + q \in Int
  BY SMT
<1>2. y + q * M = M * ((y \div M) + q) + (y % M)
  BY SMT
<1>. QED BY <1>1, <1>2, ModUnique

\* Reducing a sector modulo U before scaling it by S does not change the
\* index modulo U * S: the `as u32` of the sector is a wrap of the index.
LEMMA ModMul ==
  ASSUME NEW U \in Nat \ {0}, NEW S \in Nat \ {0}, NEW k \in Int, NEW x \in Int
  PROVE  ((k % U) * S + x) % (U * S) = (k * S + x) % (U * S)
<1>1. k * S + x = ((k % U) * S + x) + (k \div U) * (U * S)
  BY SMT
<1>2. (k % U) * S + x \in Int /\ k \div U \in Int /\ U * S \in Nat \ {0}
  BY SMT
<1>. QED BY <1>1, <1>2, ModShift

\* The pair (sector, offset) split from i, read back as an index, is i
\* modulo U * S.
LEMMA SplitMod ==
  ASSUME NEW U \in Nat \ {0}, NEW S \in Nat \ {0}, NEW i \in Int
  PROVE  ((i \div S) % U) * S + (i % S) = i % (U * S)
<1>1. ((i \div S) % U) * S + (i % S) \in 0 .. U * S - 1
  <2>1. (i \div S) % U \in 0 .. U - 1 /\ (i % S) \in 0 .. S - 1
    BY SMT
  <2>. QED BY <2>1, SMT
<1>2. (((i \div S) % U) * S + (i % S)) % (U * S)
        = ((i \div S) * S + (i % S)) % (U * S)
  <2>. (i \div S) \in Int /\ (i % S) \in Int
    BY SMT
  <2>. QED BY ModMul
<1>3. (i \div S) * S + (i % S) = i
  BY SMT
<1>4. (((i \div S) % U) * S + (i % S)) % (U * S)
        = ((i \div S) % U) * S + (i % S)
  <2>. DEFINE y == ((i \div S) % U) * S + (i % S)
  <2>1. U * S \in Nat \ {0} /\ y = (U * S) * 0 + y
    BY <1>1, SMT
  <2>. QED BY <1>1, <2>1, ModUnique
<1>. QED BY <1>2, <1>3, <1>4

(***************************************************************************)
(* Lemmas about the operators of Sector.                                   *)
(***************************************************************************)

\* The powers of two the model is built on are positive.
LEMMA Powers ==
  /\ SIZE \in Nat \ {0}
  /\ U32 \in Nat \ {0}
  /\ I32Half \in Nat \ {0}
  /\ MaxIndex \in Nat \ {0}
  /\ SIZE <= I32Half
<1>1. SIZE \in Nat \ {0} /\ U32 \in Nat \ {0} /\ I32Half \in Nat \ {0}
      /\ SIZE <= I32Half
  BY PowerAssumption
<1>. QED BY <1>1, SMT DEF MaxIndex

\* Splitting any integer index yields a normalised address.
LEMMA SplitType ==
  ASSUME NEW i \in Int
  PROVE  Split(i) \in Address
BY Powers, SMT DEF Split, AsU32, Address

\* Splitting an index and reading the address back yields the index
\* modulo the addressable range.
LEMMA SplitIndex ==
  ASSUME NEW i \in Int
  PROVE  IntoIndex(Split(i)) = i % MaxIndex
<1>1. IntoIndex(Split(i)) = ((i \div SIZE) % U32) * SIZE + (i % SIZE)
  BY DEF IntoIndex, Split, AsU32
<1>. QED BY <1>1, Powers, SplitMod DEF MaxIndex

\* The values that are not addresses.
LEMMA NotAddress ==
  /\ Panic \notin Address
  /\ None \notin Address
  /\ \A n \in Nat : Some(n) \notin Address
BY DEF Panic, None, Some, Address

(***************************************************************************)
(* Type correctness.                                                       *)
(***************************************************************************)

\* Address::new_unchecked, for the inputs a caller passes, returns a
\* normalised address or panics.
LEMMA NewUncheckedType ==
  ASSUME NEW s \in 0 .. U32 - 1, NEW o \in 0 .. SIZE
  PROVE  NewUnchecked(s, o) \in Address \cup {Panic}
BY Powers, SMT DEF NewUnchecked, Address

\* Address::new normalises any pair of integers.
LEMMA NewType ==
  ASSUME NEW x \in Int, NEW y \in Int
  PROVE  New(x, y) \in Address
<1>1. x * SIZE + y \in Int
  BY Powers, SMT
<1>. QED BY <1>1, SplitType DEF New

\* The casts yield integers.
LEMMA CastType ==
  ASSUME NEW x \in Int
  PROVE  AsU32(x) \in Int /\ AsI32(x) \in Int
BY Powers, SMT DEF AsU32, AsI32

\* From<u64>/From<usize> normalise their result.
LEMMA FromIndexType ==
  ASSUME NEW n \in Int
  PROVE  FromIndex(n) \in Address
<1>1. (n \div SIZE) \in Int /\ (n % SIZE) \in Int
  BY Powers, SMT
<1>2. AsU32(n \div SIZE) \in Int
  BY <1>1, CastType
<1>. QED BY <1>1, <1>2, NewType DEF FromIndex

\* Add, Sub and the Step operations on normalised addresses.
LEMMA BinaryTypes ==
  ASSUME NEW a \in Address, NEW b \in Address, NEW n \in Nat
  PROVE  /\ AddAddr(a, b) \in Address \cup {Panic}
         /\ SubAddr(a, b) \in Address \cup {Panic}
         /\ ForwardChecked(a, n) \in Address \cup {None}
         /\ BackwardChecked(a, n) \in Address \cup {None}
         /\ StepsBetween(a, b) \in [steps : Nat] \cup {None}
<1>1. a.sector \in Int /\ a.offset \in Int /\ b.sector \in Int /\ b.offset \in Int
  BY DEF Address
<1>2. /\ AsU32(a.sector + b.sector) \in Int /\ AsI32(a.offset + b.offset) \in Int
      /\ AsU32(a.sector - b.sector) \in Int /\ AsU32(n) \in Int
  BY <1>1, CastType
<1>3. AddAddr(a, b) \in Address \cup {Panic}
  BY <1>1, <1>2, NewType DEF AddAddr
<1>4. SubAddr(a, b) \in Address \cup {Panic}
  BY <1>1, <1>2, NewType DEF SubAddr
<1>5. ForwardChecked(a, n) \in Address \cup {None}
  BY <1>1, <1>2, NewType DEF ForwardChecked
<1>6. BackwardChecked(a, n) \in Address \cup {None}
  BY <1>1, <1>2, NewType DEF BackwardChecked
<1>7. StepsBetween(a, b) \in [steps : Nat] \cup {None}
  BY <1>1, SMT DEF StepsBetween, Some, Address
<1>. QED BY <1>3, <1>4, <1>5, <1>6, <1>7

(***************************************************************************)
(* Index arithmetic.                                                       *)
(***************************************************************************)

\* The offsets of two normalised addresses add up without wrapping the
\* `as i32` of Add: LOG_SIZE <= OffsetBits - 2 (LOG_SIZE <= 30 in the
\* code).  Without it Add wraps negative (run add_i32_edge).
NoOffsetWrap == 2 * SIZE <= I32Half

\* A remainder is its own remainder.
LEMMA ModIdem ==
  ASSUME NEW M \in Nat \ {0}, NEW y \in 0 .. M - 1
  PROVE  y % M = y
<1>1. y = M * 0 + y
  BY SMT
<1>. QED BY <1>1, ModUnique

\* `as i32` leaves an i32 value unchanged.
LEMMA AsI32Id ==
  ASSUME NEW x \in -I32Half .. I32Half - 1
  PROVE  AsI32(x) = x
<1>1. 2 * I32Half \in Nat \ {0} /\ x + I32Half \in 0 .. 2 * I32Half - 1
  BY Powers, SMT
<1>2. (x + I32Half) % (2 * I32Half) = x + I32Half
  BY <1>1, ModIdem
<1>. QED BY <1>2, Powers, SMT DEF AsI32

\* Address::new read back is the linear index sector * SIZE + offset
\* modulo the addressable range.
LEMMA NewIndex ==
  ASSUME NEW x \in Int, NEW y \in Int
  PROVE  IntoIndex(New(x, y)) = (x * SIZE + y) % MaxIndex
<1>1. x * SIZE + y \in Int
  BY Powers, SMT
<1>. QED BY <1>1, SplitIndex DEF New

\* Sector reduction modulo u32 is invisible modulo the addressable range.
LEMMA SectorWrapIndex ==
  ASSUME NEW k \in Int, NEW x \in Int
  PROVE  ((k % U32) * SIZE + x) % MaxIndex = (k * SIZE + x) % MaxIndex
BY Powers, ModMul DEF MaxIndex

\* Add, when it does not panic, is linear index addition modulo the range.
LEMMA AddIndex ==
  ASSUME NoOffsetWrap, NEW a \in Address, NEW b \in Address,
         AddAddr(a, b) \in Address
  PROVE  IntoIndex(AddAddr(a, b)) = (IntoIndex(a) + IntoIndex(b)) % MaxIndex
<1>1. AddAddr(a, b) = New(AsU32(a.sector + b.sector), AsI32(a.offset + b.offset))
  BY NotAddress DEF AddAddr
<1>2. AsI32(a.offset + b.offset) = a.offset + b.offset
  <2>1. a.offset + b.offset \in -I32Half .. I32Half - 1
    BY Powers, SMT DEF NoOffsetWrap, Address
  <2>. QED BY <2>1, AsI32Id
<1>3. a.sector + b.sector \in Int /\ a.offset + b.offset \in Int
  BY SMT DEF Address
<1>4. IntoIndex(AddAddr(a, b))
        = (((a.sector + b.sector) % U32) * SIZE + (a.offset + b.offset)) % MaxIndex
  BY <1>1, <1>2, <1>3, CastType, NewIndex DEF AsU32
<1>5. (a.sector + b.sector) * SIZE + (a.offset + b.offset)
        = IntoIndex(a) + IntoIndex(b)
  BY Powers, SMT DEF IntoIndex, Address
<1>. QED BY <1>3, <1>4, <1>5, SectorWrapIndex

\* Sub, when it does not panic, is linear index subtraction modulo the
\* range (the i32 difference of two offsets never wraps).
LEMMA SubIndex ==
  ASSUME NEW a \in Address, NEW b \in Address, SubAddr(a, b) \in Address
  PROVE  IntoIndex(SubAddr(a, b)) = (IntoIndex(a) - IntoIndex(b)) % MaxIndex
<1>1. SubAddr(a, b) = New(AsU32(a.sector - b.sector), a.offset - b.offset)
  BY NotAddress DEF SubAddr
<1>2. a.sector - b.sector \in Int /\ a.offset - b.offset \in Int
  BY SMT DEF Address
<1>3. IntoIndex(SubAddr(a, b))
        = (((a.sector - b.sector) % U32) * SIZE + (a.offset - b.offset)) % MaxIndex
  BY <1>1, <1>2, CastType, NewIndex DEF AsU32
<1>4. (a.sector - b.sector) * SIZE + (a.offset - b.offset)
        = IntoIndex(a) - IntoIndex(b)
  BY Powers, SMT DEF IntoIndex, Address
<1>. QED BY <1>2, <1>3, <1>4, SectorWrapIndex

\* Two ring identities, over abstract integers so that the solver does not
\* see the remainders and quotients they are applied to.
LEMMA RingAdd ==
  ASSUME NEW x \in Int, NEW k \in Int, NEW z \in Int
  PROVE  (x + k) * z + 0 = k * z + x * z
BY SMT

LEMMA RingSub ==
  ASSUME NEW x \in Int, NEW q \in Int, NEW r \in Int, NEW u \in Int, NEW z \in Int
  PROVE  (x - (u * q + r)) * z = (x - r) * z + (-q) * (u * z)
BY SMT

\* forward_checked, when it succeeds, moves count whole sectors.
LEMMA ForwardIndex ==
  ASSUME NEW a \in Address, NEW n \in Nat, ForwardChecked(a, n) \in Address
  PROVE  IntoIndex(ForwardChecked(a, n)) = ((a.sector + n) * SIZE) % MaxIndex
<1>1. ForwardChecked(a, n) = New(a.sector + (n % U32), 0)
  BY NotAddress DEF ForwardChecked, AsU32
<1>2. a.sector + (n % U32) \in Int /\ a.sector * SIZE \in Int
  BY Powers, SMT DEF Address
<1>3. IntoIndex(ForwardChecked(a, n))
        = ((n % U32) * SIZE + a.sector * SIZE) % MaxIndex
  <2>1. IntoIndex(ForwardChecked(a, n))
          = ((a.sector + (n % U32)) * SIZE + 0) % MaxIndex
    BY <1>1, <1>2, NewIndex
  <2>2. (a.sector + (n % U32)) * SIZE + 0 = (n % U32) * SIZE + a.sector * SIZE
    <3>1. a.sector \in Int /\ (n % U32) \in Int /\ SIZE \in Int
      BY Powers, SMT DEF Address
    <3>. QED BY <3>1, RingAdd
  <2>. QED BY <2>1, <2>2
<1>4. (n * SIZE + a.sector * SIZE) = (a.sector + n) * SIZE
  BY Powers, SMT DEF Address
<1>. QED BY <1>2, <1>3, <1>4, SectorWrapIndex

\* backward_checked, when it succeeds, moves count whole sectors back.
LEMMA BackwardIndex ==
  ASSUME NEW a \in Address, NEW n \in Nat, BackwardChecked(a, n) \in Address
  PROVE  IntoIndex(BackwardChecked(a, n)) = ((a.sector - n) * SIZE) % MaxIndex
<1>1. BackwardChecked(a, n) = New(a.sector - (n % U32), 0)
  BY NotAddress DEF BackwardChecked, AsU32
<1>2. a.sector - (n % U32) \in Int /\ -(n \div U32) \in Int
  BY Powers, SMT DEF Address
<1>3. IntoIndex(BackwardChecked(a, n))
        = ((a.sector - (n % U32)) * SIZE) % MaxIndex
  <2>1. IntoIndex(BackwardChecked(a, n))
          = ((a.sector - (n % U32)) * SIZE + 0) % MaxIndex
    BY <1>1, <1>2, NewIndex
  <2>. QED BY <2>1, <1>2, Powers, SMT
<1>4. (a.sector - n) * SIZE
        = (a.sector - (n % U32)) * SIZE + (-(n \div U32)) * MaxIndex
  <2>1. n = U32 * (n \div U32) + (n % U32)
        /\ (n \div U32) \in Int /\ (n % U32) \in Int
    BY Powers, SMT
  <2>2. a.sector \in Int /\ SIZE \in Int /\ U32 \in Int
    BY Powers, SMT DEF Address
  <2>. QED BY <2>1, <2>2, RingSub DEF MaxIndex
<1>5. (a.sector - (n % U32)) * SIZE \in Int
  BY <1>2, Powers, SMT
<1>. QED BY <1>2, <1>3, <1>4, <1>5, Powers, ModShift

\* new_unchecked, when it does not panic, stores an index in range.
LEMMA NewUncheckedIndex ==
  ASSUME NEW s \in 0 .. U32 - 1, NEW o \in 0 .. SIZE,
         NewUnchecked(s, o) \in Address
  PROVE  IntoIndex(NewUnchecked(s, o)) = (s * SIZE + o) % MaxIndex
<1>1. NewUnchecked(s, o) = [sector |-> s, offset |-> o] /\ o < SIZE
  BY NotAddress DEF NewUnchecked
<1>2. s * SIZE + o \in 0 .. MaxIndex - 1
  BY <1>1, Powers, SMT DEF MaxIndex
<1>. QED BY <1>1, <1>2, Powers, ModIdem DEF IntoIndex

\* From<u64>/From<usize> keep the index modulo the addressable range.
LEMMA FromIndexIndex ==
  ASSUME NEW i \in Int
  PROVE  IntoIndex(FromIndex(i)) = i % MaxIndex
<1>1. (i \div SIZE) \in Int /\ (i % SIZE) \in Int
  BY Powers, SMT
<1>2. IntoIndex(FromIndex(i))
        = (((i \div SIZE) % U32) * SIZE + (i % SIZE)) % MaxIndex
  BY <1>1, CastType, NewIndex DEF FromIndex, AsU32
<1>3. ((i \div SIZE) % U32) * SIZE + (i % SIZE) = i % MaxIndex
  BY Powers, SplitMod DEF MaxIndex
<1>4. (i % MaxIndex) \in 0 .. MaxIndex - 1
  BY Powers, SMT
<1>. QED BY <1>2, <1>3, <1>4, Powers, ModIdem

(***************************************************************************)
(* Order and representable sums.                                           *)
(***************************************************************************)

\* The index of a normalised address lies in the addressable range.
LEMMA IndexRange ==
  ASSUME NEW a \in Address
  PROVE  IntoIndex(a) \in 0 .. MaxIndex - 1
BY Powers, SMT DEF IntoIndex, Address, MaxIndex

\* The derived (lexicographic) order of Address is the order of indices.
LEMMA AddrLtIndex ==
  ASSUME NEW a \in Address, NEW b \in Address
  PROVE  AddrLt(a, b) <=> IntoIndex(a) < IntoIndex(b)
BY Powers, SMT DEF AddrLt, IntoIndex, Address

\* The quotient of q * M + r by M is q when r lies in 0 .. M - 1.
LEMMA DivUnique ==
  ASSUME NEW M \in Nat \ {0}, NEW q \in Int, NEW r \in 0 .. M - 1
  PROVE  (M * q + r) \div M = q
BY SMT

\* Splitting the index of a normalised address gives the address back.
LEMMA SplitInto ==
  ASSUME NEW a \in Address
  PROVE  Split(IntoIndex(a)) = a
<1>1. (a.sector * SIZE + a.offset) \div SIZE = a.sector
      /\ (a.sector * SIZE + a.offset) % SIZE = a.offset
  <2>1. a.sector \in Int /\ a.offset \in 0 .. SIZE - 1
    BY DEF Address
  <2>2. a.sector * SIZE + a.offset = SIZE * a.sector + a.offset
    BY <2>1, Powers, SMT
  <2>. QED BY <2>1, <2>2, Powers, ModUnique, DivUnique
<1>2. a.sector % U32 = a.sector
  BY Powers, ModIdem DEF Address
<1>3. a = [sector |-> a.sector, offset |-> a.offset]
  BY DEF Address
<1>. QED BY <1>1, <1>2, <1>3 DEF Split, IntoIndex, AsU32

\* A product with a positive factor is monotone in the other factor.
LEMMA MulCancel ==
  ASSUME NEW x \in Int, NEW y \in Int, NEW z \in Nat \ {0}, x * z < y * z
  PROVE  x < y
BY SMT

\* Adding a length to an address whose end stays in the addressable range
\* neither panics nor wraps: the end's index is the sum.
LEMMA AddRepresentable ==
  ASSUME NoOffsetWrap, NEW a \in Address, NEW len \in Nat,
         IntoIndex(a) + len < MaxIndex
  PROVE  /\ AddAddr(a, FromIndex(len)) \in Address
         /\ IntoIndex(AddAddr(a, FromIndex(len))) = IntoIndex(a) + len
<1>. DEFINE f == FromIndex(len)
<1>1. f \in Address /\ IntoIndex(f) = len
  <2>0. IntoIndex(a) \in 0 .. MaxIndex - 1
    BY IndexRange
  <2>1. len \in 0 .. MaxIndex - 1
    BY <2>0, Powers, SMT
  <2>2. len % MaxIndex = len
    BY <2>1, Powers, ModIdem
  <2>. QED BY <2>2, FromIndexType, FromIndexIndex
<1>2. a.sector + f.sector < U32
  <2>1. (a.sector + f.sector) * SIZE <= IntoIndex(a) + len
    BY <1>1, Powers, SMT DEF IntoIndex, Address
  <2>2. (a.sector + f.sector) * SIZE < U32 * SIZE
    <3>1. IntoIndex(a) \in Int /\ (a.sector + f.sector) * SIZE \in Int
      BY <1>1, Powers, SMT DEF IntoIndex, Address
    <3>. QED BY <2>1, <3>1, Powers, SMT DEF MaxIndex
  <2>3. a.sector + f.sector \in Int
    BY <1>1 DEF Address
  <2>4. U32 \in Int /\ SIZE \in Nat \ {0}
    BY Powers
  <2>. QED BY <2>2, <2>3, <2>4, MulCancel
<1>3. AddAddr(a, f) = New(AsU32(a.sector + f.sector), AsI32(a.offset + f.offset))
  <2>1. ~(a.sector + f.sector >= U32)
    BY <1>1, <1>2, Powers, SMT DEF Address
  <2>. QED BY <2>1, Zenon DEF AddAddr
<1>4. AddAddr(a, f) \in Address
  <2>1. AsU32(a.sector + f.sector) \in Int /\ AsI32(a.offset + f.offset) \in Int
    BY <1>1, CastType DEF Address
  <2>. QED BY <1>3, <2>1, NewType
<1>5. IntoIndex(AddAddr(a, f)) = (IntoIndex(a) + len) % MaxIndex
  BY <1>1, <1>4, AddIndex
<1>6. IntoIndex(a) + len \in 0 .. MaxIndex - 1
  <2>1. IntoIndex(a) \in 0 .. MaxIndex - 1
    BY IndexRange
  <2>. QED BY <2>1, Powers, SMT
<1>. QED BY <1>4, <1>5, <1>6, Powers, ModIdem


\* Address::new(sector, 0) of a u32 sector is that sector, at offset 0.
LEMMA NewAligned ==
  ASSUME NEW s \in 0 .. U32 - 1
  PROVE  New(s, 0) = [sector |-> s, offset |-> 0]
<1>1. (s * SIZE + 0) \div SIZE = s /\ (s * SIZE + 0) % SIZE = 0
  BY Powers, SMT
<1>2. AsU32(s) = s
  BY Powers, ModIdem DEF AsU32
<1>. QED BY <1>1, <1>2 DEF New, Split

\* On a sector-aligned address, forward_checked and backward_checked by
\* the same count undo each other whenever the first one succeeds: both
\* truncate the count to the same u32, and neither wraps.
LEMMA StepsInverse ==
  ASSUME NEW a \in Address, a.offset = 0, NEW n \in Nat
  PROVE  /\ ForwardChecked(a, n) \in Address =>
              BackwardChecked(ForwardChecked(a, n), n) = a
         /\ BackwardChecked(a, n) \in Address =>
              ForwardChecked(BackwardChecked(a, n), n) = a
<1>. DEFINE k == AsU32(n)
<1>1. k \in 0 .. U32 - 1 /\ a.sector \in 0 .. U32 - 1
  BY Powers, SMT DEF AsU32, Address
<1>2. a = [sector |-> a.sector, offset |-> 0]
  BY DEF Address
<1>3. ASSUME ForwardChecked(a, n) \in Address
      PROVE  BackwardChecked(ForwardChecked(a, n), n) = a
  <2>1. a.sector + k < U32
    BY <1>3, NotAddress DEF ForwardChecked
  <2>2. a.sector + k \in 0 .. U32 - 1
    BY <1>1, <2>1, Powers, SMT
  <2>3. ForwardChecked(a, n) = [sector |-> a.sector + k, offset |-> 0]
    BY <2>1, <2>2, NewAligned DEF ForwardChecked
  <2>4. a.sector + k >= k /\ (a.sector + k) - k = a.sector
    BY <1>1, SMT
  <2>5. BackwardChecked(ForwardChecked(a, n), n) = New(a.sector, 0)
    BY <2>3, <2>4 DEF BackwardChecked
  <2>. QED BY <1>1, <1>2, <2>5, NewAligned
<1>4. ASSUME BackwardChecked(a, n) \in Address
      PROVE  ForwardChecked(BackwardChecked(a, n), n) = a
  <2>1. a.sector >= k
    BY <1>4, NotAddress DEF BackwardChecked
  <2>2. a.sector - k \in 0 .. U32 - 1
    BY <1>1, <2>1, Powers, SMT
  <2>3. BackwardChecked(a, n) = [sector |-> a.sector - k, offset |-> 0]
    BY <2>1, <2>2, NewAligned DEF BackwardChecked
  <2>4. (a.sector - k) + k < U32 /\ (a.sector - k) + k = a.sector
    BY <1>1, Powers, SMT
  <2>5. ForwardChecked(BackwardChecked(a, n), n) = New(a.sector, 0)
    BY <2>3, <2>4 DEF ForwardChecked
  <2>. QED BY <1>1, <1>2, <2>5, NewAligned
<1>. QED BY <1>3, <1>4
=============================================================================
