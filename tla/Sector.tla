------------------------------- MODULE Sector -------------------------------
(***************************************************************************)
(* The SectorSize contract and the Address<S> value type of src/sector.rs. *)
(*                                                                         *)
(* An Address is the pair (sector, offset) of two u32 fields.  Every      *)
(* constructor goes through a signed 64-bit linear index that it splits   *)
(* again with an arithmetic shift and a mask, then casts back to u32.     *)
(* The widths of the u32 and i32 types are constants so that TLC can      *)
(* check the wrap-around of the casts on a small instance; in the code    *)
(* SectorBits = OffsetBits = 32.  The i64 index never overflows in the    *)
(* code (32 + 31 bits), so it is an unbounded integer here.               *)
(*                                                                         *)
(* Operations that can panic or return None yield the values Panic and    *)
(* None instead of an Address.                                            *)
(***************************************************************************)
EXTENDS Integers

CONSTANTS
  LOG_SIZE,        \* SectorSize::LOG_SIZE, log2 of the sector size in bytes
  SectorBits,      \* width of u32 (32 in the code)
  OffsetBits,      \* width of i32 (32 in the code)
  OverflowChecks   \* TRUE in a build with overflow checks (debug/test profile)

ASSUME SectorAssumption ==
  /\ SectorBits \in Nat \ {0}
  /\ OffsetBits \in Nat \ {0}
  /\ OffsetBits <= SectorBits
  /\ LOG_SIZE \in Nat
  /\ LOG_SIZE < OffsetBits
  /\ OverflowChecks \in BOOLEAN

\* SectorSize::SIZE = 1 << LOG_SIZE.
SIZE == 2^LOG_SIZE

\* Number of values of u32, and half the number of values of i32.
U32 == 2^SectorBits
I32Half == 2^(OffsetBits - 1)

\* The provers do not reason about ^: the powers used are stated positive
\* once here, and TLC checks the statement on every run.
ASSUME PowerAssumption ==
  /\ SIZE \in Nat \ {0}
  /\ U32 \in Nat \ {0}
  /\ I32Half \in Nat \ {0}
  /\ 2 * SIZE <= U32
  /\ SIZE <= I32Half

\* Number of bytes an Address can designate.
MaxIndex == U32 * SIZE

\* Outcomes of an operation that do not yield an Address (records, so that
\* TLC can compare them with addresses).
Panic == [status |-> "panic"]
None == [status |-> "none"]

\* `x as u32` for an integer x (two's complement truncation).
AsU32(x) == x % U32

\* `x as i32` for an integer x (two's complement truncation).
AsI32(x) == ((x + I32Half) % (2 * I32Half)) - I32Half

\* Values of the i32 type.
I32 == -I32Half .. I32Half - 1

\* The normalised addresses: 0 <= offset < SIZE.
Address == [sector : 0 .. U32 - 1, offset : 0 .. SIZE - 1]

\* Mutant of Split: OFFSET_MASK taken as SIZE instead of SIZE - 1, so the
\* offset is the single bit LOG_SIZE of the index.
SplitBadMask(index) ==
  [sector |-> AsU32(index \div SIZE), offset |-> ((index \div SIZE) % 2) * SIZE]

\* Mutant of Split: the sector by a truncating `/` instead of `>>`, which
\* rounds negative indices towards zero (a lost borrow).
SplitTruncSector(index) ==
  [sector |-> AsU32(IF index < 0 THEN -((-index) \div SIZE) ELSE index \div SIZE),
   offset |-> index % SIZE]

\* Splitting a 64-bit index: sector = (index >> LOG_SIZE) as u32,
\* offset = index as u32 & OFFSET_MASK.  The shift of a signed value
\* rounds towards minus infinity, which \div does for a positive divisor.
Split(index) ==
  [sector |-> AsU32(index \div SIZE), offset |-> index % SIZE]

\* Mutant of NewUnchecked: the assert! dropped (or made a debug_assert! in a
\* release build), so an unnormalised offset is stored.
NewUncheckedNoAssert(sector, offset) == [sector |-> sector, offset |-> offset]

\* Address::new_unchecked: the assert! is not a debug_assert.
NewUnchecked(sector, offset) ==
  IF offset < SIZE THEN [sector |-> sector, offset |-> offset] ELSE Panic

\* Address::new(sector: u32, offset: i32).
New(sector, offset) == Split(sector * SIZE + offset)

\* Address::with_block_size(block, offset, log_block_size).
WithBlockSize(block, offset, log_block_size) ==
  Split(block * 2^log_block_size + offset)

\* Address::into_index.
IntoIndex(a) == a.sector * SIZE + a.offset

\* From<u64> and From<usize>: both split idx then call Address::new.
FromIndex(idx) == New(AsU32(idx \div SIZE), idx % SIZE)

\* Add: u32 addition of the sectors (panics with overflow checks, wraps
\* otherwise), u32 addition of the offsets cast to i32, then Address::new.
AddAddr(a, b) ==
  IF OverflowChecks /\ a.sector + b.sector >= U32
  THEN Panic
  ELSE New(AsU32(a.sector + b.sector), AsI32(a.offset + b.offset))

\* Sub: u32 subtraction of the sectors, i32 subtraction of the offsets.
SubAddr(a, b) ==
  IF OverflowChecks /\ a.sector < b.sector
  THEN Panic
  ELSE New(AsU32(a.sector - b.sector), a.offset - b.offset)

\* Mutant of ForwardChecked: `wrapping_add` instead of `checked_add`, so
\* a step past the last sector wraps to the first ones.
ForwardWrapping(a, count) == New(AsU32(a.sector + AsU32(count)), 0)

\* Step::forward_checked: `count as u32`, then checked_add.
ForwardChecked(a, count) ==
  IF a.sector + AsU32(count) < U32
  THEN New(a.sector + AsU32(count), 0)
  ELSE None

\* Step::backward_checked: `count as u32`, then checked_sub.
BackwardChecked(a, count) ==
  IF a.sector >= AsU32(count)
  THEN New(a.sector - AsU32(count), 0)
  ELSE None

\* Some(n) of an Option<usize>.
Some(n) == [steps |-> n]

\* Step::steps_between: compares the sectors only.
StepsBetween(a, b) ==
  IF b.sector >= a.sector THEN Some(b.sector - a.sector) ELSE None

\* The derived PartialOrd of Address: lexicographic on (sector, offset).
AddrLt(a, b) ==
  \/ a.sector < b.sector
  \/ a.sector = b.sector /\ a.offset < b.offset

=============================================================================
