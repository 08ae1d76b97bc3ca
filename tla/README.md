# Verification of the sector-addressing and record-location core of ext2-rs

This directory holds TLA+ models of the core of the library: the addresses
on the medium (`src/sector.rs`), the extent of a volume
(`src/volume/size.rs`) and the bounds-checked record locators
(`src/sys/block_group.rs` and `src/sys/inode.rs`). It also holds TLC
configurations that model-check the models on small instances, and TLAPS
proofs, for every instance, of the main facts about address arithmetic and
about the locators' bounds checks.

## The system and its parts

| Part | Source | Module | Status |
|---|---|---|---|
| `SectorSize` contract, `Address<S>` value type and all its operations | `src/sector.rs` | `Sector` (operators), `SectorOps` (a caller applying them), `MCSectorOps` | modelled |
| `Size<S>` extent: `Unbounded`/`Bounded`, `try_len`, `is_bounded`, both `PartialEq` and both `PartialOrd` impls | `src/volume/size.rs` | `VolumeSize` | modelled |
| Record locators `find_descriptor`, `find_descriptor_table`, `find_inode` | `src/sys/block_group.rs`, `src/sys/inode.rs` | `Locator`, `MCLocator`; `AbstractLocator` (what they promise), `LocatorRefinement`, `MCLocatorRefinement` | modelled |
| Packed record layout (`BlockGroupDescriptor`, `Inode`; `tests::sizes`) | `src/sys/*.rs`, `src/lib.rs` | `Layout` | field widths only. No property depends on it: its `LayoutSizes` assumption checks, on every locator run, that the packed sizes are the 32 and 128 bytes that `DescriptorSize` and `InodeSize` stand for, which the runs scale down to 3 and 5 |
| Volume capability (`size`, `slice_unchecked`, `dynamic_cast`) | not under `src/` | `Locator!DynamicCast` | modelled from the spec |
| Error type, superblock, `fs`, volume implementations | not under `src/` | none | not modelled |
| `Debug`/`Display`/`LowerHex` formatting, `TypePerm`/`Flags` bitflags | everywhere | none | not modelled: formatting and data only |

How the parts interact. A caller holds a volume and a start `Address`. A
locator computes the end of the record as `offset + Address::from(len)`.
`Add` sums the sectors as u32 and the offsets as u32 cast to i32, then
renormalises through `Address::new`. The locator compares the volume's
`Size` with that end (`haystack.size() < end`) and returns
`AddressOutOfBounds` when the end lies beyond the extent. Otherwise it casts
the byte range `offset..end` into the record. `find_descriptor_table` checks
the whole table once, then calls `find_descriptor` for each element and
leaves through `?` at the first failure.

### Address arithmetic: `Sector`, `SectorOps`

An `Address` is the record `[sector, offset]`. The widths of u32 and i32 are
the constants `SectorBits` and `OffsetBits`, both 32 in the code. They are
constants so that TLC sees the casts wrap on a small instance. `AsU32` and
`AsI32` are the two's-complement casts.

`Address::new` and `with_block_size` build the signed 64-bit index. That
index of `new` never overflows in the code (at most 32 + 31 bits), so it is an
unbounded integer in the model. The index of `with_block_size` is
`block << log_block_size`, which loses high bits once log_block_size
reaches 32. `SectorOpsAssumption` keeps `LogBlockSizes` below
`OffsetBits` (31 in the code), the range where the model is exact. They then split the index with `>>` (`\div`,
which rounds towards minus infinity as an arithmetic shift does) and `&`
(`%`), and cast the sector to u32 (`Split`). `Add` and `Sub` panic on u32
overflow when `OverflowChecks` is TRUE (debug and test builds) and wrap when
it is FALSE. The `Step` operations cast the count with `as u32` first, as the
code does.

`SectorOps` is a caller that holds one address, starting from
`Address::default()`. Each step applies one operation to it: `Do*` for each
public operation, with inputs drawn from small sets. `call` records the
operation and its inputs, and `result` records what the operation returned.
A panic ends the caller.

### Extent: `VolumeSize`

`Size` is `Unbounded` or `Bounded(a)`. An `Option<Ordering>` is one of the
strings `"Less"`, `"Equal"`, `"Greater"` or `"Unordered"`. `SizeLtAddr` is
`partial_cmp == Some(Less)`, which is how `PartialOrd::lt` is defined.
`MCLocator` checks in an `ASSUME` the behaviour the spec calls out:
`Unbounded` equals nothing, itself included, and is unordered with itself. It
also checks that comparing a `Size` with an address agrees with comparing it
with `Bounded` of that address.

### Record locators: `Locator`

The variables are:

- `vol`: the volume's extent, which is fixed;
- `call`: the operation, the start address and the length or count;
- `result`: the outcome, which is `ok` with the ranges read and the address
  returned, `err` with the `AddressOutOfBounds` payload, or `panic`;
- `casts`: every byte range the call cast, in order.

Record contents are abstracted to the range that was cast. `Locate` is the
protocol shared by `find_descriptor` and `find_inode`: the end address, the
check, the cast. `FindDescriptorTable` has one disjunct for each way the code
can leave it:

- the usize product `count * size_of` overflows (with overflow checks), or
  the sum panics;
- the whole-table check fails;
- `Vec::with_capacity(count)` panics with "capacity overflow", because the
  table takes more than `isize::MAX` bytes;
- an element fails inside the loop, after the earlier elements were cast;
- the loop completes, and the code returns `offset`, the start.

The product is a usize of `UsizeBits` bits (`USIZE = 2^UsizeBits`,
`ISIZE_MAX = 2^(UsizeBits-1) - 1`). `MulOverflows` is the debug-build
panic, and `TableBytes` is the wrapped product of a release build.
`UsizeAssumption` requires that every address index fits `isize`, as in
the code (64 > 32 + `LOG_SIZE`). The table lengths a caller passes are the
set `TableCounts`.

### The abstract locator: `AbstractLocator`, `LocatorRefinement`

`AbstractLocator` states what the spec promises of a locator over linear
byte positions:

- `extent` is the volume's length in bytes, if it has one;
- `req`, `out` and `reads` are the last request, its outcome and the byte
  ranges it read.

`ReadRecords(op, start, len, n, arg)` reads `n` records of `len` bytes back
to back, when they end within the extent, and fails with the end position
otherwise. `Unsupported` is the inode-size stop. The position a table call
returns is left open, because finding 2 is about it.

`LocatorRefinement` maps the code's state onto it. `IntoIndex` turns every
address into a position. The error payload `(sector, offset)` becomes the
position `sector * SIZE + offset`, and each cast range becomes a pair of
positions. `RNext` is `Next` restricted to representable requests (ends
that fit the u32 sector field): finding 1 shows that without it the code
does not implement the abstraction.

`FindInode` panics (`unimplemented!`) on any size other than the layout's.

## Runs

| Run | Config | Expect | Properties | What it shows |
|---|---|---|---|---|
| `locator` | `MCLocator.cfg` | pass | `TypeOK`, `RepresentableCallsMeetSpec`, `TableAllOrNothing` | Whenever the end of a request fits the u32 sector field, the bounds check decides exactly as the spec says: ok iff the request ends within the extent, and the error carries the request's end. Every range cast is one record inside the volume. A table whose end fits the u32 sector field is read in full or not at all. |
| `locator_release` | `MCLocatorRelease.cfg` | pass | `TypeOK` | Every path of the locators keeps the state well formed in a build without overflow checks and with a 7-bit usize. This includes the 11-descriptor table, whose end wraps the address space and which is read in part before an error, the 22-descriptor table, which panics in `with_capacity`, and the 43-descriptor table, whose usize byte count wraps. |
| `locator_refinement` | `MCLocatorRefinement.cfg` | pass | `ImplementsAbstract` | Under `RNext`, every locator step is a step of `AbstractLocator` under the mapping. |
| `sector_ops` | `MCSectorOps.cfg` | pass | `TypeOK`, `IndexArithmetic`, `StepsInvert` | Every operation keeps addresses normalised. Every address returned is the operation's exact linear result modulo the addressable range. On a sector-aligned address, a successful `forward_checked` or `backward_checked` is undone by the opposite step with the same count (an action property). |
| `locator_wrap` | `MCLocator_CastsInBounds.cfg` | violation | `CastsInBounds` | The end address wraps past the bounds check, and a reversed range is cast. |
| `table_partial_read` | `MCLocator_TableNoPartialRead.cfg` | violation | `TableNoPartialRead` | A table whose end wraps passes the whole-table check. The loop then casts descriptors and fails part-way. |
| `table_returns_end` | `MCLocator_TableReturnsEnd.cfg` | violation | `TableReturnsEnd` | `find_descriptor_table` returns its start address, not the end. |
| `step_saturates` | `MCSectorOps_StepSaturates.cfg` | violation | `StepSaturates` | A step of 2^32 sectors succeeds, because `count as u32` truncates it. |
| `add_i32_edge` | `MCSectorOps_I32Edge.cfg` | violation | `IndexArithmetic` | With `LOG_SIZE = OffsetBits - 1` (31 in the code), `Add` wraps the offset sum negative. |

### Findings

1. **Wrapped end address bypasses the bounds check** (`src/sector.rs:60`,
   used at `block_group.rs:63`, `:88` and `inode.rs:112`). `Address::new`
   truncates the sector with `as u32` in every build. A request that ends
   at or past sector 2^32 therefore gets a small end address. The check
   `size < end` passes, and `slice_unchecked` is called on a reversed range,
   which lies outside the volume when the volume is bounded. TLC's
   counterexamples are one call long: 4-byte sectors and a 4-bit sector
   field turn the end index 64 into (0,0). With two workers, the trace a run
   reports is whichever violating state a worker meets first. Two examples:
   - `find_inode` at (14,3) on a `Bounded((0,0))` volume casts
     (14,3)..(0,0);
   - `find_descriptor_table` at (13,3) with 3 descriptors on an `Unbounded`
     volume casts a third range, (15,1)..(0,0), that is not one
     descriptor long.

   The spec (sections 4.3 and 7) requires an overflow-safe check before
   every cast.
2. **`find_descriptor_table` returns the start** (`block_group.rs:104`). The
   loop's `offset` is a shadowing local, so the function returns the start,
   where spec section 4.3 says it returns the end.
3. **Steps do not saturate** (`sector.rs:109`, `:116`). Spec section 4.1 says
   stepping past `u32::MAX` sectors fails, but `count as u32` truncates the
   count first.
4. **`Add` at `LOG_SIZE = 31`** (`sector.rs:164`). `(a.offset + b.offset) as
   i32` turns a carry into a borrow. The spec allows LOG_SIZE up to 31. In
   the trace, with a 3-bit i32, (0,1) + (0,3) gives (7,0): sector -1
   modulo the u32 range, two sectors before the sum (1,0).
5. **A table that does not fit is read in part** (`block_group.rs:88`,
   `:100`). This is the same wrap, seen from the table. The whole-table
   check compares against an end that has become (0,0), so it passes. The
   loop casts the descriptors that fit, then `find_descriptor` fails on
   the first one past the extent, and `?` returns that error.
   - TLC's trace, in a debug build: `find_descriptor_table` at (13,3) with 3
     descriptors on `Bounded((14,2))`.
   - The first descriptor (13,3)..(14,2) is cast.
   - The second fails with `AddressOutOfBounds` at (15,1), the end of that
     descriptor rather than of the table.

   Spec section 4.3 says the table is checked once, before any record is
   materialized, and the request fails atomically. Section 9 says it
   fails as a whole.

### Bounds, and why they are enough

- **`MCLocator`.** 4-byte sectors and a 16-value sector field give 64
  addressable bytes. Descriptors are 3 bytes and inodes 5, so records straddle
  sector boundaries. Tables hold up to 3 descriptors, so they cross several
  sectors. `InodeSizeInputs = {4, 5}` covers both inode paths. Every start
  address and every extent (all of `Size`, including `Unbounded`) is
  enumerated. So every kind of boundary occurs: a request ending exactly at
  the extent, one byte past it, wrapping past the top of the sector field,
  and the u32 overflow panic. The run reaches 29,185 distinct states. It
  is a debug build with an 8-bit usize, under which no enumerated table
  overflows.
- **`MCLocatorRelease`.** The same volume in a release build with a 7-bit
  usize (`ISIZE_MAX` = 63, `USIZE` = 128). A count of 11 (33 bytes) wraps
  the 32-byte address space, so the end lands inside the volume and the
  bounds check passes. On `Unbounded` the table is returned, with reversed
  casts (finding 1). On `Bounded((10,0))`, six descriptors are cast before
  the seventh fails (finding 5). A count of 22 (66 bytes) also passes it and reaches
  `with_capacity`'s panic. A count of 43 (129 bytes) wraps usize to 1 byte.
  10,593 distinct states. The wrapped usize product is invisible to the
  bounds check: 2^UsizeBits is a multiple of the addressable range, so
  wrapping usize and then truncating the sector gives the same end as
  truncating alone. The debug-build product panic with huge counts is left
  out of the runs for time. It is covered by the type theorem, which holds
  for every `TableCounts`.
- **`MCLocatorRefinement`.** 2-byte sectors (32 addressable bytes), counts
  up to 3 and both inode sizes. Every transition re-evaluates the abstract
  next-state relation, so the instance is smaller. 6,435 distinct states.
- **`MCSectorOps`.** 4-byte sectors with a 4-bit u32 and i32. The offsets
  cover the i32 range (−8 … 7): negative ones borrow and ones ≥ SIZE carry.
  Index inputs go beyond the addressable range (64, 70), and counts reach
  the u32 width (16, 17), so every cast truncates somewhere. The run reaches
  40,001 distinct states.

The widths are scaled down, but each cast's behaviour depends only on the
ratio between the width and the values. The proofs below cover every width.

### Fairness and liveness

None is assumed or checked. The code is sequential and has no shared state,
no waiting and no retries: each call runs to completion. Deadlock checking is
off in the pass runs because a panic ends the caller, which is a legitimate
final state.

### Mutants

Each property of a passing run is broken by a plausible bug in a mapped
definition:

| Run | Property | Mutated definition | Bug |
|---|---|---|---|
| `locator` | `TypeOK` | `Split` → `SplitBadMask` | wrong offset mask |
| `locator` | `RepresentableCallsMeetSpec` | `SizeLtAddr` → `SizeLeAddr` | `<=` instead of `<` |
| `locator` | `TableAllOrNothing` | `TableElem` → `TableElemNext` | off-by-one loop index |
| `locator_release` | `TypeOK` | `Split` → `SplitBadMask` | wrong offset mask |
| `locator_refinement` | `ImplementsAbstract` | `OutOfBounds` → `OutOfBoundsNoOffset` | the error reports the end's sector but offset 0 |
| `sector_ops` | `TypeOK` | `NewUnchecked` → `NewUncheckedNoAssert` | the `assert!` is dropped |
| `sector_ops` | `StepsInvert` | `ForwardChecked` → `ForwardWrapping` | `wrapping_add` instead of `checked_add` |
| `sector_ops` | `IndexArithmetic` | `Split` → `SplitTruncSector` | truncating division instead of `>>` |

## Proofs

Five modules hold the proofs:

- `SectorProofs` holds the arithmetic lemmas about `Sector`'s operators.
- `SectorOpsProofs` holds the theorems about the `SectorOps` caller.
- `VolumeSizeProofs` holds the order laws of `Size`.
- `LocatorProofs` holds the theorems about the locators.
- `LocatorRefinementProofs` proves that the locators implement
  `AbstractLocator`.

They hold for every `LOG_SIZE`, `SectorBits` and `OffsetBits` allowed by
`SectorAssumption`. They also hold for every record size and table bound
allowed by `LocatorAssumption`, every usize width allowed by
`UsizeAssumption`, and for all input sets. TLAPS treats `^` as
opaque, so `PowerAssumption` states once that the powers of two involved are
positive and ordered. TLC evaluates every assumption on every run.

`NoOffsetWrap` is `2 * SIZE <= I32Half`, which is `LOG_SIZE <= 30` in the
code. It is the hypothesis of the theorems about index arithmetic, about
the locators' bounds checks and about the refinement. Finding 4 shows that
it is needed. The type theorems, `StepsInvertCorrect` and `SizeOrderLaws` hold without
it.

### Arithmetic lemmas (`SectorProofs`)

All of them rest on the uniqueness of Euclidean division (`ModUnique`):

- `ModShift`: adding a multiple of M does not change the remainder.
- `ModMul`: wrapping the sector modulo `U32` is invisible modulo
  `U32 * SIZE`.
- `SplitMod`: the shift-and-mask split, read back, is the index modulo the
  range.
- `SplitInto`: splitting the index of a normalised address gives the address
  back.
- `AddrLtIndex`: the derived lexicographic order of addresses is the order of
  their indices.
- `AsI32Id`: the offset sum of `Add` never wraps under `NoOffsetWrap`.
- `AddRepresentable`: `a + Address::from(len)` is normalised and has index
  `into_index(a) + len` whenever that sum is below `MaxIndex`.
- `NewAligned`: `Address::new(s, 0)` is sector `s` at offset 0.
- `StepsInverse`: on a sector-aligned address, `forward_checked` and
  `backward_checked` by the same count undo each other whenever the first
  succeeds. Both truncate the count to the same u32, and neither wraps.

### `SectorOpsProofs`

- **`TypeCorrect`: `Spec => []TypeOK`.** `TypeOK` is inductive as it stands.
  One lemma per operation shows that it yields a normalised address, a panic,
  None or a count.
- **`IndexArithmeticCorrect`: `NoOffsetWrap => (Spec => []IndexArithmetic)`.**
  - `IndexArithmetic'` depends only on the step just taken, so the
    strengthening it needs is `TypeOK`, taken from `TypeCorrect`.
  - One step per operation reduces the claim to a congruence, proved with the
    lemmas above.
  - `ForwardIndex` and `BackwardIndex` show that the `as u32` of the count is
    invisible modulo the range.
- **`StepsInvertCorrect`: `Spec => StepsInvert`.** This is an action
  property. A step of `Next` from a `TypeOK` state is either not a step
  operation, or a `DoForward`/`DoBackward` step from an address, to which
  `StepsInverse` applies. `TypeCorrect` supplies the invariant, and `PTL`
  lifts `TypeOK /\ [Next]_vars => [StepUndone]_vars` to the behaviour.

### `VolumeSizeProofs`

- **`SizeOrderLaws`.** For every extent `s`, `t`, `u` and address `a`:
  - `Unbounded` is not equal to itself and is unordered with itself;
  - `Less` and `Greater` are dual;
  - `Equal` holds exactly for equal extents;
  - `Less` is transitive;
  - comparing an extent with an address (the locators' `size < end`) is
    comparing it with `Bounded(a)`.

  `AddrCmpLaws` proves the same laws for the lexicographic order of
  addresses. `SizeCmpArms` unfolds the four arms of the `match`. This
  proof found that the model's `CASE` had overlapping arms:
  `~a.bounded /\ ~b.bounded` and `~a.bounded` both hold for two
  `Unbounded`. A TLA+ `CASE` then chooses between them, and TLC picks the
  first. The guards are now exclusive and follow the order of the Rust
  `match`. `MCLocator`'s `SizeOrderConsistency` checks the last law on its
  instance.

### `LocatorProofs`

- **`LocatorTypeCorrect`: `Spec => []TypeOK`.**
  - `LocOutcome` describes what one `Locate` can return: a panic, an error,
    or one range between normalised addresses.
  - `TableLoop` shows that the first failing index of the loop exists and
    that the ranges cast before it form a sequence. Its minimum comes from
    `WellFoundedInduction`'s well-foundedness of `<` on `Nat`.
- **`RepresentableCorrect`:
  `NoOffsetWrap => (Spec => []RepresentableCallsMeetSpec)`.**
  - The invariant depends only on the last call, so `TypeOK` is again the
    whole strengthening, taken from `LocatorTypeCorrect`.
  - `Meets` restates the invariant for an explicit call, result and casts.
  - `LocateMeets` proves `Meets` for `find_descriptor` and `find_inode`.
    `LocateSpec` computes the end address exactly (`AddRepresentable`).
    `CheckIsWithin` shows that `size < end` is "beyond the volume" on indices
    (`AddrLtIndex`). `ErrPayload` shows that the error's payload is the split
    of the end (`SplitInto`).
  - `TableMeets` proves it for `find_descriptor_table`. When the whole-table
    check passes, `ElemSpec` shows that iteration `i` casts
    `[start + i*D, start + (i+1)*D)`, which lies inside the volume. So no
    iteration fails, and the third disjunct of `FindDescriptorTable` is
    unreachable.
- **`TableAllOrNothingCorrect`:
  `NoOffsetWrap => (Spec => []TableAllOrNothing)`.** It follows from the
  same `TableMeets`.
- The lemma `SmallTable` shows that a representable table neither
  overflows nor wraps usize and passes `with_capacity`, because every
  address index fits `isize` (`UsizeAssumption`).

### `LocatorRefinementProofs`

- **`RefinementCorrect`: `NoOffsetWrap => (RSpec => A!Spec)`.**
  - The initial states map to `A!Init`.
  - `RSpec => []TypeOK` follows from `LocatorTypeCorrect`, because every
    `RNext` step is a `Next` step.
  - Every `RNext` step from a `TypeOK` state is an `A!Next` step.
    `LocateRefines` covers `find_descriptor` and `find_inode`, and
    `TableRefines` covers the table. Both rest on `LocateMeets` and
    `TableMeets`: `Meets` and `AllOrNothing` are exactly what the abstract
    read needs once positions replace addresses. `WithinBar` shows that
    the abstract `Within` is the code's check.
  - The last step combines these steps with `PTL`.

Only model-checked:

- `CastsInBounds` without the representability hypothesis, which is false
  (finding 1);
- the other violation runs;
- the unit tests of `src/sector.rs` (`ConvTests`, `ArithmeticTests` in
  `MCSectorOps`), on the code's 512- and 2048-byte sectors.

Out of the prover's reach in principle: liveness and `ENABLED`, induction
over data, and `RECURSIVE` operators. Only the last one touches this project,
through `Layout`'s `SumFunction`, so `Layout` is kept out of the proof
modules. For the same reason the proofs use `WellFoundedInduction` and never
`SequenceTheorems`, which reaches `Folds`.

## Not modelled

- Allocation failure (out of memory) of `Vec::with_capacity` or `push` on a
  table that fits `isize`. It depends on the environment, not on the code.
- `with_block_size` with `log_block_size` of 32 or more. The shift then
  drops high bits of the block, and from 64 on it panics in a debug
  build. The model's index is an unbounded integer, so `SectorOpsAssumption`
  excludes these shifts.
- The formatting impls, the bitflags, and the parts not under `src/` (see
  the table above).

## Plan for later work

1. A model in which callers chain locators through the returned address, to
   show what finding 2 does to a caller.
