------------------------------ MODULE SectorOps ------------------------------
(***************************************************************************)
(* A caller of the Address<S> API of src/sector.rs: it holds one address *)
(* `addr` and applies the public operations to it, one call per step.    *)
(* Constructors overwrite `addr`; Add, Sub and the Step operations take   *)
(* `addr` as their left operand.  `call` records the operation and its    *)
(* inputs, `result` what it returned.  A panic ends the caller.           *)
(***************************************************************************)
EXTENDS Sector

CONSTANTS
  OffsetInputs,   \* i32 offsets passed to new and with_block_size
  LogBlockSizes,  \* log_block_size arguments of with_block_size
  IndexInputs,    \* u64/usize indices passed to From
  CountInputs     \* usize counts passed to forward_checked/backward_checked

ASSUME SectorOpsAssumption ==
  /\ OffsetInputs \subseteq I32
  /\ LogBlockSizes \subseteq Nat
  /\ \A l \in LogBlockSizes : 2^l \in Nat \ {0}
  \* The i64 index of with_block_size, 32 + 32 bits in the code and
  \* SectorBits + OffsetBits here, holds block << l + offset for every u32
  \* block only when l < OffsetBits (l <= 31 in the code); a larger shift
  \* drops high bits of the block, which the model does not represent.
  /\ \A l \in LogBlockSizes : l < OffsetBits
  /\ IndexInputs \subseteq Nat
  /\ CountInputs \subseteq Nat

VARIABLES
  addr,    \* the caller's address
  call,    \* the last operation, its inputs and the address it started from
  result   \* what the last operation returned

vars == <<addr, call, result>>

\* The value an operation hands back becomes the caller's address when it
\* is one; None and a count leave `addr` as it was.
Keep(r) == IF r \in Address THEN r ELSE addr

Alive == result # Panic

\* Address::new_unchecked(sector, offset).
DoNewUnchecked(s, o) ==
  /\ Alive
  /\ call' = [op |-> "new_unchecked", from |-> addr, x |-> s, y |-> o]
  /\ result' = NewUnchecked(s, o)
  /\ addr' = Keep(result')

\* Address::new(sector, offset).
DoNew(s, o) ==
  /\ Alive
  /\ call' = [op |-> "new", from |-> addr, x |-> s, y |-> o]
  /\ result' = New(s, o)
  /\ addr' = result'

\* Address::with_block_size(block, offset, log_block_size).
DoWithBlockSize(b, o, l) ==
  /\ Alive
  /\ call' = [op |-> "with_block_size", from |-> addr, x |-> b, y |-> o, z |-> l]
  /\ result' = WithBlockSize(b, o, l)
  /\ addr' = result'

\* Address::from(idx) for idx: u64 or usize.
DoFrom(i) ==
  /\ Alive
  /\ call' = [op |-> "from", from |-> addr, x |-> i]
  /\ result' = FromIndex(i)
  /\ addr' = result'

\* addr + b.
DoAdd(b) ==
  /\ Alive
  /\ call' = [op |-> "add", from |-> addr, x |-> b]
  /\ result' = AddAddr(addr, b)
  /\ addr' = Keep(result')

\* addr - b.
DoSub(b) ==
  /\ Alive
  /\ call' = [op |-> "sub", from |-> addr, x |-> b]
  /\ result' = SubAddr(addr, b)
  /\ addr' = Keep(result')

\* Step::forward_checked(addr, n).
DoForward(n) ==
  /\ Alive
  /\ call' = [op |-> "forward", from |-> addr, x |-> n]
  /\ result' = ForwardChecked(addr, n)
  /\ addr' = Keep(result')

\* Step::backward_checked(addr, n).
DoBackward(n) ==
  /\ Alive
  /\ call' = [op |-> "backward", from |-> addr, x |-> n]
  /\ result' = BackwardChecked(addr, n)
  /\ addr' = Keep(result')

\* Step::steps_between(addr, b).
DoStepsBetween(b) ==
  /\ Alive
  /\ call' = [op |-> "steps_between", from |-> addr, x |-> b]
  /\ result' = StepsBetween(addr, b)
  /\ addr' = addr

\* Address::default().
Init ==
  /\ addr = [sector |-> 0, offset |-> 0]
  /\ call = [op |-> "none", from |-> addr]
  /\ result = addr

Next ==
  \/ \E s \in 0 .. U32 - 1, o \in 0 .. SIZE : DoNewUnchecked(s, o)
  \/ \E s \in 0 .. U32 - 1, o \in OffsetInputs : DoNew(s, o)
  \/ \E b \in 0 .. U32 - 1, o \in OffsetInputs, l \in LogBlockSizes :
       DoWithBlockSize(b, o, l)
  \/ \E i \in IndexInputs : DoFrom(i)
  \/ \E b \in Address : DoAdd(b) \/ DoSub(b) \/ DoStepsBetween(b)
  \/ \E n \in CountInputs : DoForward(n) \/ DoBackward(n)

Spec == Init /\ [][Next]_vars

(***************************************************************************)
(* Properties.                                                             *)
(***************************************************************************)

\* The caller's address is always normalised (offset < SIZE), whatever
\* signed or oversized offsets it passed (spec section 8, first property).
TypeOK ==
  /\ addr \in Address
  /\ result \in Address \cup {Panic, None} \cup [steps : Nat]

\* The linear index an operation means, in exact integer arithmetic.
Reference(c) ==
  CASE c.op \in {"new", "new_unchecked"} -> c.x * SIZE + c.y
    [] c.op = "with_block_size" -> c.x * 2^c.z + c.y
    [] c.op = "from" -> c.x
    [] c.op = "add" -> IntoIndex(c.from) + IntoIndex(c.x)
    [] c.op = "sub" -> IntoIndex(c.from) - IntoIndex(c.x)
    [] c.op = "forward" -> (c.from.sector + c.x) * SIZE
    [] c.op = "backward" -> (c.from.sector - c.x) * SIZE
    [] OTHER -> IntoIndex(c.from)

\* Every address an operation returns is the exact linear result reduced
\* modulo the addressable range: carries and borrows across sectors,
\* negative offsets and the component-wise Add/Sub all agree with linear
\* index arithmetic, and the only loss is the wrap of the u32 sector.
IndexArithmetic ==
  result \in Address => IntoIndex(result) = Reference(call) % MaxIndex

\* Spec section 4.1: stepping forward past u32::MAX sectors or backward
\* past sector 0 fails instead of wrapping around.
StepSaturates ==
  /\ call.op = "forward" =>
       (result = None <=> call.from.sector + call.x >= U32)
  /\ call.op = "backward" =>
       (result = None <=> call.from.sector < call.x)

\* Spec section 4.1: Step is used to iterate sector-aligned ranges.  On
\* a sector-aligned address, a forward_checked or backward_checked call
\* that succeeds is undone by the opposite call with the same count (the
\* law core::iter::Step asks of forward_checked and backward_checked),
\* truncating `count as u32` included.  A checked add or sub that wraps
\* instead of failing would break it.
StepUndone ==
  /\ addr.offset = 0
  /\ call'.op \in {"forward", "backward"}
  /\ result' \in Address
  => IF call'.op = "forward"
     THEN BackwardChecked(result', call'.x) = addr
     ELSE ForwardChecked(result', call'.x) = addr

StepsInvert == [][StepUndone]_vars

=============================================================================
