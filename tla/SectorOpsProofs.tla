--------------------------- MODULE SectorOpsProofs ---------------------------
(***************************************************************************)
(* Theorems about the caller of the Address<S> API (SectorOps): type      *)
(* correctness and agreement with linear index arithmetic, for every      *)
(* sector size, every width of the u32 and i32 types and every input set. *)
(* The lemmas they rest on are in SectorProofs.                           *)
(***************************************************************************)
EXTENDS SectorOps, SectorProofs

\* Address::with_block_size normalises its result.
LEMMA WithBlockSizeType ==
  ASSUME NEW x \in Int, NEW y \in Int, NEW l \in LogBlockSizes
  PROVE  WithBlockSize(x, y, l) \in Address
<1>1. x * 2^l + y \in Int
  BY SectorOpsAssumption, SMT
<1>. QED BY <1>1, SplitType DEF WithBlockSize

\* The caller's address is always normalised, and every operation returns
\* a normalised address, a panic, None or a count (spec section 8): the
\* shift-and-mask of Address::new normalises every offset it is given.
THEOREM TypeCorrect == Spec => []TypeOK
<1>1. Init => TypeOK
  BY Powers, SMT DEF Init, TypeOK, Address
<1>2. TypeOK /\ [Next]_vars => TypeOK'
  <2>. SUFFICES ASSUME TypeOK, [Next]_vars PROVE TypeOK'
    OBVIOUS
  <2>1. \A r \in Address \cup {Panic, None} \cup [steps : Nat] :
          Keep(r) \in Address
    BY DEF Keep, TypeOK
  <2>2. ASSUME NEW s \in 0 .. U32 - 1, NEW o \in 0 .. SIZE, DoNewUnchecked(s, o)
        PROVE  TypeOK'
    <3>1. result' \in Address \cup {Panic}
      BY <2>2, NewUncheckedType DEF DoNewUnchecked
    <3>. QED BY <2>1, <2>2, <3>1 DEF DoNewUnchecked, TypeOK
  <2>3. ASSUME NEW s \in 0 .. U32 - 1, NEW o \in OffsetInputs, DoNew(s, o)
        PROVE  TypeOK'
    <3>1. s \in Int /\ o \in Int
      BY SectorOpsAssumption, Powers, SMT DEF I32
    <3>2. result' \in Address
      BY <2>3, <3>1, NewType DEF DoNew
    <3>. QED BY <2>3, <3>2 DEF DoNew, TypeOK
  <2>4. ASSUME NEW b \in 0 .. U32 - 1, NEW o \in OffsetInputs,
               NEW l \in LogBlockSizes, DoWithBlockSize(b, o, l)
        PROVE  TypeOK'
    <3>1. b \in Int /\ o \in Int
      BY SectorOpsAssumption, Powers, SMT DEF I32
    <3>2. result' \in Address
      BY <2>4, <3>1, WithBlockSizeType DEF DoWithBlockSize
    <3>. QED BY <2>4, <3>2 DEF DoWithBlockSize, TypeOK
  <2>5. ASSUME NEW i \in IndexInputs, DoFrom(i)
        PROVE  TypeOK'
    <3>1. i \in Int
      BY SectorOpsAssumption
    <3>2. result' \in Address
      BY <2>5, <3>1, FromIndexType DEF DoFrom
    <3>. QED BY <2>5, <3>2 DEF DoFrom, TypeOK
  <2>6. ASSUME NEW b \in Address, DoAdd(b) \/ DoSub(b) \/ DoStepsBetween(b)
        PROVE  TypeOK'
    <3>1. addr \in Address
      BY DEF TypeOK
    <3>2. result' \in Address \cup {Panic, None} \cup [steps : Nat]
      <4>1. AddAddr(addr, b) \in Address \cup {Panic}
            /\ SubAddr(addr, b) \in Address \cup {Panic}
            /\ StepsBetween(addr, b) \in [steps : Nat] \cup {None}
        BY <3>1, BinaryTypes
      <4>. QED BY <2>6, <4>1 DEF DoAdd, DoSub, DoStepsBetween
    <3>3. addr' \in Address
      BY <2>1, <2>6, <3>1, <3>2 DEF DoAdd, DoSub, DoStepsBetween
    <3>. QED BY <3>2, <3>3 DEF TypeOK
  <2>7. ASSUME NEW n \in CountInputs, DoForward(n) \/ DoBackward(n)
        PROVE  TypeOK'
    <3>1. addr \in Address /\ n \in Nat
      BY SectorOpsAssumption DEF TypeOK
    <3>2. result' \in Address \cup {None}
      BY <2>7, <3>1, BinaryTypes DEF DoForward, DoBackward
    <3>3. addr' = Keep(result')
      BY <2>7 DEF DoForward, DoBackward
    <3>. QED BY <2>1, <3>2, <3>3 DEF TypeOK
  <2>8. CASE UNCHANGED vars
    BY <2>8 DEF vars, TypeOK
  <2>. QED BY <2>2, <2>3, <2>4, <2>5, <2>6, <2>7, <2>8 DEF Next
<1>. QED BY <1>1, <1>2, PTL DEF Spec

\* Every address an operation returns is the exact linear result of the
\* operation modulo the addressable range (the IndexArithmetic invariant of
\* run sector_ops), for every sector size whose offsets add up without
\* wrapping the i32 cast of Add: the shift-and-mask of Address::new, the
\* wrap of the u32 sector and the component-wise Add and Sub all agree
\* with linear index arithmetic.  The argument is one step per operation
\* through the congruence lemmas above; TypeOK supplies the ranges.
THEOREM IndexArithmeticCorrect ==
  ASSUME NoOffsetWrap
  PROVE  Spec => []IndexArithmetic
<1>1. Init => IndexArithmetic
  <2>. SUFFICES ASSUME Init PROVE IndexArithmetic
    OBVIOUS
  <2>1. Reference(call) = 0 /\ IntoIndex(result) = 0
    BY Powers, SMT DEF Init, Reference, IntoIndex
  <2>2. 0 % MaxIndex = 0
    BY Powers, ModIdem
  <2>. QED BY <2>1, <2>2 DEF IndexArithmetic
<1>2. TypeOK /\ IndexArithmetic /\ [Next]_vars => IndexArithmetic'
  <2>. SUFFICES ASSUME TypeOK, IndexArithmetic, [Next]_vars
               PROVE  IndexArithmetic'
    OBVIOUS
  <2>0. addr \in Address
    BY DEF TypeOK
  <2>1. ASSUME NEW s \in 0 .. U32 - 1, NEW o \in 0 .. SIZE, DoNewUnchecked(s, o)
        PROVE  IndexArithmetic'
    <3>1. Reference(call') = s * SIZE + o
      BY <2>1 DEF DoNewUnchecked, Reference
    <3>. QED BY <2>1, <3>1, NewUncheckedIndex DEF DoNewUnchecked, IndexArithmetic
  <2>2. ASSUME NEW s \in 0 .. U32 - 1, NEW o \in OffsetInputs, DoNew(s, o)
        PROVE  IndexArithmetic'
    <3>1. s \in Int /\ o \in Int
      BY SectorOpsAssumption, Powers, SMT DEF I32
    <3>2. Reference(call') = s * SIZE + o
      BY <2>2 DEF DoNew, Reference
    <3>. QED BY <2>2, <3>1, <3>2, NewIndex DEF DoNew, IndexArithmetic
  <2>3. ASSUME NEW b \in 0 .. U32 - 1, NEW o \in OffsetInputs,
               NEW l \in LogBlockSizes, DoWithBlockSize(b, o, l)
        PROVE  IndexArithmetic'
    <3>1. b * 2^l + o \in Int
      BY SectorOpsAssumption, Powers, SMT DEF I32
    <3>2. Reference(call') = b * 2^l + o
      BY <2>3 DEF DoWithBlockSize, Reference
    <3>. QED BY <2>3, <3>1, <3>2, SplitIndex
         DEF DoWithBlockSize, WithBlockSize, IndexArithmetic
  <2>4. ASSUME NEW i \in IndexInputs, DoFrom(i)
        PROVE  IndexArithmetic'
    <3>1. i \in Int
      BY SectorOpsAssumption
    <3>2. Reference(call') = i
      BY <2>4 DEF DoFrom, Reference
    <3>. QED BY <2>4, <3>1, <3>2, FromIndexIndex DEF DoFrom, IndexArithmetic
  <2>5. ASSUME NEW b \in Address, DoAdd(b)
        PROVE  IndexArithmetic'
    <3>1. Reference(call') = IntoIndex(addr) + IntoIndex(b)
      BY <2>5 DEF DoAdd, Reference
    <3>. QED BY <2>0, <2>5, <3>1, AddIndex DEF DoAdd, IndexArithmetic
  <2>6. ASSUME NEW b \in Address, DoSub(b)
        PROVE  IndexArithmetic'
    <3>1. Reference(call') = IntoIndex(addr) - IntoIndex(b)
      BY <2>6 DEF DoSub, Reference
    <3>. QED BY <2>0, <2>6, <3>1, SubIndex DEF DoSub, IndexArithmetic
  <2>7. ASSUME NEW b \in Address, DoStepsBetween(b)
        PROVE  IndexArithmetic'
    <3>1. result' \notin Address
      <4>1. addr.sector \in Nat /\ b.sector \in Nat
        BY <2>0 DEF Address
      <4>2. b.sector >= addr.sector => b.sector - addr.sector \in Nat
        BY <4>1, SMT
      <4>. QED BY <2>7, <4>2, NotAddress DEF DoStepsBetween, StepsBetween
    <3>. QED BY <3>1 DEF IndexArithmetic
  <2>8. ASSUME NEW n \in CountInputs, DoForward(n)
        PROVE  IndexArithmetic'
    <3>1. n \in Nat
      BY SectorOpsAssumption
    <3>2. Reference(call') = (addr.sector + n) * SIZE
      BY <2>8 DEF DoForward, Reference
    <3>. QED BY <2>0, <2>8, <3>1, <3>2, ForwardIndex DEF DoForward, IndexArithmetic
  <2>9. ASSUME NEW n \in CountInputs, DoBackward(n)
        PROVE  IndexArithmetic'
    <3>1. n \in Nat
      BY SectorOpsAssumption
    <3>2. Reference(call') = (addr.sector - n) * SIZE
      BY <2>9 DEF DoBackward, Reference
    <3>. QED BY <2>0, <2>9, <3>1, <3>2, BackwardIndex DEF DoBackward, IndexArithmetic
  <2>10. CASE UNCHANGED vars
    BY <2>10 DEF vars, IndexArithmetic
  <2>. QED BY <2>1, <2>2, <2>3, <2>4, <2>5, <2>6, <2>7, <2>8, <2>9, <2>10
       DEF Next
<1>. QED BY <1>1, <1>2, TypeCorrect, PTL DEF Spec


\* On a sector-aligned address, every forward_checked or backward_checked
\* call that succeeds is undone by the opposite call with the same count
\* (the StepsInvert action property of run sector_ops), for every sector
\* size and u32 width: core::iter::Step's law for the two checked steps
\* holds on the sector-aligned ranges the spec iterates.  Only the type
\* invariant is needed, for the address the step starts from.
THEOREM StepsInvertCorrect == Spec => StepsInvert
<1>1. TypeOK /\ [Next]_vars => [StepUndone]_vars
  <2>. SUFFICES ASSUME TypeOK, Next PROVE StepUndone
    BY DEF vars
  <2>1. SUFFICES ASSUME addr.offset = 0,
                        call'.op \in {"forward", "backward"},
                        result' \in Address
                 PROVE  IF call'.op = "forward"
                        THEN BackwardChecked(result', call'.x) = addr
                        ELSE ForwardChecked(result', call'.x) = addr
    BY DEF StepUndone
  <2>2. ASSUME NEW n \in CountInputs, DoForward(n)
        PROVE  BackwardChecked(result', call'.x) = addr
    <3>1. addr \in Address /\ n \in Nat
      BY SectorOpsAssumption DEF TypeOK
    <3>2. result' = ForwardChecked(addr, n) /\ call'.x = n
      BY <2>2 DEF DoForward
    <3>. QED BY <2>1, <3>1, <3>2, StepsInverse
  <2>3. ASSUME NEW n \in CountInputs, DoBackward(n)
        PROVE  ForwardChecked(result', call'.x) = addr
    <3>1. addr \in Address /\ n \in Nat
      BY SectorOpsAssumption DEF TypeOK
    <3>2. result' = BackwardChecked(addr, n) /\ call'.x = n
      BY <2>3 DEF DoBackward
    <3>. QED BY <2>1, <3>1, <3>2, StepsInverse
  <2>4. ASSUME \/ \E s \in 0 .. U32 - 1, o \in 0 .. SIZE : DoNewUnchecked(s, o)
               \/ \E s \in 0 .. U32 - 1, o \in OffsetInputs : DoNew(s, o)
               \/ \E b \in 0 .. U32 - 1, o \in OffsetInputs, l \in LogBlockSizes :
                    DoWithBlockSize(b, o, l)
               \/ \E i \in IndexInputs : DoFrom(i)
               \/ \E b \in Address : DoAdd(b) \/ DoSub(b) \/ DoStepsBetween(b)
        PROVE  FALSE
    BY <2>1, <2>4 DEF DoNewUnchecked, DoNew, DoWithBlockSize, DoFrom, DoAdd,
                      DoSub, DoStepsBetween
  <2>5. call'.op = "forward" => \E n \in CountInputs : DoForward(n)
    BY <2>1, <2>4 DEF Next, DoBackward
  <2>6. call'.op = "backward" => \E n \in CountInputs : DoBackward(n)
    BY <2>1, <2>4 DEF Next, DoForward
  <2>7. CASE call'.op = "forward"
    <3>1. PICK n \in CountInputs : DoForward(n)
      BY <2>5, <2>7
    <3>. QED BY <2>7, <3>1, <2>2
  <2>8. CASE call'.op = "backward"
    <3>1. PICK n \in CountInputs : DoBackward(n)
      BY <2>6, <2>8
    <3>. QED BY <2>8, <3>1, <2>3
  <2>. QED BY <2>1, <2>7, <2>8
<1>. QED BY <1>1, TypeCorrect, PTL DEF Spec, StepsInvert
=============================================================================
