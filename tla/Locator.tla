------------------------------ MODULE Locator ------------------------------
(***************************************************************************)
(* The bounds-checked record locators of src/sys/block_group.rs and       *)
(* src/sys/inode.rs, called one after another on one volume.              *)
(*                                                                         *)
(* Record contents are abstracted away: a record is the byte range        *)
(* [from, to) that slice_unchecked hands to dynamic_cast.  `casts` is the *)
(* sequence of those ranges in the order the last call cast them, so a    *)
(* property can say which bytes a call read, including the reads of a     *)
(* table call whose result is then dropped by `?`.                        *)
(***************************************************************************)
EXTENDS VolumeSize, Sequences

CONSTANTS
  DescriptorSize,   \* mem::size_of::<BlockGroupDescriptor>() (32 in the code)
  InodeSize,        \* mem::size_of::<Inode>() (128 in the code)
  TableCounts,      \* the table lengths a caller asks for
  InodeSizeInputs,  \* the `size` arguments a caller passes to find_inode
  UsizeBits         \* width of usize (64 on the targets of the code)

ASSUME LocatorAssumption ==
  /\ DescriptorSize \in Nat \ {0}
  /\ InodeSize \in Nat \ {0}
  /\ TableCounts \subseteq Nat
  /\ InodeSizeInputs \subseteq Nat
  /\ UsizeBits \in Nat \ {0}

\* Number of values of usize, and isize::MAX.
USIZE == 2^UsizeBits
ISIZE_MAX == 2^(UsizeBits - 1) - 1

\* usize is wider than an Address index (64 > 32 + LOG_SIZE in the code):
\* every index fits isize.  Stated on the powers, which the provers take
\* as opaque; TLC checks it on every run.
ASSUME UsizeAssumption ==
  /\ USIZE \in Nat \ {0}
  /\ ISIZE_MAX \in Nat
  /\ ISIZE_MAX < USIZE
  /\ MaxIndex <= ISIZE_MAX + 1

VARIABLES
  vol,     \* haystack.size(): the extent of the volume
  call,    \* the operation and arguments of the last call
  result,  \* what the last call returned
  casts    \* the byte ranges the last call cast into records, in order

vars == <<vol, call, result, casts>>

\* A byte range [from, to) of the volume.
ByteRange(from, to) == [from |-> from, to |-> to]

\* The outcomes of a call.
NoResult == [kind |-> "none"]
PanicResult == [kind |-> "panic"]
OkResult(recs, addr) == [kind |-> "ok", recs |-> recs, addr |-> addr]

\* Mutant of OutOfBounds: the error built with the end's sector only, as
\* if `offset: end.offset()` were written `offset: 0`.
OutOfBoundsNoOffset(end) ==
  [kind |-> "err", sector |-> end.sector, offset |-> 0, size |-> SIZE]

\* Error::AddressOutOfBounds built from the computed end address.
OutOfBounds(end) ==
  [kind |-> "err", sector |-> end.sector, offset |-> end.offset, size |-> SIZE]

\* The volume's zero-copy cast (the volume is not under src/: modelled from
\* the spec).  It yields the record read from [from, to) and the end address.
DynamicCast(from, to) == [rec |-> ByteRange(from, to), addr |-> to]

\* The shared protocol of find_descriptor and find_inode: the end address
\* from Add, the bounds check `haystack.size() < end`, the cast.
Locate(start, len) ==
  LET end == AddAddr(start, FromIndex(len)) IN
  IF end = Panic THEN PanicResult
  ELSE IF SizeLtAddr(vol, end) THEN OutOfBounds(end)
  ELSE LET c == DynamicCast(start, end)
       IN  OkResult(<<c.rec>>, c.addr)

\* The ranges a Locate outcome has cast.
CastsOf(r) == IF r.kind = "ok" THEN r.recs ELSE <<>>

\* BlockGroupDescriptor::find_descriptor.
FindDescriptor(start) ==
  /\ result.kind # "panic"
  /\ call' = [op |-> "descriptor", start |-> start, arg |-> DescriptorSize]
  /\ result' = Locate(start, DescriptorSize)
  /\ casts' = CastsOf(result')
  /\ UNCHANGED vol

\* Mutant of TableElem: the loop index off by one, i + 1 for i.
TableElemNext(start, i) ==
  LET at == AddAddr(start, FromIndex((i + 1) * DescriptorSize)) IN
  IF at = Panic THEN PanicResult ELSE Locate(at, DescriptorSize)

\* The i-th iteration of the loop of find_descriptor_table: the start of
\* the i-th descriptor, then find_descriptor at it.
TableElem(start, i) ==
  LET at == AddAddr(start, FromIndex(i * DescriptorSize)) IN
  IF at = Panic THEN PanicResult ELSE Locate(at, DescriptorSize)

\* `count * mem::size_of::<BlockGroupDescriptor>()`: the usize product
\* panics on overflow in a build with overflow checks, and wraps without.
MulOverflows(count) == OverflowChecks /\ count * DescriptorSize >= USIZE
TableBytes(count) == (count * DescriptorSize) % USIZE

\* `Vec::with_capacity(count)` panics with "capacity overflow" when the
\* table takes more than isize::MAX bytes.
CapacityOverflow(count) == count * DescriptorSize > ISIZE_MAX

\* BlockGroupDescriptor::find_descriptor_table: the byte length of the
\* table, one bounds check for the whole table, the vector, then the
\* loop, left by `?` at the first failing iteration.  The address
\* returned is the `offset` argument (the loop's `offset` is a shadowing
\* local).
FindDescriptorTable(start, count) ==
  LET end   == AddAddr(start, FromIndex(TableBytes(count)))
      checked == ~MulOverflows(count) /\ end # Panic /\ ~SizeLtAddr(vol, end)
      alloc == checked /\ ~CapacityOverflow(count)
      elem  == [i \in 0 .. count - 1 |-> TableElem(start, i)]
      fails == {i \in 0 .. count - 1 : elem[i].kind # "ok"}
      first == CHOOSE i \in fails : \A j \in fails : i <= j
      done  == [k \in 1 .. count |-> elem[k - 1].recs[1]]
  IN
  /\ result.kind # "panic"
  /\ call' = [op |-> "table", start |-> start, arg |-> count]
  /\ \/ /\ MulOverflows(count) \/ end = Panic
        /\ result' = PanicResult
        /\ casts' = <<>>
     \/ /\ ~MulOverflows(count)
        /\ end # Panic
        /\ SizeLtAddr(vol, end)
        /\ result' = OutOfBounds(end)
        /\ casts' = <<>>
     \/ /\ checked
        /\ CapacityOverflow(count)
        /\ result' = PanicResult
        /\ casts' = <<>>
     \/ /\ alloc
        /\ fails # {}
        /\ result' = elem[first]
        /\ casts' = [k \in 1 .. first |-> elem[k - 1].recs[1]]
     \/ /\ alloc
        /\ fails = {}
        /\ result' = OkResult(done, start)
        /\ casts' = done
  /\ UNCHANGED vol

\* Inode::find_inode: any size other than the Inode layout's hits
\* unimplemented!(), a panic.
FindInode(start, size) ==
  /\ result.kind # "panic"
  /\ call' = [op |-> "inode", start |-> start, arg |-> size]
  /\ result' = IF size # InodeSize THEN PanicResult ELSE Locate(start, size)
  /\ casts' = CastsOf(result')
  /\ UNCHANGED vol

Init ==
  /\ vol \in Size
  /\ call = [op |-> "none"]
  /\ result = NoResult
  /\ casts = <<>>

Next ==
  \E start \in Address :
    \/ FindDescriptor(start)
    \/ \E count \in TableCounts : FindDescriptorTable(start, count)
    \/ \E size \in InodeSizeInputs : FindInode(start, size)

Spec == Init /\ [][Next]_vars

(***************************************************************************)
(* Properties.                                                             *)
(***************************************************************************)

RangeType == [from : Address, to : Address]

CallType ==
  {[op |-> "none"]} \cup
  [op : {"descriptor", "table", "inode"}, start : Address, arg : Nat]

ResultType ==
  {NoResult, PanicResult}
  \cup [kind : {"ok"}, recs : Seq(RangeType), addr : Address]
  \cup [kind : {"err"}, sector : 0 .. U32 - 1, offset : 0 .. SIZE - 1,
        size : {SIZE}]

\* Every variable holds a value of its type; in particular every address a
\* locator computes or returns is normalised (offset < SIZE).
TypeOK ==
  /\ vol \in Size
  /\ call \in CallType
  /\ result \in ResultType
  /\ casts \in Seq(RangeType)

\* The bytes one record of the last call occupies, and the bytes the whole
\* request covers (the whole table for find_descriptor_table).
RecordLen(c) == IF c.op = "inode" THEN c.arg ELSE DescriptorSize
RequestLen(c) == IF c.op = "table" THEN c.arg * DescriptorSize ELSE c.arg

\* Linear index of the end of the request, computed without wrap-around.
RequestEnd(c) == IntoIndex(c.start) + RequestLen(c)

\* The end of the last request is an address the u32 sector can hold.
Representable == call.op # "none" /\ RequestEnd(call) < MaxIndex

\* A linear end index lies within the volume's extent.
WithinVolume(i) == ~vol.bounded \/ i <= IntoIndex(vol.len)

\* A cast range is exactly one record long and ends inside the volume.
CastInBounds(r) ==
  /\ IntoIndex(r.from) + RecordLen(call) = IntoIndex(r.to)
  /\ WithinVolume(IntoIndex(r.to))

\* The guarantee of the locators (spec sections 4.3 and 7): no call ever
\* casts a byte range that is not one record long or that leaves the
\* volume, whatever start address the caller passes.
CastsInBounds == \A k \in 1 .. Len(casts) : CastInBounds(casts[k])

\* For a request whose end is representable, the bounds check of the
\* locators decides as the spec says: the call succeeds iff the request
\* ends within the volume, an AddressOutOfBounds error carries the end of
\* the whole request split into sector and offset, and every cast range is
\* a record inside the volume.  (The inode size check is its own path.)
RepresentableCallsMeetSpec ==
  Representable /\ ~(call.op = "inode" /\ call.arg # InodeSize) =>
    /\ result.kind \in {"ok", "err"}
    /\ (result.kind = "ok") <=> WithinVolume(RequestEnd(call))
    /\ result.kind = "err" =>
         [sector |-> result.sector, offset |-> result.offset]
           = Split(RequestEnd(call))
    /\ CastsInBounds

\* find_descriptor_table is all or nothing: for a representable table it
\* either returns exactly `count` descriptors read back to back from the
\* start, in ascending order, or it returns an error having cast nothing.
TableAllOrNothing ==
  call.op = "table" /\ Representable =>
    /\ result.kind = "ok" =>
         /\ Len(result.recs) = call.arg
         /\ \A k \in 1 .. call.arg :
              IntoIndex(result.recs[k].from)
                = IntoIndex(call.start) + (k - 1) * DescriptorSize
         /\ casts = result.recs
    /\ result.kind # "ok" => casts = <<>>

\* Table atomicity as spec section 4.3 and section 9 state it, for every
\* table the caller can ask for: find_descriptor_table either returns the
\* table or fails as a whole, having cast no descriptor.  A failure after
\* the loop of src/sys/block_group.rs has cast some descriptors is a
\* partial read of the table.
TableNoPartialRead ==
  call.op = "table" /\ result.kind # "ok" => casts = <<>>

\* Spec section 4.3 step 4: a locator returns, with what it read, the
\* address where the next record begins, so that a caller can continue
\* after a descriptor table.
TableReturnsEnd ==
  call.op = "table" /\ result.kind = "ok" =>
    result.addr = Split(RequestEnd(call))

=============================================================================
