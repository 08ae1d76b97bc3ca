----------------------------- MODULE VolumeSize -----------------------------
(***************************************************************************)
(* Size<S> of src/volume/size.rs: the extent of a volume, Unbounded or    *)
(* Bounded(Address<S>), and the comparisons the locators use.  An         *)
(* Option<Ordering> is one of the strings "Less", "Equal", "Greater" or   *)
(* "Unordered" (None).                                                     *)
(***************************************************************************)
EXTENDS Sector

\* The two variants of the enum.
Unbounded == [bounded |-> FALSE]
Bounded(a) == [bounded |-> TRUE, len |-> a]

\* All extents a volume can report.
Size == {Unbounded} \cup {Bounded(a) : a \in Address}

\* Size::try_len and Size::is_bounded.
TryLen(size) == IF size.bounded THEN size.len ELSE None
IsBounded(size) == size.bounded

\* The derived Ord of Address: lexicographic on (sector, offset).
AddrCmp(a, b) ==
  IF AddrLt(a, b) THEN "Less" ELSE IF a = b THEN "Equal" ELSE "Greater"

\* PartialEq for Size: Unbounded equals nothing, not even Unbounded.
SizeEq(a, b) == a.bounded /\ b.bounded /\ a.len = b.len

\* PartialEq<Address<S>> for Size.
SizeEqAddr(size, addr) == size.bounded /\ size.len = addr

\* PartialOrd for Size: two Unbounded are unordered, Unbounded is greater
\* than any Bounded.  The match tries its arms in order; the guards below
\* are that order made explicit, so that exactly one arm applies.
SizePartialCmp(a, b) ==
  CASE ~a.bounded /\ ~b.bounded -> "Unordered"
    [] ~a.bounded /\ b.bounded  -> "Greater"
    [] a.bounded /\ ~b.bounded  -> "Less"
    [] a.bounded /\ b.bounded   -> AddrCmp(a.len, b.len)

\* PartialOrd<Address<S>> for Size: Unbounded compares Greater, Bounded(n)
\* compares as n.partial_cmp(addr).
SizeCmpAddr(size, addr) ==
  IF size.bounded THEN AddrCmp(size.len, addr) ELSE "Greater"

\* Mutant of SizeLtAddr: the check written `size <= end`, rejecting a
\* record that ends exactly at the end of the volume.
SizeLeAddr(size, addr) == SizeCmpAddr(size, addr) \in {"Less", "Equal"}

\* `size < addr`: PartialOrd::lt is partial_cmp(..) == Some(Less).
SizeLtAddr(size, addr) == SizeCmpAddr(size, addr) = "Less"

=============================================================================
