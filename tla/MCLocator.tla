----------------------------- MODULE MCLocator -----------------------------
(***************************************************************************)
(* Locator on a small instance: sectors of 4 bytes, a 16-valued sector    *)
(* field (64 addressable bytes), descriptors of 3 bytes and inodes of 5,  *)
(* so that records straddle sector boundaries and a table of up to 3      *)
(* descriptors crosses several sectors.                                   *)
(***************************************************************************)
EXTENDS Locator, Layout

\* Spec section 3 on Size<S>: Unbounded is equal to nothing, itself
\* included, and unordered with itself; and comparing a Size with an
\* address (what the locators do) agrees with comparing it with the
\* Bounded extent of that address, for every extent and address.
ASSUME SizeOrderConsistency ==
  /\ ~SizeEq(Unbounded, Unbounded)
  /\ SizePartialCmp(Unbounded, Unbounded) = "Unordered"
  /\ \A s \in Size, a \in Address :
       /\ SizeCmpAddr(s, a) = SizePartialCmp(s, Bounded(a))
       /\ SizeEqAddr(s, a) = SizeEq(s, Bounded(a))
       /\ SizeEq(s, Bounded(a)) <=> SizePartialCmp(s, Bounded(a)) = "Equal"
       /\ TryLen(s) = IF IsBounded(s) THEN s.len ELSE None

=============================================================================
