-------------------------- MODULE LocatorRefinement --------------------------
(***************************************************************************)
(* Locator implements AbstractLocator for every caller that passes a      *)
(* start and a length whose end the u32 sector field can hold.  The       *)
(* restriction is on the caller's inputs, not on what the code does:      *)
(* MCLocator_CastsInBounds shows what the code does without it.           *)
(*                                                                         *)
(* The refinement mapping reads every address as its linear index.        *)
(***************************************************************************)
EXTENDS Locator

\* The calls of a caller that keeps its requests representable.
RNext == Next /\ Representable'

RSpec == Init /\ [][RNext]_vars

\* The volume's extent, in bytes.
ExtentBar ==
  IF vol.bounded THEN [bounded |-> TRUE, len |-> IntoIndex(vol.len)] ELSE vol

\* The last request, with the start as a position.
ReqBar ==
  IF call.op = "none" THEN call
  ELSE [op |-> call.op, start |-> IntoIndex(call.start), arg |-> call.arg]

\* The outcome: the returned address, or the (sector, offset) payload of
\* AddressOutOfBounds, as a position.
OutBar ==
  CASE result.kind = "ok"  -> [kind |-> "ok", addr |-> IntoIndex(result.addr)]
    [] result.kind = "err" -> [kind |-> "err",
                               end |-> result.sector * SIZE + result.offset]
    [] OTHER               -> [kind |-> result.kind]

\* The ranges cast, as pairs of positions.
ReadsBar ==
  [k \in 1 .. Len(casts) |->
     [from |-> IntoIndex(casts[k].from), to |-> IntoIndex(casts[k].to)]]

A == INSTANCE AbstractLocator
       WITH Positions <- 0 .. MaxIndex - 1,
            extent <- ExtentBar, req <- ReqBar, out <- OutBar,
            reads <- ReadsBar

\* For a caller whose requests end in the addressable range, every run of
\* find_descriptor, find_descriptor_table and find_inode is a run of the
\* abstract locator: the bounds check, the casts of slice_unchecked and
\* dynamic_cast, the `?` of the table loop and the AddressOutOfBounds
\* payload together read exactly the requested records or nothing.
ImplementsAbstract == A!Spec

=============================================================================
