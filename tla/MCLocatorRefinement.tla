------------------------- MODULE MCLocatorRefinement -------------------------
(***************************************************************************)
(* The refinement of AbstractLocator on a small instance: sectors of 2    *)
(* bytes and a 16-valued sector field (32 positions), descriptors of 3    *)
(* bytes and inodes of 5, so that every record straddles a sector         *)
(* boundary; 2 * SIZE <= I32Half, so offsets add without wrapping.       *)
(***************************************************************************)
EXTENDS LocatorRefinement

=============================================================================
