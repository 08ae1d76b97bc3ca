--------------------------- MODULE AbstractLocator ---------------------------
(***************************************************************************)
(* What the record locators promise (spec sections 4.3 and 7), stated     *)
(* over linear byte positions instead of (sector, offset) addresses.      *)
(*                                                                         *)
(* A call asks for n records of len bytes each, back to back from a       *)
(* start position.  If the request ends within the volume's extent, the   *)
(* call reads exactly those n ranges, in order, and succeeds; otherwise   *)
(* it reads nothing and fails with the position where the request ends.   *)
(* An inode of another size than the layout's is unsupported and ends the *)
(* caller.  A single-record call returns the position after the record;   *)
(* the position a table call returns is left open here (TableReturnsEnd   *)
(* of Locator is about it).                                                *)
(***************************************************************************)
EXTENDS Naturals, Sequences

CONSTANTS
  Positions,        \* the byte positions a caller can pass as a start
  DescriptorSize,   \* bytes of one block group descriptor
  InodeSize,        \* bytes of one inode
  TableCounts,      \* the table lengths a caller asks for
  InodeSizeInputs   \* the inode sizes a caller passes

VARIABLES
  extent,   \* the volume's length in bytes, if it has one
  req,      \* the last request: operation, start position, argument
  out,      \* its outcome
  reads     \* the byte ranges it read, in order

avars == <<extent, req, out, reads>>

\* The extents a volume can have: none, or a length in bytes.
Extents == {[bounded |-> FALSE]} \cup [bounded : {TRUE}, len : Positions]

\* A request ending at `end` lies within the volume.
Within(end) == ~extent.bounded \/ end <= extent.len

\* n records of len bytes each, back to back from start.
Records(start, len, n) ==
  [k \in 1 .. n |-> [from |-> start + (k - 1) * len, to |-> start + k * len]]

\* The positions a successful call may return.
Returned(op, end) == IF op = "table" THEN Positions ELSE {end}

\* A call reading n records of len bytes from start (arg is the argument
\* the caller passed: the record size, or the table length).
ReadRecords(op, start, len, n, arg) ==
  LET end == start + n * len IN
  /\ out.kind # "panic"
  /\ req' = [op |-> op, start |-> start, arg |-> arg]
  /\ \/ /\ Within(end)
        /\ reads' = Records(start, len, n)
        /\ out' \in {[kind |-> "ok", addr |-> p] : p \in Returned(op, end)}
     \/ /\ ~Within(end)
        /\ reads' = <<>>
        /\ out' = [kind |-> "err", end |-> end]
  /\ UNCHANGED extent

\* An inode size the library does not support: the caller is stopped.
Unsupported(start, size) ==
  /\ out.kind # "panic"
  /\ req' = [op |-> "inode", start |-> start, arg |-> size]
  /\ out' = [kind |-> "panic"]
  /\ reads' = <<>>
  /\ UNCHANGED extent

Init ==
  /\ extent \in Extents
  /\ req = [op |-> "none"]
  /\ out = [kind |-> "none"]
  /\ reads = <<>>

Next ==
  \E start \in Positions :
    \/ ReadRecords("descriptor", start, DescriptorSize, 1, DescriptorSize)
    \/ \E n \in TableCounts :
         ReadRecords("table", start, DescriptorSize, n, n)
    \/ \E size \in InodeSizeInputs :
         \/ size = InodeSize /\ ReadRecords("inode", start, size, 1, size)
         \/ size # InodeSize /\ Unsupported(start, size)

Spec == Init /\ [][Next]_avars

=============================================================================
