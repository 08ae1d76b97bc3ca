------------------------------ MODULE Layout ------------------------------
(***************************************************************************)
(* The #[repr(C, packed)] on-disk records of src/sys/block_group.rs and   *)
(* src/sys/inode.rs, as the byte width of each field in declaration       *)
(* order.  A packed struct has no padding, so its size is the sum of its  *)
(* field widths; the locators cast ranges of exactly that many bytes.     *)
(***************************************************************************)
EXTENDS Naturals, Functions

\* struct BlockGroupDescriptor: three u32 block addresses, three u16
\* counters and the 14 reserved bytes.
BlockGroupDescriptorFields ==
  [block_usage_addr |-> 4, inode_usage_addr |-> 4, inode_table_block |-> 4,
   free_blocks_count |-> 2, free_inodes_count |-> 2, dirs_count |-> 2,
   reserved |-> 14]

\* struct Inode: TypePerm and Flags are bitflags over u16 and u32.
InodeFields ==
  [type_perm |-> 2, uid |-> 2, size_low |-> 4, atime |-> 4, ctime |-> 4,
   mtime |-> 4, dtime |-> 4, gid |-> 2, hard_links |-> 2,
   sectors_count |-> 4, flags |-> 4, os_specific_1 |-> 4,
   direct_pointer |-> 12 * 4, indirect_pointer |-> 4, doubly_indirect |-> 4,
   triply_indirect |-> 4, gen_number |-> 4, ext_attribute_block |-> 4,
   size_high |-> 4, frag_block_addr |-> 4, os_specific_2 |-> 12]

\* mem::size_of of a packed struct.
PackedSize(fields) == SumFunction(fields)

\* tests::sizes of src/lib.rs, for the two records this project models
\* (the Superblock is not under src/): the constants DescriptorSize and
\* InodeSize of Locator stand for these values.
ASSUME LayoutSizes ==
  /\ PackedSize(BlockGroupDescriptorFields) = 32
  /\ PackedSize(InodeFields) = 128

=============================================================================
