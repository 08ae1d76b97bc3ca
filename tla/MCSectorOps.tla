----------------------------- MODULE MCSectorOps -----------------------------
(***************************************************************************)
(* SectorOps on a small instance (4-byte sectors, 4-bit u32 and i32), and *)
(* the unit tests of src/sector.rs evaluated on 512- and 2048-byte sectors.  *)
(***************************************************************************)
EXTENDS SectorOps

\* Offsets across the whole 4-bit i32 range: negative ones borrow from the
\* sector, ones of SIZE or more carry into it.
MCOffsetInputs == {-8, -5, -1, 0, 3, 4, 7}

\* The same for a 3-bit i32, used with LOG_SIZE = OffsetBits - 1: the
\* largest sector size the SectorSize contract admits (LOG_SIZE = 31 with
\* the code's 32-bit i32).
MCOffsetInputs3 == {-4, -1, 0, 3}

\* Size512; TLC integers are 32-bit, so the fields get 16 bits, enough for
\* every value of the tests.
S512 == INSTANCE Sector
          WITH LOG_SIZE <- 9, SectorBits <- 16, OffsetBits <- 16,
               OverflowChecks <- TRUE
\* Size2048, with the same widths.
S2048 == INSTANCE Sector
          WITH LOG_SIZE <- 11, SectorBits <- 16, OffsetBits <- 16,
               OverflowChecks <- TRUE

\* tests::conv of src/sector.rs.
ASSUME ConvTests ==
  /\ S512!IntoIndex(S512!New(0, 1024)) = 1024
  /\ S512!IntoIndex(S512!FromIndex(1024)) = 1024
  /\ S512!IntoIndex(S512!WithBlockSize(1, 256, 10)) = 1024 + 256
  /\ S512!IntoIndex(S512!WithBlockSize(1, -256, 10)) = 1024 - 256
  /\ S512!IntoIndex(S512!WithBlockSize(2, 0, 10)) = 2048
  /\ S512!IntoIndex(S512!WithBlockSize(0, 1792, 10)) = 1792

\* tests::arithmetic of src/sector.rs.
ASSUME ArithmeticTests ==
  /\ S512!New(0, 512) = S512!New(1, 0)
  /\ S512!New(2, -256) = S512!New(1, 256)
  /\ S512!New(2, -257) = S512!New(1, 255)
  /\ S512!New(2, -1023) = S512!New(0, 1)
  /\ S2048!AddAddr(S2048!New(0, 1024), S2048!New(0, 1024)) = S2048!New(1, 0)
  /\ S2048!IntoIndex(S2048!AddAddr(S2048!New(0, 1024), S2048!New(0, 1024)))
       = 2048
  /\ S512!SubAddr(S512!New(0, 2048), S512!New(0, 256)) = S512!New(3, 256)
  /\ S512!IntoIndex(S512!SubAddr(S512!New(0, 2048), S512!New(0, 256))) = 1792

=============================================================================
