------------------------------ MODULE MCRpSizes ------------------------------
(***************************************************************************)
(* Requests at the limits of every kind of block.                          *)
(***************************************************************************)
EXTENDS RpSizes

MCSizes == {0, 1, 17, 128, 129, 1024, 1025, 1500, 16000, 21760, 21761, 32256, 32257, 65408, 65409,
            130944, 200000, LargeLimit - 128, LargeLimit, LargeLimit + 1}
MCAlignments == {16, 32, 128, 4096, 32768, 65536}
=============================================================================
