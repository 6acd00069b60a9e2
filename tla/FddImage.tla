------------------------------ MODULE FddImage ------------------------------
(***************************************************************************)
(* The disk image behind the drive, src/firmware/floppysrc/fddimage.c: a   *)
(* file of sectors, numbered from 0.  fdd_seek notes a position outside    *)
(* the disk in fdderror, which nobody reads, so a position is just a       *)
(* number; f_lseek then clips it to the end of the file, where a read and  *)
(* a write move no byte and still return FR_OK.                            *)
(***************************************************************************)
EXTENDS Integers

CONSTANTS FDD_NSIDES,    \* 2 in the source
          FDD_NSECTORS,  \* 5 in the source
          NBLOCKS,       \* sectors in the image file
          SECTOR_SIZE

Blocks == 0..(NBLOCKS - 1)

\* Side 1 comes first on every track.  Sector 0 is the last of the side
\* before; at the start of the file it wraps to the end of the address space.
calc_offset(side, track, sector) ==
  (FDD_NSIDES * track + (1 - side)) * FDD_NSECTORS + sector - 1

\* What fdd_readsector leaves in the buffer, and fdd_writesector in the image.
fdd_readsector(image, blk, buffer) ==
  IF blk \in Blocks THEN image[blk] ELSE buffer
fdd_writesector(image, blk, buffer) ==
  IF blk \in Blocks THEN [image EXCEPT ![blk] = buffer] ELSE image

\* fdd_readadr: track, side and sector, then the size code and no CRC.
fdd_readadr(buffer, side, track, sector) ==
  [i \in DOMAIN buffer |-> CASE i = 0 -> track [] i = 1 -> side
                             [] i = 2 -> sector [] i = 3 -> 3
                             [] i \in {4, 5} -> 0 [] OTHER -> buffer[i]]
=============================================================================
