------------------------------ MODULE MCFloppy ------------------------------
(* Small floppies: two byte sectors, one or two image files.                *)
EXTENDS Floppy

Transfers  == {"READ", "WRITE"}
JustRead   == {"READ"}
WriteOnly  == {"WRITE"}
Mixed      == {"READ", "WRITE", "READADDR", "SEEK", "STEP_OUT_U"}
Steps      == {"SEEK", "STEP_IN", "STEP_OUT"}
NoCommands == {}

\* Contents that name their place: byte i of sector b of an image.
PlaceBytes(img, b, i) == (16 * (IF img = (CHOOSE x \in Images : TRUE) THEN 0 ELSE NBLOCKS)
                           + 16 * b + i) % 100
\* Byte i of the n-th command's sector, as the host writes it.
CommandBytes(n, i) == 100 + 10 * n + i
=============================================================================
