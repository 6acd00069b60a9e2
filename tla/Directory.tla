------------------------------ MODULE Directory ------------------------------
(***************************************************************************)
(* The volume and its directories as tff.c and philes.c read them           *)
(* (src/firmware/floppysrc): where auto_mount finds the areas of a volume,  *)
(* how a directory object moves from entry to entry and sector to sector,   *)
(* and the two ways between the eleven bytes of a name and its text.        *)
(*                                                                          *)
(* A directory sector is a sequence of ENTRIES entries.  Text is a sequence *)
(* of character codes.                                                      *)
(***************************************************************************)
EXTENDS Integers, Sequences, SequencesExt

CONSTANT ENTRIES     \* 16, entries of a directory sector

ASSUME EntriesAssumption == ENTRIES \in Nat /\ ENTRIES > 2

-----------------------------------------------------------------------------
(* auto_mount.  disk[s] is a sector; a boot record has the fields sig (is it *)
(* signed $AA55), fat (does it say "FAT"), part (the first partition, 0 for  *)
(* none) and bpb.                                                            *)

\* 0: a FAT boot record, 1: a boot record, 2: neither.
check_fs(disk, sect) ==
  IF sect \notin DOMAIN disk \/ ~disk[sect].sig THEN 2 ELSE IF disk[sect].fat THEN 0 ELSE 1

\* The boot sector of the volume: sector 0, or where the first partition starts.
BootSector(disk) ==
  IF check_fs(disk, 0) = 1 /\ disk[0].part # 0 THEN disk[0].part ELSE 0

\* What auto_mount makes of the parameter block of a volume that starts at sector
\* boot.  bpb has the fields BytsPerSec, SecPerClus, RsvdSecCnt, NumFATs,
\* RootEntCnt, TotSec and FATSz, the 16-bit or else the 32-bit ones.
fatsize(bpb) == bpb.FATSz * bpb.NumFATs
Overhead(bpb) == bpb.RsvdSecCnt + fatsize(bpb) + bpb.RootEntCnt \div ENTRIES
Geometry(bpb, boot) ==
  [fatbase     |-> boot + bpb.RsvdSecCnt,
   sects_clust |-> bpb.SecPerClus,
   n_rootdir   |-> bpb.RootEntCnt,
   max_clust   |-> (bpb.TotSec - Overhead(bpb)) \div bpb.SecPerClus + 2,
   dirbase     |-> boot + bpb.RsvdSecCnt + fatsize(bpb),
   database    |-> boot + Overhead(bpb)]

\* "No valid FAT patition is found", or one that would have to be FAT32.
Mountable(disk) ==
  LET boot == BootSector(disk)
  IN /\ check_fs(disk, boot) = 0 /\ disk[boot].bpb.BytsPerSec = 512
     /\ Geometry(disk[boot].bpb, boot).max_clust <= 65527
VolumeOn(disk) == LET boot == BootSector(disk) IN Geometry(disk[boot].bpb, boot)

-----------------------------------------------------------------------------
(* The directory object: the sector and cluster it is in, 0 for none, and    *)
(* its index in the directory.                                               *)

InUse(vol, clust) == clust \in 2..(vol.max_clust - 1)
clust2sect(vol, clust) ==
  IF InUse(vol, clust) THEN (clust - 2) * vol.sects_clust + vol.database ELSE 0

\* trace_path starts in the root directory; a subdirectory is entered behind its
\* "." and "..".
RootDir(vol) == [sect |-> vol.dirbase, clust |-> 0, index |-> 0]
SubDir(vol, clust) == [sect |-> clust2sect(vol, clust), clust |-> clust, index |-> 2]

\* get_cluster is asked for the next one.  Mutant: at the end of every sector.
NeedsLink_sector(vol, d) == d.clust # 0 /\ (d.index + 1) % ENTRIES = 0
NeedsLink(vol, d) ==
  d.clust # 0 /\ (d.index + 1) % ENTRIES = 0
  /\ ((d.index + 1) \div ENTRIES) % vol.sects_clust = 0

\* The object one entry on; sect is 0 at the end.  link is the cluster that
\* follows, 1 if the FAT could not be read.
next_dir_entry(vol, d, link) ==
  LET idx  == d.index + 1
      past == [d EXCEPT !.sect = 0]
      next == [d EXCEPT !.index = idx]
  IN IF idx % ENTRIES # 0 THEN next
     ELSE IF d.clust = 0 THEN IF idx >= vol.n_rootdir THEN past ELSE [next EXCEPT !.sect = @ + 1]
     ELSE IF ~NeedsLink(vol, d) THEN [next EXCEPT !.sect = @ + 1]
     ELSE IF InUse(vol, link)
     THEN [sect |-> clust2sect(vol, link), clust |-> link, index |-> idx]
     ELSE past

EntryAt(disk, d) == disk[d.sect][(d.index % ENTRIES) + 1]

-----------------------------------------------------------------------------
(* Names.  An entry has its eleven bytes in name and AM_VOL, AM_DIR in attr. *)

SPACE == 32
DOT == 46
\* Mutant: an entry never used does not end the directory.
IsEnd_never(e) == FALSE
IsEnd(e) == e.name[1] = 0
IsValid(e) == e.name[1] # 229 /\ "VOL" \notin e.attr

UpToSpace(s) ==
  LET spaces == {k \in DOMAIN s : s[k] = SPACE}
  IN IF spaces = {} THEN s ELSE SubSeq(s, 1, Min(spaces) - 1)

\* get_fileinfo: name, dot, extension, without the padding.
get_fileinfo(name) ==
  LET body == UpToSpace(SubSeq(name, 1, 8))
      ext  == UpToSpace(SubSeq(name, 9, 11))
  IN [k \in DOMAIN body |-> IF body[k] = 5 THEN 229 ELSE body[k]]
       \o IF name[9] = SPACE THEN <<>> ELSE <<DOT>> \o ext

PadTo(s, n) == s \o [k \in 1..(n - Len(s)) |-> SPACE]

\* make_dirfile: the characters it takes, and what it makes of them.
Rejected(c) ==
  c <= 32 \/ c = 127 \/ c \in {34, 124} \/ c \in 42..44 \/ c \in 58..63 \/ c \in 91..93
Upper(c) == IF c \in 97..122 THEN c - 32 ELSE c

\* Where the extension starts after a dot at k: dots that follow it are skipped.
AfterDots(seg, k) ==
  Min({j \in (k + 1)..(Len(seg) + 1) : j = Len(seg) + 1 \/ seg[j] # DOT})

\* One segment of a path, which holds no '/', as eleven bytes; <<>> if it is none.
make_dirfile(seg) ==
  LET dots == {k \in DOMAIN seg : seg[k] = DOT}
      body == IF dots = {} THEN seg ELSE SubSeq(seg, 1, Min(dots) - 1)
      ext  == IF dots = {} THEN <<>> ELSE SubSeq(seg, AfterDots(seg, Min(dots)), Len(seg))
      up(s) == [k \in DOMAIN s |-> Upper(s[k])]
  IN IF \/ body = <<>> \/ Len(body) > 8 \/ Len(ext) > 3 \/ DOT \in ToSet(ext)
        \/ \E k \in DOMAIN seg : seg[k] # DOT /\ Rejected(seg[k])
     THEN <<>> ELSE PadTo(up(body), 8) \o PadTo(up(ext), 3)

endsWith(s, suffix) ==
  Len(s) >= Len(suffix) /\ SubSeq(s, Len(s) - Len(suffix) + 1, Len(s)) = suffix

FDD == <<DOT, 70, 68, 68>>
\* What philes_nextfile stops at.
IsImage(e) == IsValid(e) /\ "DIR" \notin e.attr /\ endsWith(get_fileinfo(e.name), FDD)
=============================================================================
