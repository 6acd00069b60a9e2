------------------------------ MODULE FatFile -------------------------------
(***************************************************************************)
(* The files behind the disk image: tff.c, a read-only FAT12/16 file       *)
(* system with one sector window, extended by f_write_inplace, and the     *)
(* part of thrall and slave that mounts the card, opens the image and      *)
(* serves positions of it (src/firmware/floppysrc).                        *)
(*                                                                         *)
(* The firmware is one thread.  What moves under it is the card: it may    *)
(* leave its socket, come back or be exchanged between any two accesses,   *)
(* and any access may fail.  An action is one turn of a loop, with the     *)
(* accesses of that turn; k says how many of them the card answers.        *)
(*                                                                         *)
(* A sector has SS bytes and a request BLOCK.  Directories are one sector; *)
(* file f is named by bytes 2f and 2f+1 of its directory: first cluster (0 *)
(* for no such file) and size.                                             *)
(***************************************************************************)
EXTENDS Integers, Sequences, FiniteSetsExt

CONSTANTS
  SS,          \* 512
  BLOCK,       \* FDD_SECTOR_SIZE
  Files,       \* the .FDD names: 0, 1, ...
  Cards,
  Volume,      \* per card: fs_type, fatbase, dirbase, database, sects_clust, max_clust
  Contents,    \* per card: its sectors, as functions on 0..(SS - 1)
  Chain, Size, \* per card and file: the clusters it is made of, its length
  ID_MOD,      \* 2^16
  Positions,   \* blocks asked for; those before the first wrap to beyond the last
  MaxRequests, MaxFaults, MaxSwaps

Byte == 0..255
Offsets == 0..(SS - 1)

ASSUME SectorAssumption ==
  /\ SS \in Nat \ {0} /\ SS % 2 = 0 /\ BLOCK \in Nat \ {0} /\ BLOCK % SS = 0
  /\ \A f \in Files : f \in Nat /\ 2 * f + 1 < SS
  /\ Positions \subseteq Nat /\ ID_MOD \in Nat \ {0} /\ "none" \notin Cards

-----------------------------------------------------------------------------
(* The cards, as they are formatted.                                       *)

\* The first sector of cluster x.
ClusterSector(c, x) == (x - 2) * Volume[c].sects_clust + Volume[c].database

\* Where byte p of file f lies on card c, by its chain of clusters.
Place(c, f, p) ==
  LET cs == Volume[c].sects_clust * SS
  IN <<ClusterSector(c, Chain[c][f][p \div cs + 1]) + (p % cs) \div SS, p % SS>>

\* Sectors of files, and those of boot sector, FATs and directories.
DataSectors(c) == UNION {{Place(c, f, p)[1] : p \in 0..(Size[c][f] - 1)} : f \in Files}
Meta(c) == DOMAIN Contents[c] \ DataSectors(c)

\* Where the link of cluster x begins in the FAT, the sector of the FAT's byte n,
\* and the cluster the link leads to.
LinkAt(c, x) == IF Volume[c].fs_type = 12 THEN (x * 3) \div 2 ELSE x * 2
LinkSector(c, n) == Volume[c].fatbase + n \div SS
NextCluster(c, x) ==
  LET n == LinkAt(c, x)
      both == Contents[c][LinkSector(c, n)][n % SS]
              + 256 * Contents[c][LinkSector(c, n + 1)][(n + 1) % SS]
  IN CASE Volume[c].fs_type = 16 -> both
       [] Volume[c].fs_type = 12 /\ x % 2 = 1 -> both \div 16
       [] Volume[c].fs_type = 12 /\ x % 2 = 0 -> both % 4096

ASSUME VolumeAssumption ==
  /\ Contents = [c \in Cards |-> Contents[c]]
  /\ \A c \in Cards :
       /\ Volume[c].fs_type \in {12, 16} /\ Volume[c].sects_clust \in 1..128
       /\ {Volume[c].fatbase, Volume[c].dirbase, Volume[c].database, Volume[c].max_clust}
            \subseteq Nat \ {0}
       /\ 0 \in DOMAIN Contents[c] /\ DOMAIN Contents[c] \subseteq Nat
       /\ Contents[c] \in [DOMAIN Contents[c] -> [Offsets -> Byte]]

\* The root directory names the directory of the images.
ASSUME DirectoryAssumption ==
  \A c \in Cards :
    LET root == Contents[c][Volume[c].dirbase]
        dir  == ClusterSector(c, root[0])
    IN /\ root[0] \in 2..(Volume[c].max_clust - 1)
       /\ {Volume[c].dirbase, dir} \subseteq Meta(c) /\ Volume[c].dirbase # dir
       /\ \A f \in Files :
            IF Chain[c][f] = <<>> THEN Contents[c][dir][2 * f] = 0
            ELSE /\ Contents[c][dir][2 * f] = Chain[c][f][1]
                 /\ Contents[c][dir][2 * f + 1] = Size[c][f]

\* The FAT links the clusters of each file, which are enough for it, and are no
\* other file's.
ASSUME ChainAssumption ==
  \A c \in Cards :
    /\ DataSectors(c) \subseteq DOMAIN Contents[c]
    /\ \A f \in Files :
         /\ Chain[c][f] \in Seq(2..(Volume[c].max_clust - 1)) /\ Size[c][f] \in Nat
         /\ Len(Chain[c][f]) * (Volume[c].sects_clust * SS) >= Size[c][f]
         /\ \A i \in 1..(Len(Chain[c][f]) - 1) :
              LET n == LinkAt(c, Chain[c][f][i])
              IN /\ {LinkSector(c, n), LinkSector(c, n + 1)} \subseteq Meta(c)
                 /\ NextCluster(c, Chain[c][f][i]) = Chain[c][f][i + 1]
         /\ \A g \in Files : \A i \in DOMAIN Chain[c][f], j \in DOMAIN Chain[c][g] :
              Chain[c][f][i] = Chain[c][g][j] => f = g /\ i = j

VARIABLES
  socket, ready,   \* the card in the socket; has it been initialised since
  medium,          \* what the cards hold
  STA_NOINIT,      \* mmc.c: Stat
  fs,              \* FATFS; vol is the geometry read from the boot sector
  fsid, win,       \* fs__win
  first,
  imagefile,       \* -1 is xxxxxxxx.xxx, the name ptrfile starts with
  file1,
  pc,
  req,             \* the request served: wr (is it a write) and blk
  clust, ofs,      \* f_lseek
  btr, br, buf,    \* f_read_or_wr
  result,
  opened, before,  \* history: whose file file1 is; buf at the request
  requests, faults, swaps  \* counted against the bounds

cardVars == <<socket, ready, medium>>
fsVars   == <<STA_NOINIT, fs, fsid, win>>
selVars  == <<first, imagefile, opened>>
reqVars  == <<req, clust, ofs, btr, br, buf, result, before, requests>>
fatVars  == <<cardVars, fsVars, selVars, file1, pc, reqVars, faults, swaps>>

NoVolume == [fs_type |-> 0, fatbase |-> 0, dirbase |-> 0, database |-> 0,
             sects_clust |-> 0, max_clust |-> 0]
Unmounted == [id |-> 0, winsect |-> 0, vol |-> NoVolume]
NoFile == [id |-> 0, error |-> FALSE, fptr |-> 0, fsize |-> 0, org_clust |-> 0,
           curr_clust |-> 0, curr_sect |-> 0, sect_clust |-> 0]
Zeros(n) == [i \in 0..(n - 1) |-> 0]

NoRequest == [wr |-> FALSE, blk |-> 0]

FatInit ==
  /\ socket \in Cards /\ ready = FALSE /\ medium = Contents
  /\ STA_NOINIT = TRUE /\ fs = Unmounted /\ fsid = 0 /\ win = Zeros(SS)
  /\ first = 0 /\ imagefile = -1 /\ file1 = NoFile /\ opened = <<>>
  /\ pc = "mount" /\ req = NoRequest
  /\ clust = 0 /\ ofs = 0 /\ btr = 0 /\ br = 0 /\ result = "OK"
  /\ buf = Zeros(BLOCK) /\ before = Zeros(BLOCK)
  /\ requests = 0 /\ faults = 0 /\ swaps = 0

-----------------------------------------------------------------------------
(* The window.                                                             *)

\* The window at the start of an action in which the card answers k accesses.
Window(k) == [sect |-> fs.winsect, win |-> win, left |-> k, ok |-> TRUE]
\* k: a card that was not initialised answers nothing, a fault cuts k short.
Answers == IF ~ready THEN {0} ELSE IF faults < MaxFaults THEN 0..3 ELSE {3}
\* The firmware goes on with the window w.
Use(w) == fs' = [fs EXCEPT !.winsect = w.sect] /\ win' = w.win
Blame(ok) == faults' = IF ready /\ ~ok THEN faults + 1 ELSE faults

move_window(w, sector) ==
  IF ~w.ok \/ w.sect = sector THEN w
  ELSE IF w.left = 0 THEN [w EXCEPT !.ok = FALSE]
  ELSE [w EXCEPT !.sect = sector, !.win = medium[socket][sector], !.left = @ - 1]

InUse(c) == c \in 2..(fs.vol.max_clust - 1)

\* The link of a cluster, 1 if there is none: two bytes that for FAT12 may lie
\* in two sectors.
get_cluster(w, c) ==
  LET bc == IF fs.vol.fs_type = 12 THEN (c * 3) \div 2 ELSE c * 2
      w1 == move_window(w, fs.vol.fatbase + bc \div SS)
      w2 == move_window(w1, fs.vol.fatbase + (bc + 1) \div SS)
      wc == w1.win[bc % SS] + 256 * w2.win[(bc + 1) % SS]
  IN IF ~InUse(c) THEN [w |-> w, clust |-> 1]
     ELSE [w |-> w2,
           clust |-> IF ~w2.ok THEN 1
                     ELSE IF fs.vol.fs_type = 16 THEN wc
                     ELSE IF c % 2 = 1 THEN wc \div 16 ELSE wc % 4096]

clust2sect(c) ==
  IF InUse(c) THEN (c - 2) * fs.vol.sects_clust + fs.vol.database ELSE 0

\* /VECTOR06: the root directory, then the directory itself.
trace_path(w) ==
  LET root == move_window(w, fs.vol.dirbase)
  IN IF root.ok THEN move_window(root, clust2sect(root.win[0])) ELSE root

Entry(dir, f) == [org_clust |-> dir[2 * f], fsize |-> dir[2 * f + 1]]
Listed(dir) == {f \in Files : Entry(dir, f).org_clust # 0}

-----------------------------------------------------------------------------
(* Mounting the card and opening the image: thrall.                        *)

\* Two tries to initialise the card: one that fails costs a fault if the card
\* is there.
disk_initialize(works) ==
  /\ works => socket \in Cards
  /\ (~works /\ socket \in Cards) => faults < MaxFaults
  /\ ready' = works /\ STA_NOINIT' = ~works
  /\ faults' = IF ~works /\ socket \in Cards THEN faults + 1 ELSE faults

f_mount_stale == fs
f_mount == Unmounted

\* philes_mount does not look at what disk_initialize says.
Mount ==
  /\ pc = "mount"
  /\ \E works \in BOOLEAN : disk_initialize(works)
  /\ fs' = f_mount
  /\ pc' = "opendir"
  /\ UNCHANGED <<socket, medium, fsid, win, selVars, file1, reqVars, swaps>>

Mounted == fs.vol.fs_type # 0 /\ ~STA_NOINIT

\* auto_mount, when it has work to do; check_fs reads the boot sector over the
\* window.
AutoMount ==
  /\ pc = "opendir" /\ ~Mounted
  /\ \E works \in BOOLEAN :
       /\ disk_initialize(works)
       /\ IF works
          THEN /\ fsid' = (fsid + 1) % ID_MOD
               /\ fs' = [id |-> fsid', winsect |-> 0, vol |-> Volume[socket]]
               /\ win' = medium[socket][0]
               /\ UNCHANGED pc
          ELSE fs' = Unmounted /\ pc' = "mount" /\ UNCHANGED <<fsid, win>>
  /\ UNCHANGED <<socket, medium, selVars, file1, reqVars, swaps>>

OpenDir ==
  /\ pc = "opendir" /\ Mounted
  /\ \E k \in Answers :
       LET w == trace_path(Window(k))
       IN /\ Use(w) /\ Blame(w.ok)
          /\ pc' = IF ~w.ok THEN "mount" ELSE IF first = 0 THEN "nextfile" ELSE "open"
  /\ UNCHANGED <<cardVars, STA_NOINIT, fsid, selVars, file1, reqVars, swaps>>

\* Take the first image of the directory; thrall does not ask whether there is
\* one.
NextFile ==
  /\ pc = "nextfile"
  /\ \E k \in Answers :
       LET w == trace_path(Window(k))
       IN /\ Use(w) /\ Blame(w.ok)
          /\ imagefile' = IF w.ok /\ Listed(w.win) # {} THEN Min(Listed(w.win)) ELSE imagefile
  /\ first' = first + 1 /\ pc' = "open"
  /\ UNCHANGED <<cardVars, STA_NOINIT, fsid, opened, file1, reqVars, swaps>>

OpenFails_keep == UNCHANGED first
\* "try to recover by re-reading the directory"
OpenFails == first' = 0

f_open ==
  /\ pc = "open"
  /\ \E k \in Answers :
       LET w == trace_path(Window(k))
           e == Entry(w.win, imagefile)
       IN /\ Use(w) /\ Blame(w.ok)
          /\ IF w.ok /\ imagefile \in Listed(w.win)
             THEN /\ file1' = [NoFile EXCEPT !.id = fs.id, !.org_clust = e.org_clust,
                                             !.fsize = e.fsize, !.sect_clust = 1]
                  /\ opened' = <<socket, imagefile>>
                  /\ pc' = "serve" /\ UNCHANGED first
             ELSE OpenFails /\ pc' = "mount" /\ UNCHANGED <<file1, opened>>
  /\ UNCHANGED <<cardVars, STA_NOINIT, fsid, imagefile, reqVars, swaps>>

-----------------------------------------------------------------------------
(* Serving: slave and fddimage.c.                                          *)

\* disk_poll finds no card.
PollFails ==
  /\ pc = "serve"
  /\ ready => faults < MaxFaults
  /\ faults' = IF ready THEN faults + 1 ELSE faults
  /\ pc' = "mount"
  /\ UNCHANGED <<cardVars, fsVars, selVars, file1, reqVars, swaps>>

\* The menu lists the directory (whatever comes of it), or the user picks a
\* file from a list drawn earlier.
Browse ==
  /\ pc = "serve"
  /\ \E k \in Answers : LET w == trace_path(Window(k)) IN Use(w) /\ Blame(w.ok)
  /\ UNCHANGED <<cardVars, STA_NOINIT, fsid, selVars, file1, pc, reqVars, swaps>>
Select ==
  /\ pc = "serve"
  /\ imagefile' \in Files /\ pc' = "mount"
  /\ UNCHANGED <<cardVars, fsVars, first, opened, file1, reqVars, faults, swaps>>

validate == fs.id = file1.id /\ ~STA_NOINIT

Clip_missing(o) == o
\* f_lseek goes no further than the end of the file.
Clip(o) == IF o > file1.fsize THEN file1.fsize ELSE o

\* Contents of the n-th write, all different.
Written(n) == [i \in 0..(BLOCK - 1) |-> (200 + BLOCK * n + i) % 256]

\* A request, up to the loop of f_lseek.
Request ==
  /\ pc = "serve" /\ ready /\ requests < MaxRequests
  /\ \E wr \in BOOLEAN, b \in Positions :
       /\ req' = [wr |-> wr, blk |-> b]
       /\ buf' = IF wr THEN Written(requests) ELSE buf
       /\ ofs' = Clip(b * BLOCK)
  /\ before' = buf'
  /\ IF validate /\ ~file1.error
     THEN /\ file1' = [file1 EXCEPT !.fptr = 0, !.sect_clust = 1,
                        !.curr_clust = IF ofs' = 0 THEN @ ELSE file1.org_clust]
          /\ clust' = file1.org_clust
          /\ pc' = IF ofs' = 0 THEN "read" ELSE "seek"
          /\ UNCHANGED result
     ELSE /\ result' = IF validate THEN "RW_ERROR" ELSE "INVALID"
          /\ pc' = "report" /\ UNCHANGED <<file1, clust>>
  /\ requests' = requests + 1
  /\ UNCHANGED <<cardVars, fsVars, selVars, btr, br, faults, swaps>>

csize == fs.vol.sects_clust * SS
Fail(fp) == file1' = [fp EXCEPT !.error = TRUE] /\ result' = "RW_ERROR" /\ pc' = "report"

\* The position is in this cluster, or at its end.
Reached == ofs <= csize

\* One turn of f_lseek's loop.
Follow ==
  /\ pc = "seek" /\ ~Reached
  /\ \E k \in Answers :
       LET got == get_cluster(Window(k), clust)
       IN /\ Use(got.w) /\ Blame(got.w.ok)
          /\ clust' = got.clust
          /\ IF InUse(got.clust)
             THEN /\ file1' = [file1 EXCEPT !.fptr = @ + csize, !.curr_clust = got.clust]
                  /\ ofs' = ofs - csize
                  /\ UNCHANGED <<pc, result>>
             ELSE IF got.clust = 0
             THEN ofs' = csize /\ pc' = "arrive" /\ UNCHANGED <<file1, result>>
             ELSE Fail(file1) /\ UNCHANGED ofs
  /\ UNCHANGED <<cardVars, STA_NOINIT, fsid, selVars, req, btr, br, buf, before, requests, swaps>>

SectorsLeft_short(csect) == fs.vol.sects_clust - csect - 1
SectorsLeft(csect) == fs.vol.sects_clust - csect

Arrive ==
  /\ pc = "arrive" \/ (pc = "seek" /\ Reached)
  /\ LET csect == ((ofs - 1) \div SS) % 256
     IN file1' = [file1 EXCEPT !.fptr = @ + ofs, !.curr_sect = clust2sect(clust) + csect,
                               !.sect_clust = SectorsLeft(csect)]
  /\ pc' = "read"
  /\ UNCHANGED <<cardVars, fsVars, selVars, reqVars, faults, swaps>>

\* The head of f_read_or_wr, right after f_lseek said FR_OK.
Begin ==
  /\ pc = "read"
  /\ btr' = Min({BLOCK, file1.fsize - file1.fptr}) /\ br' = 0
  /\ result' = IF validate THEN "OK" ELSE "INVALID"
  /\ pc' = IF validate THEN "transfer" ELSE "report"
  /\ UNCHANGED <<cardVars, fsVars, selVars, file1, req, clust, ofs, buf, before, requests,
                 faults, swaps>>

\* The file object at the sector of fptr: the next of the cluster, the first of
\* the next cluster, or in mid-sector the one it is in.
NextSector(w) ==
  LET fp  == [file1 EXCEPT !.sect_clust = @ - 1]
      got == IF file1.fptr = 0 THEN [w |-> w, clust |-> file1.org_clust]
             ELSE get_cluster(w, file1.curr_clust)
  IN IF file1.fptr % SS # 0 THEN [w |-> w, fp |-> file1, ok |-> TRUE]
     ELSE IF fp.sect_clust # 0
     THEN [w |-> w, fp |-> [fp EXCEPT !.curr_sect = @ + 1], ok |-> TRUE]
     ELSE IF ~InUse(got.clust) THEN [w |-> got.w, fp |-> fp, ok |-> FALSE]
     ELSE [w |-> got.w, ok |-> TRUE,
           fp |-> [fp EXCEPT !.curr_clust = got.clust, !.curr_sect = clust2sect(got.clust),
                             !.sect_clust = fs.vol.sects_clust]]

\* Sectors moved at once, without the window: no more than the cluster has left.
Run(fp) == Min({btr \div SS, fp.sect_clust})

\* The _stuck ones do not advance in the buffer.
ReadSectors_stuck(sect, n) ==
  [i \in DOMAIN buf |-> IF i < n * SS THEN medium[socket][sect + i \div SS][i % SS] ELSE buf[i]]
\* The sectors from sect on, n of them, as bytes br, br + 1, ... of buf; and back.
ReadSectors(sect, n) ==
  [i \in DOMAIN buf |-> IF i \in br..(br + n * SS - 1)
                        THEN medium[socket][sect + (i - br) \div SS][(i - br) % SS]
                        ELSE buf[i]]
WriteSectors_stuck(sect, n) ==
  [s \in DOMAIN medium[socket] |->
     IF s \in sect..(sect + n - 1) THEN [i \in Offsets |-> buf[i]] ELSE medium[socket][s]]
WriteSectors(sect, n) ==
  [s \in DOMAIN medium[socket] |->
     IF s \in sect..(sect + n - 1)
     THEN [i \in Offsets |-> buf[br + (s - sect) * SS + i]] ELSE medium[socket][s]]

Moved(fp, n) ==
  /\ file1' = [fp EXCEPT !.fptr = @ + n]
  /\ br' = br + n /\ btr' = btr - n

\* disk_read or disk_write of n sectors: one that fails has moved some of them.
Direct(fp, n, ok) ==
  /\ \E done \in (IF ok THEN {n} ELSE IF ready THEN 0..n ELSE {0}) :
       IF done = 0 THEN UNCHANGED <<medium, buf>>
       ELSE IF req.wr
       THEN /\ medium' = [medium EXCEPT ![socket] = WriteSectors(fp.curr_sect, done)]
            /\ UNCHANGED buf
       ELSE /\ done = n => ok
            /\ buf' = ReadSectors(fp.curr_sect, done)
            /\ UNCHANGED medium
  /\ IF ok
     THEN /\ Moved([fp EXCEPT !.sect_clust = @ - (n - 1), !.curr_sect = @ + n - 1], n * SS)
          /\ UNCHANGED <<result, pc>>
     ELSE Fail(fp) /\ UNCHANGED <<br, btr>>

\* The odd bytes at the end go through the window, a write's like a read's.
Windowed(fp, w) ==
  LET rcnt == Min({SS - (fp.fptr % SS), btr})
  IN IF w.ok
     THEN /\ buf' = [i \in DOMAIN buf |-> IF i \in br..(br + rcnt - 1)
                                          THEN w.win[(fp.fptr % SS) + i - br] ELSE buf[i]]
          /\ Moved(fp, rcnt) /\ UNCHANGED <<result, pc>>
     ELSE Fail(fp) /\ UNCHANGED <<buf, br, btr>>

\* One turn of f_read_or_wr's loop.
Transfer ==
  /\ pc = "transfer" /\ btr > 0
  /\ \E k \in Answers :
       LET n == NextSector(Window(k))
           direct == file1.fptr % SS = 0 /\ btr >= SS
           w == IF n.ok /\ ~direct THEN move_window(n.w, n.fp.curr_sect) ELSE n.w
           ok == n.ok /\ IF direct THEN w.left > 0 ELSE w.ok
       IN /\ Use(w) /\ Blame(ok)
          /\ \/ ~n.ok /\ Fail(n.fp) /\ UNCHANGED <<medium, buf, br, btr>>
             \/ n.ok /\ direct /\ Direct(n.fp, Run(n.fp), ok)
             \/ n.ok /\ ~direct /\ Windowed(n.fp, w) /\ UNCHANGED medium
  /\ UNCHANGED <<socket, ready, STA_NOINIT, fsid, selVars, req, clust, ofs, before, requests, swaps>>

Finish ==
  /\ pc = "transfer" /\ btr = 0
  /\ pc' = "report"
  /\ UNCHANGED <<cardVars, fsVars, selVars, file1, reqVars, faults, swaps>>

\* Between requests the locals are out of scope, and zeros stand for whatever
\* the buffer holds.
Report ==
  /\ pc = "report"
  /\ pc' = IF result = "RW_ERROR" THEN "mount" ELSE "serve"
  /\ req' = NoRequest /\ clust' = 0 /\ ofs' = 0 /\ btr' = 0 /\ br' = 0
  /\ result' = "OK" /\ buf' = Zeros(BLOCK) /\ before' = Zeros(BLOCK)
  /\ UNCHANGED <<cardVars, fsVars, selVars, file1, requests, faults, swaps>>

-----------------------------------------------------------------------------
(* The card.                                                               *)

CardOut ==
  /\ socket \in Cards /\ swaps < MaxSwaps
  /\ socket' = "none" /\ ready' = FALSE /\ swaps' = swaps + 1
  /\ UNCHANGED <<medium, fsVars, selVars, file1, pc, reqVars, faults>>

CardIn ==
  /\ socket = "none"
  /\ socket' \in Cards
  /\ UNCHANGED <<ready, medium, fsVars, selVars, file1, pc, reqVars, faults, swaps>>

Firmware == \/ Mount \/ AutoMount \/ OpenDir \/ NextFile \/ f_open
            \/ PollFails \/ Browse \/ Select \/ Request
            \/ Follow \/ Arrive \/ Begin \/ Transfer \/ Finish \/ Report

FatNext == Firmware \/ CardOut \/ CardIn
FatSpec == FatInit /\ [][FatNext]_fatVars

\* The firmware's loop runs, and a card that was taken out is put back.
FatFairSpec == FatSpec /\ WF_fatVars(Firmware) /\ WF_fatVars(CardIn)

-----------------------------------------------------------------------------
(* Properties.                                                             *)

\* Bytes of the request that lie in the file.
Asked == {i \in 0..(BLOCK - 1) : req.blk * BLOCK + i \in 0..(file1.fsize - 1)}
At(i) == Place(opened[1], opened[2], req.blk * BLOCK + i)

\* Every variable has its type, and the file position stays within the file.
FatTypeOK ==
  /\ socket \in Cards \cup {"none"} /\ ready \in BOOLEAN /\ STA_NOINIT \in BOOLEAN
  /\ \A c \in Cards : medium[c] \in [DOMAIN Contents[c] -> [Offsets -> Byte]]
  /\ fs.vol \in {Volume[c] : c \in Cards} \cup {NoVolume}
  /\ {fs.id, fsid, file1.id} \subseteq 0..(ID_MOD - 1)
  /\ win \in [Offsets -> Byte] /\ buf \in [0..(BLOCK - 1) -> Byte]
  /\ first \in {0, 1} /\ imagefile \in Files \cup {-1}
  /\ file1.fptr \in 0..file1.fsize /\ file1.sect_clust \in Byte
  /\ {btr, br} \subseteq 0..BLOCK /\ ofs \in Nat
  /\ result \in {"OK", "RW_ERROR", "INVALID"}

\* The window is never stale: what it says it holds of the initialised card in
\* the socket is what that sector holds now, although writes go past the window.
WindowCoherent == ready /\ fs.winsect # 0 => win = medium[socket][fs.winsect]

\* Every variable has its type; and f_lseek and f_read_or_wr agree on the
\* position: between two turns the file object is in the cluster and sector of
\* the byte before fptr and knows how many sectors of the cluster are left.
PositionMatches ==
  FatTypeOK /\ (pc \in {"read", "transfer"} =>
    IF file1.fptr = 0 THEN file1.sect_clust = 1
    ELSE LET p  == file1.fptr - 1
             cs == fs.vol.sects_clust * SS
         IN /\ file1.curr_sect = Place(opened[1], opened[2], p)[1]
            /\ file1.curr_clust = Chain[opened[1]][opened[2]][p \div cs + 1]
            /\ file1.sect_clust = fs.vol.sects_clust - (p % cs) \div SS)

ReadsFile ==
  \A i \in DOMAIN buf :
    buf[i] = IF i \in Asked THEN medium[opened[1]][At(i)[1]][At(i)[2]] ELSE before[i]

WritesFile ==
  \A i \in Asked : req.blk * BLOCK + i < (file1.fsize \div SS) * SS =>
    medium[opened[1]][At(i)[1]][At(i)[2]] = before[i]

\* A request that reports success was done, through any chain of clusters: a
\* read has put the image's bytes at the position asked for into the buffer and
\* left the rest of the buffer alone; a write has put the buffer's bytes there,
\* except for the odd bytes that end an image (the line at 962 reads them).
OkIsDone ==
  pc = "report" /\ result = "OK" => IF req.wr THEN WritesFile ELSE ReadsFile

\* The cards change only under a write, in bytes the request asked for, of the
\* file that was opened, on the card it was opened on, and to the bytes sent.
WritesInPlace ==
  [][medium' # medium =>
     \A c \in Cards : \A s \in DOMAIN medium[c] : \A j \in Offsets :
       medium'[c][s][j] # medium[c][s][j] =>
         /\ req.wr /\ c = opened[1]
         /\ \E i \in Asked : At(i) = <<s, j>> /\ medium'[c][s][j] = before[i]]_fatVars

\* With a card in its socket the firmware always gets back to serving it,
\* whatever image was selected before.
Recovers == []<>(socket = "none" \/ pc = "serve")
=============================================================================
