------------------------------- MODULE Slave --------------------------------
(***************************************************************************)
(* The 6502 firmware's request loop, src/firmware/floppysrc/slave.c, with  *)
(* the start of main.c.  It polls the controller's request port, serves    *)
(* the request through the sector buffer, and answers in the status port.  *)
(* An action runs up to the next access to a port, the buffer or the card. *)
(***************************************************************************)
EXTENDS Integers

CONSTANTS SECTOR_SIZE, FDD_NSIDES, FDD_NSECTORS, NBLOCKS,
          Images        \* the .FDD files on the card

VARIABLES
  MASTER_COMMAND, MASTER_TRACK, MASTER_SECTOR,   \* read: the controller's ports
  SLAVE_STATUS,      \* written: the status port
  buffer,            \* the sector buffer at $0200
  pc, cmd,
  result,
  t1,                \* the local variable that holds the drive bit
  blk,               \* the position fdd_seek computed
  imagefile,         \* the file the menu has chosen
  disk,              \* contents of every image file
  card               \* is the SD card in its socket

Fdd == INSTANCE FddImage

fwVars == <<SLAVE_STATUS, buffer, pc, cmd, result, t1, blk, imagefile, disk>>

Pcs == {"main", "thrall", "mount", "slave", "poll", "dispatch", "seek", "io",
        "report", "exit", "away", "hung"}

\* Halves of a sector: the card is written 512 bytes at a time, so a failing
\* transfer may have moved the first half already.
Half(new, old) == [i \in DOMAIN old |-> IF 2 * i < SECTOR_SIZE THEN new[i] ELSE old[i]]

\* SLAVE_STATUS = 0 before the image is mounted, main.c.
Main ==
  /\ pc = "main"
  /\ SLAVE_STATUS' = {}
  /\ pc' = "thrall"
  /\ UNCHANGED <<buffer, cmd, result, t1, blk, imagefile, disk>>

Thrall ==
  /\ pc = "thrall"
  /\ SLAVE_STATUS' = {"DRVNOTRDY"}
  /\ pc' = "mount"
  /\ UNCHANGED <<buffer, cmd, result, t1, blk, imagefile, disk>>

\* Mount the card, open the image and load it.
Mount ==
  /\ pc = "mount"
  /\ pc' = IF card THEN "slave" ELSE "away"
  /\ UNCHANGED <<SLAVE_STATUS, buffer, cmd, result, t1, blk, imagefile, disk>>

\* result and t1 are not initialised: the loop may not run at all, and the
\* first WRITE may believe any drive.
SlaveEntry ==
  /\ pc = "slave"
  /\ SLAVE_STATUS' = {}
  /\ pc' \in {"poll", "exit"}
  /\ t1' \in {0, 2}
  /\ UNCHANGED <<buffer, cmd, result, blk, imagefile, disk>>

\* disk_poll, then the fetch of the request.
Poll ==
  /\ pc = "poll"
  /\ \/ ~card /\ pc' = "exit" /\ UNCHANGED <<cmd, result>>
     \/ card /\ pc' = "dispatch" /\ cmd' = MASTER_COMMAND /\ result' = "OK"
  /\ UNCHANGED <<SLAVE_STATUS, buffer, t1, blk, imagefile, disk>>

DispatchWork ==
  /\ pc = "dispatch" /\ cmd.op \in {"READ", "READADDR", "WRITE", "NOP"}
  /\ SLAVE_STATUS' = {"BUSY"}
  /\ pc' = IF cmd.op = "NOP" THEN "report" ELSE "seek"
  /\ UNCHANGED <<buffer, cmd, result, t1, blk, imagefile, disk>>

DispatchAck_silent ==
  /\ pc = "dispatch" /\ cmd.op = "ACK"
  /\ pc' = "poll"
  /\ UNCHANGED <<SLAVE_STATUS, buffer, cmd, result, t1, blk, imagefile, disk>>
DispatchAck ==
  /\ pc = "dispatch" /\ cmd.op = "ACK"
  /\ SLAVE_STATUS' = {}
  /\ pc' = "poll"
  /\ UNCHANGED <<buffer, cmd, result, t1, blk, imagefile, disk>>

\* The controller died: print what it left in its registers and hang.
DispatchFail ==
  /\ pc = "dispatch" /\ cmd.op = "FAIL"
  /\ SLAVE_STATUS' = {}
  /\ pc' = "hung"
  /\ UNCHANGED <<buffer, cmd, result, t1, blk, imagefile, disk>>

\* Nothing to do: run the menu, where the user may choose another image.
DispatchIdle ==
  /\ pc = "dispatch" /\ cmd.op = "NONE"
  /\ SLAVE_STATUS' = {}
  /\ \/ pc' = "poll" /\ UNCHANGED imagefile
     \/ pc' = "away" /\ imagefile' \in Images \ {imagefile}
  /\ UNCHANGED <<buffer, cmd, result, t1, blk, disk>>

\* READ and READADDR take the drive bit of this request, WRITE the bit the
\* last of them left in t1.
Seek ==
  /\ pc = "seek"
  /\ t1' = IF cmd.op = "WRITE" THEN t1 ELSE 2 * cmd.drive
  /\ IF t1' = 0
     THEN /\ blk' = Fdd!calc_offset(cmd.side, MASTER_TRACK, MASTER_SECTOR)
          /\ buffer' = IF cmd.op = "READADDR"
                       THEN Fdd!fdd_readadr(buffer, cmd.side, MASTER_TRACK, MASTER_SECTOR)
                       ELSE buffer
          /\ pc' = IF cmd.op = "READADDR" THEN "report" ELSE "io"
          /\ UNCHANGED result
     ELSE /\ result' = "INVALID_DRIVE"
          /\ pc' = "report"
          /\ UNCHANGED <<blk, buffer>>
  /\ UNCHANGED <<SLAVE_STATUS, cmd, imagefile, disk>>

ReadImage_blind ==
  /\ pc = "io" /\ cmd.op = "READ"
  /\ buffer' \in IF card THEN {Fdd!fdd_readsector(disk[imagefile], blk, buffer)} ELSE {buffer}
  /\ pc' = "report"
  /\ UNCHANGED <<SLAVE_STATUS, cmd, result, t1, blk, imagefile, disk>>
ReadImage ==
  /\ pc = "io" /\ cmd.op = "READ"
  /\ LET got == Fdd!fdd_readsector(disk[imagefile], blk, buffer)
     IN IF card
        THEN buffer' = got /\ UNCHANGED result
        ELSE result' = "RW_ERROR" /\ buffer' \in {buffer, Half(got, buffer)}
  /\ pc' = "report"
  /\ UNCHANGED <<SLAVE_STATUS, cmd, t1, blk, imagefile, disk>>

WriteImage ==
  /\ pc = "io" /\ cmd.op = "WRITE"
  /\ LET new == Fdd!fdd_writesector(disk[imagefile], blk, buffer)
         old == disk[imagefile]
     IN IF card
        THEN disk' = [disk EXCEPT ![imagefile] = new] /\ UNCHANGED result
        ELSE /\ result' = "RW_ERROR"
             /\ disk' \in {disk, [disk EXCEPT ![imagefile] =
                                    [b \in DOMAIN old |-> Half(new[b], old[b])]]}
  /\ pc' = "report"
  /\ UNCHANGED <<SLAVE_STATUS, buffer, cmd, t1, blk, imagefile>>

\* NOP completes without SUCCESS; READADDR never reports CRC.
Report ==
  /\ pc = "report"
  /\ SLAVE_STATUS' =
       {"COMPLETE"} \cup (IF result = "OK" /\ cmd.op # "NOP" THEN {"SUCCESS"} ELSE {})
                    \cup (IF result = "RW_ERROR" THEN {"CRC"} ELSE {})
  /\ pc' = IF result = "RW_ERROR" THEN "exit" ELSE "poll"
  /\ UNCHANGED <<buffer, cmd, result, t1, blk, imagefile, disk>>

Exit ==
  /\ pc = "exit"
  /\ SLAVE_STATUS' = {}
  /\ pc' = "away"
  /\ UNCHANGED <<buffer, cmd, result, t1, blk, imagefile, disk>>

\* Back in thrall: the menu is up for a while, then the card is remounted.
Away ==
  /\ pc = "away"
  /\ SLAVE_STATUS' = {"DRVNOTRDY"}
  /\ pc' = "mount"
  /\ UNCHANGED <<buffer, cmd, result, t1, blk, imagefile, disk>>

Step == \/ Main \/ Thrall \/ Mount \/ SlaveEntry \/ Poll
        \/ DispatchWork \/ DispatchAck \/ DispatchFail \/ DispatchIdle
        \/ Seek \/ ReadImage \/ WriteImage \/ Report \/ Exit \/ Away
=============================================================================
