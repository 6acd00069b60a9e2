------------------------------- MODULE Floppy -------------------------------
(***************************************************************************)
(* The floppy drive emulator, src/src/floppy/floppy.v: the WD1793 front    *)
(* end and the 6502 firmware around one sector buffer, and a host program  *)
(* on the other side.                                                      *)
(*                                                                         *)
(* Clocks are explicit.  A step of the firmware takes at least CPU_GAP     *)
(* clocks in which the controller lets the 6502 run; the controller reacts *)
(* to everything in the clock it happens.  The host is not part of the     *)
(* repository: it is any program that polls the status register, sets the  *)
(* sector, the drive and the side while the controller is not busy, issues *)
(* a command and moves the bytes DRQ asks for, as slowly as it likes.  It  *)
(* starts, as a boot loader does, with RESTORE.                            *)
(***************************************************************************)
EXTENDS WD1793, Integers, SequencesExt

CONSTANTS
  FDD_NSIDES, FDD_NSECTORS, NBLOCKS, Images,
  CPU_GAP,       \* clocks between two accesses of the firmware, at least
  HostSectors,   \* the sector numbers the host asks for
  HostTracks,    \* and the tracks it seeks
  Original(_, _, _),  \* byte i of sector b of image f at first, as f, b and i
  Written(_, _),      \* byte i of the host's n-th command, as n and i
  Patience,      \* how hosts may wait before a command: "finish", until the
                 \* controller is READY; "poll", until BUSY is down; "none"
  AbortOf,       \* the commands the host may interrupt with $D0
  MaxCommands,   \* commands the host issues in all
  Faults,        \* of "card" (pulled out), "F11" (host reset), "KEY0" (board reset)
  MaxFaults      \* these happen at most so often

ASSUME GeometryAssumption ==
  /\ FDD_NSIDES \in Nat \ {0} /\ FDD_NSECTORS \in Nat \ {0} /\ NBLOCKS \in Nat \ {0}
  /\ CPU_GAP \in Nat /\ HostSectors \cup HostTracks \subseteq Byte
  /\ Images # {} /\ 3 \in Byte /\ MaxCommands \in Nat
  /\ \A f \in Images, b \in 0..(NBLOCKS - 1), i \in 0..(SECTOR_SIZE - 1) :
       Original(f, b, i) \in Byte
  /\ \A n \in 0..MaxCommands, i \in 0..(SECTOR_SIZE + 1) : Written(n, i) \in Byte

\* The controller needs two clocks from the answer to the moment it stops the
\* 6502; the loop from one access to the next takes the 6502 tens of them.
ASSUME GapAssumption == CPU_GAP >= 3

VARIABLES
  buffer, pc, cmd, result, t1, blk, imagefile, disk, card,   \* the firmware's
  gap,           \* clocks the 6502 has run since its last access, up to CPU_GAP
  patience,      \* host: how it waits
  hpc,           \* host: "boot", "ready", "issued", "run", "fetch", "in", "out"
  hcmd,          \* host: the command it waits for, or "NONE"
  hwant,         \* host: the sector addressed when it issued the command
  hbytes,        \* host: the bytes moved for that command
  hold,          \* host: clocks it is still busy with an IN or an OUT
  late,          \* history: the watchdog took a byte from the host
  expected,      \* history: what the image held there at the command
  asked, fetched, answered,  \* history: which request is up, served, answered
  commands, faults   \* counted against the bounds

Fw  == INSTANCE Slave WITH MASTER_COMMAND <- oCPU_REQUEST, MASTER_TRACK <- disk_track,
                           MASTER_SECTOR <- wdstat_sector, SLAVE_STATUS <- iCPU_STATUS
Fdd == INSTANCE FddImage

fwState   == <<buffer, pc, cmd, result, t1, blk, imagefile, disk>>
hostState == <<patience, hpc, hcmd, hwant, hbytes, hold, expected, commands>>
history   == <<late, asked, fetched, answered>>
sysVars   == <<wdVars, iCPU_STATUS, fwState, card, gap, hostState, history, faults>>

SysInit ==
  /\ Init /\ iCPU_STATUS = {}
  /\ buffer = [i \in 0..(SECTOR_SIZE - 1) |-> 0]
  /\ pc = "main" /\ cmd = NoRequest /\ result = "OK" /\ t1 = 0 /\ blk = 0
  /\ imagefile = CHOOSE x \in Images : TRUE
  /\ disk = [f \in Images |-> [b \in Fdd!Blocks |-> [i \in 0..(SECTOR_SIZE - 1) |->
                                 Original(f, b, i)]]]
  /\ card = TRUE /\ gap = 0
  /\ hpc = "boot" /\ hcmd = "NONE" /\ hwant = 0 /\ hbytes = <<>> /\ hold = 0
  /\ expected = <<>> /\ late = FALSE
  /\ asked = 0 /\ fetched = 0 /\ answered = 0
  /\ commands = 0 /\ faults = 0 /\ patience \in Patience

-----------------------------------------------------------------------------
(* One clock of the board.                                                 *)

\* The 6502's enable: it stands still while the controller uses the buffer.
Running == ~buff_rd /\ ~buff_wr

\* Only a command being dispatched looks at the data bus.  It then carries
\* whatever the host is doing, except in the clock after the OUT, where it
\* carries the 8080's status word, which has bit 6 clear.
StepBus == IF state = "READY" /\ wdstat_pending /\ hpc # "issued" THEN BusDirs ELSE {"KEEP"}

\* op is the host's bus cycle of this clock.
BoardClock(op) ==
  /\ \E dir \in StepBus : Tick(op, dir, buffer[buff_addr])
  /\ buffer' = IF buff_wr THEN [buffer EXCEPT ![buff_addr] = wdstat_datareg] ELSE buffer
  /\ gap' = IF Running /\ gap < CPU_GAP THEN gap + 1 ELSE gap
  /\ late' = (~NewCommand(op) /\ (late \/ (state = "READSECT" /\ bark)))
  /\ asked' = IF oCPU_REQUEST'.op \in WorkRequests /\ oCPU_REQUEST' # oCPU_REQUEST
              THEN asked + 1 ELSE asked
  /\ UNCHANGED <<iCPU_STATUS, pc, cmd, result, t1, blk, imagefile, disk, card,
                 fetched, answered, faults>>

FirmwareStep ==
  /\ Running /\ gap = CPU_GAP
  /\ gap' = 0
  /\ Fw!Step
  /\ fetched' = IF pc = "poll" THEN asked ELSE fetched
  /\ answered' = IF pc = "report" THEN fetched ELSE answered
  /\ UNCHANGED <<wdVars, card, hostState, late, asked, faults>>

-----------------------------------------------------------------------------
(* The host.                                                               *)

Wait ==
  /\ hpc \notin {"in", "out"}
  /\ BoardClock(NoOp)
  /\ hpc' = IF hpc = "issued" THEN "run" ELSE hpc
  /\ UNCHANGED <<patience, hcmd, hwant, hbytes, hold, expected, commands>>

NotBusy == /\ patience = "none" \/ ~StatusBusy
           /\ patience = "finish" => state = "READY"

\* The head is on track MaxByte after a reset.
Boot ==
  /\ hpc = "boot" /\ NotBusy
  /\ BoardClock([kind |-> "wr_cmd", cmd |-> "RESTORE"])
  /\ hpc' = "issued" /\ hcmd' = "RESTORE"
  /\ UNCHANGED <<patience, hwant, hbytes, hold, expected, commands>>

\* Set up the next command.
Select ==
  /\ hpc = "ready" /\ NotBusy /\ commands < MaxCommands
  /\ \E op \in [kind : {"wr_sector"}, v : HostSectors]
               \cup [kind : {"wr_data"}, v : HostTracks]
               \cup [kind : {"wr_ctl2"}, side : HostSides, drive : HostDrives] :
       BoardClock(op)
  /\ UNCHANGED hostState

\* Drive 0 holds the image; the host addresses no block on drive 1.
Addressed == IF wdstat_drive = 0
             THEN Fdd!calc_offset(wdstat_side, disk_track, wdstat_sector) ELSE -1
SectorAt(b) == IF b \in Fdd!Blocks
               THEN [i \in 1..SECTOR_SIZE |-> disk[imagefile][b][i - 1]] ELSE <<>>
AddressField == <<disk_track, wdstat_side, wdstat_sector, 3, 0, 0>>

Issue ==
  /\ hpc = "ready" /\ NotBusy /\ commands < MaxCommands
  /\ \E c \in HostCommands \ {"FORCEINT"} :
       /\ BoardClock([kind |-> "wr_cmd", cmd |-> c])
       /\ hcmd' = c
       /\ hwant' = Addressed
       /\ expected' = IF c = "READADDR" THEN AddressField ELSE SectorAt(Addressed)
  /\ hpc' = "issued" /\ hbytes' = <<>> /\ hold' = 0
  /\ commands' = commands + 1
  /\ UNCHANGED patience

\* A status read, between two clocks.
SeeDrq ==
  /\ hpc = "run" /\ StatusDrq /\ hcmd \in {"READ", "READADDR", "WRITE"}
  /\ hpc' = "fetch"
  /\ UNCHANGED <<wdVars, iCPU_STATUS, fwState, card, gap, patience, hcmd, hwant, hbytes, hold,
                 expected, commands, history, faults>>

SeeDone ==
  /\ hpc = "run" /\ NotBusy
  /\ hpc' = "ready" /\ hcmd' = "NONE"
  /\ UNCHANGED <<wdVars, iCPU_STATUS, fwState, card, gap, patience, hwant, hbytes, hold,
                 expected, commands, history, faults>>

\* The host's bytes; those beyond a sector and one more are not told apart.
Keep(v) == hbytes' = IF Len(hbytes) > SECTOR_SIZE THEN hbytes ELSE Append(hbytes, v)

\* IN: the 8080 samples the byte in the first of the three clocks that rd is up.
In ==
  /\ hpc = "fetch" /\ hcmd # "WRITE"
  /\ BoardClock(ReadOp)
  /\ Keep(wdstat_datareg)
  /\ hold' = 2 /\ hpc' = "in"
  /\ UNCHANGED <<patience, hcmd, hwant, expected, commands>>

\* The controller is through with a byte from the host before the 8080 can get
\* to its next bus cycle.
Hold ==
  /\ hpc \in {"in", "out"}
  /\ BoardClock(IF hpc = "in" THEN ReadOp ELSE NoOp)
  /\ hold' = hold - 1 /\ hpc' = IF hold = 1 THEN "run" ELSE hpc
  /\ UNCHANGED <<patience, hcmd, hwant, hbytes, expected, commands>>

Out ==
  /\ hpc = "fetch" /\ hcmd = "WRITE"
  /\ LET v == Written(commands, Len(hbytes))
     IN BoardClock([kind |-> "wr_data", v |-> v]) /\ Keep(v)
  /\ hold' = 2 /\ hpc' = "out"
  /\ UNCHANGED <<patience, hcmd, hwant, expected, commands>>

Interrupt ==
  /\ hpc \in {"run", "fetch"} /\ hcmd \in AbortOf
  /\ BoardClock([kind |-> "wr_cmd", cmd |-> "FORCEINT"])
  /\ hpc' = "issued" /\ hcmd' = "FORCEINT"
  /\ UNCHANGED <<patience, hwant, hbytes, hold, expected, commands>>

Fault(kind) == kind \in Faults /\ faults < MaxFaults /\ faults' = faults + 1

\* F11 restarts the host program and nothing else.
HostReset ==
  /\ Fault("F11")
  /\ hpc' = "boot" /\ hcmd' = "NONE" /\ hold' = 0
  /\ UNCHANGED <<wdVars, iCPU_STATUS, fwState, card, gap, patience, hwant, hbytes, expected,
                 commands, history>>

-----------------------------------------------------------------------------
(* The card and the reset key.                                             *)

\* KEY0 restarts host, controller and 6502; the status port keeps its value
\* until the firmware writes it.
KeyReset ==
  /\ Fault("KEY0")
  /\ Reset
  /\ pc' = "main" /\ gap' = 0
  /\ hpc' = "boot" /\ hcmd' = "NONE" /\ hold' = 0
  /\ UNCHANGED <<iCPU_STATUS, buffer, cmd, result, t1, blk, imagefile, disk, card,
                 patience, hwant, hbytes, expected, commands, history>>

CardOut == card /\ card' = FALSE /\ Fault("card")
CardIn  == ~card /\ card' = TRUE /\ UNCHANGED faults
Card    == /\ CardOut \/ CardIn
           /\ UNCHANGED <<wdVars, iCPU_STATUS, fwState, gap, hostState, history>>

Host == Boot \/ Select \/ Issue \/ SeeDrq \/ SeeDone \/ In \/ Hold \/ Out \/ Interrupt

SysNext == Wait \/ Host \/ HostReset \/ FirmwareStep \/ KeyReset \/ Card
SysSpec == SysInit /\ [][SysNext]_sysVars

\* The clock runs; the firmware takes its steps; a host that waits for a
\* command keeps polling and moves the bytes it is asked for; a removed card
\* is put back.  slave() tests a result nobody has set, so that the loop is
\* entered at all is an assumption too.
EnterLoop == FirmwareStep /\ pc = "slave" /\ pc' = "poll"
Fairness ==
  /\ WF_sysVars(Wait) /\ WF_sysVars(FirmwareStep) /\ SF_sysVars(EnterLoop)
  /\ WF_sysVars(Boot) /\ WF_sysVars(SeeDrq) /\ WF_sysVars(SeeDone)
  /\ WF_sysVars(In) /\ WF_sysVars(Hold) /\ WF_sysVars(Out)
  /\ WF_sysVars(Card /\ CardIn)
FairSpec == SysSpec /\ Fairness

-----------------------------------------------------------------------------
(* Properties.                                                             *)

\* Every variable of the board, the firmware and the host has its type.
SysTypeOK ==
  /\ TypeOK
  /\ buffer \in [0..(SECTOR_SIZE - 1) -> Byte]
  /\ disk \in [Images -> [Fdd!Blocks -> [0..(SECTOR_SIZE - 1) -> Byte]]]
  /\ pc \in Fw!Pcs /\ cmd \in Requests /\ result \in {"OK", "INVALID_DRIVE", "RW_ERROR"}
  /\ t1 \in {0, 2} /\ blk \in Int /\ imagefile \in Images /\ card \in BOOLEAN
  /\ gap \in 0..CPU_GAP
  /\ hpc \in {"boot", "ready", "issued", "run", "fetch", "in", "out"}
  /\ hcmd \in Commands \cup {"NONE"} /\ hold \in 0..2

ReadsInOrder ==
  hcmd \in {"READ", "READADDR"} /\ ~late /\ expected # <<>> =>
    IsPrefix(hbytes, expected)

ReadIsWhole ==
  hcmd = "READ" /\ hpc = "run" /\ state = "READY" /\ ~StatusBusy /\ ~late =>
    Len(hbytes) = SECTOR_SIZE \/ s_seekerr

\* What a READ or READ ADDRESS hands to the host, byte by byte and in order, is
\* the sector (the address) the host selected when it gave the command: not
\* the one before, not the next one, not a mixture of two disks.  A READ that
\* ends without an error bit has delivered the whole of it.
ReadDelivers == SysTypeOK /\ ReadsInOrder /\ ReadIsWhole

\* The image changes only in the sector the host addressed when it gave the
\* WRITE, and only to the bytes it sent (a card pulled out of its socket may
\* leave the second half unwritten).
WriteLands ==
  [][\A f \in Images, b \in Fdd!Blocks : disk'[f][b] # disk[f][b] =>
       /\ b = hwant /\ Len(hbytes) = SECTOR_SIZE
       /\ \A i \in 0..(SECTOR_SIZE - 1) :
            disk'[f][b][i] \in {hbytes[i + 1], disk[f][b][i]}]_sysVars

WaitStates == {"WAIT_CPUREAD", "WAIT_CPUWRITE", "WAIT_CPU"}

\* The answer the controller acts on is the answer to the request it made, and
\* not what the status port still shows of an earlier one.  KEY0 leaves the port as
\* it is until the firmware has begun.
NoStaleAnswer ==
  state \in WaitStates /\ "COMPLETE" \in iCPU_STATUS /\ pc # "main" => answered = asked

\* The firmware touches the sector buffer only while the controller waits for
\* it to be filled: never under bytes on their way to or from the host.
BufferGuarded ==
  [][buffer' # buffer /\ pc' # pc => state = "WAIT_CPUREAD"]_sysVars

\* A host that polls BUSY before every command never overruns the controller.
NeverDead == patience # "none" => state # "DEAD"

\* A step command moves the head the way the command says.
StepObeys ==
  [][state = "READY" /\ state' = "WAIT_CPU" /\ disk_track \in 1..(MaxByte - 1) =>
       /\ wdstat_command \in {"STEP_OUT", "STEP_OUT_U"} => disk_track' = disk_track - 1
       /\ wdstat_command \in {"STEP_IN", "STEP_IN_U"} => disk_track' = disk_track + 1]_sysVars

\* A host that overruns the controller gets its failure report on the screen:
\* the firmware, which alone can print it, sees the FAIL request, unless the
\* controller died holding the buffer and stopped the 6502 with it.
FailureReported == (state = "DEAD" /\ ~buff_rd) ~> (pc = "hung")

\* Every command the host gives ends.
EveryCommandEnds == (hcmd # "NONE") ~> (hcmd = "NONE")

\* So does $D0: "Abort current command ($D0) -> STATE_READY".
AbortEnds == (hcmd = "FORCEINT") ~> (hcmd = "NONE")
=============================================================================
