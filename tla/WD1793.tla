------------------------------- MODULE WD1793 -------------------------------
(***************************************************************************)
(* The floppy controller front end src/src/floppy/wd1793.v: the registers  *)
(* the Vector-06C host sees, the state machine that turns a command into a *)
(* request to the 6502 firmware, and the byte by byte transfer between the *)
(* host and the sector buffer.                                             *)
(*                                                                         *)
(* One action is one enabled clock (clken).  The always block runs the     *)
(* register writes first and the state machine after them, so where both   *)
(* assign a register the state machine wins: BusX operators give what a    *)
(* host write alone leaves in X, and an action overrides them.             *)
(*                                                                         *)
(* A clock takes the host's bus cycle (op), what the data bus says of the  *)
(* step direction while a step is dispatched (dir), and the buffer RAM's   *)
(* output (din).  Left out: the head-loaded, index and track-0 bits of the *)
(* status, READ's E and C flags, and the diagnostic number boo.            *)
(*                                                                         *)
(* X_word is a wrong X a slip in the code could have made; the properties  *)
(* are tested against it.                                                  *)
(***************************************************************************)
EXTENDS Naturals

CONSTANTS
  SECTOR_SIZE,     \* bytes of a sector, and of the buffer: 1024 in the source
  READADDR_LEN,    \* bytes READ ADDRESS returns: 6 in the source
  READ_TIME,       \* clocks READ_3 waits before DRQ: 15 in the source
  WATCHDOG_TIME,   \* clocks a byte waits for the host: 2048 in the source
  MaxByte,         \* registers are 0..MaxByte and wrap: 255 in the source
  HostCommands,    \* the commands the host's programs issue,
  HostBytes,       \* the bytes they write,
  HostDrives,      \* the drives
  HostSides        \* and the sides they select

ASSUME SizeAssumption ==
  /\ SECTOR_SIZE \in Nat \ {0}
  /\ READADDR_LEN \in 1..SECTOR_SIZE
  /\ READ_TIME \in Nat
  /\ WATCHDOG_TIME \in Nat
  /\ MaxByte \in Nat

Byte  == 0..MaxByte
Bit   == {0, 1}

States == {"READY", "WAIT_CPUREAD", "WAIT_CPU", "ABORT", "READ_2", "READ_3",
           "WAIT_CPUWRITE", "READ_1", "WRITE_1", "WRITE_2", "WRITESECT",
           "READSECT", "ENDCOMMAND2", "ENDCOMMAND", "DEAD"}

StepCommands == {"STEP", "STEP_U", "STEP_IN", "STEP_IN_U", "STEP_OUT", "STEP_OUT_U"}
TypeI        == {"RESTORE", "SEEK"} \cup StepCommands
Commands     == TypeI \cup {"READ", "WRITE", "READADDR", "TRACK", "FORCEINT"}

ASSUME HostAssumption ==
  /\ HostCommands \subseteq Commands
  /\ HostBytes \subseteq Byte
  /\ HostDrives \subseteq Bit /\ HostSides \subseteq Bit

\* The values the firmware ever puts in the status port, as sets of flags.
StatusWords == {{}, {"DRVNOTRDY"}, {"BUSY"}, {"COMPLETE"},
                {"COMPLETE", "SUCCESS"}, {"COMPLETE", "CRC"}}

Request(o, d, s) == [op |-> o, drive |-> d, side |-> s]
Requests == [op : {"NONE", "READ", "WRITE", "READADDR", "NOP", "ACK", "FAIL"},
             drive : Bit, side : Bit]
NoRequest == Request("NONE", 0, 0)
Ack       == Request("ACK", 0, 0)

\* What a host bus cycle asks of the controller.  A status read changes
\* nothing here, so it is not an operation.
NoOp    == [kind |-> "none"]
ReadOp  == [kind |-> "rd_data"]
HostOps == {NoOp, ReadOp}
           \cup [kind : {"wr_track", "wr_sector", "wr_data"}, v : HostBytes]
           \cup [kind : {"wr_ctl2"}, side : HostSides, drive : HostDrives]
           \cup [kind : {"wr_cmd"}, cmd : HostCommands]

\* idata[6:5] as the step logic reads it: "KEEP" is idata[6] = 0.
BusDirs == {"KEEP", "IN", "OUT"}

VARIABLES
  wdstat_track, wdstat_sector, wdstat_datareg, wdstat_command, wdstat_pending,
  wdstat_stepdirection, wdstat_side, wdstat_drive,
  disk_track, data_rdlength, buff_addr, buff_rd, buff_wr,
  oCPU_REQUEST, iCPU_STATUS, state, cmd_mode, s_drq_busy,
  s_ready, s_seekerr, s_crcerr, s_lostdata, s_wrfault,
  read_timer, watchdog

hostRegs  == <<wdstat_track, wdstat_sector, wdstat_datareg, wdstat_side, wdstat_drive>>
cmdRegs   == <<wdstat_command, wdstat_pending, cmd_mode>>
headRegs  == <<wdstat_stepdirection, disk_track>>
xferRegs  == <<data_rdlength, buff_addr, buff_rd, read_timer, watchdog>>
errRegs   == <<s_seekerr, s_crcerr, s_lostdata, s_wrfault>>
wdVars    == <<hostRegs, cmdRegs, headRegs, xferRegs, errRegs, buff_wr, s_ready,
               oCPU_REQUEST, state, s_drq_busy>>

s_drq  == s_drq_busy = 3
s_busy == s_drq_busy \in {1, 3}
bark   == watchdog = 0

\* The firmware's answer: done, failed, or (neither) not there yet.
CpuFailed == \/ "DRVNOTRDY" \in iCPU_STATUS
             \/ "COMPLETE" \in iCPU_STATUS /\ "SUCCESS" \notin iCPU_STATUS
CpuDone_early == iCPU_STATUS # {}
CpuDone   == {"COMPLETE", "SUCCESS"} \subseteq iCPU_STATUS
CpuClear_hasty == TRUE
CpuClear  == iCPU_STATUS = {}

\* The buffer address is as wide as the buffer and wraps.
wBuffAddrPlus1_wide  == buff_addr + 1
wBuffAddrPlus1_stuck == buff_addr
wBuffAddrPlus1 == IF buff_addr + 1 = SECTOR_SIZE THEN 0 ELSE buff_addr + 1
LastByte_late  == data_rdlength = 0
LastByte_early == data_rdlength <= 2
LastByte       == data_rdlength = 1

\* The bits of the status register a host program acts on.
StatusBusy_nopending == s_busy
StatusBusy == s_busy \/ wdstat_pending
StatusDrq  == cmd_mode = 1 /\ s_drq

Init ==
  /\ wdstat_track = 0 /\ wdstat_sector = 0 /\ wdstat_datareg = 0
  /\ wdstat_side = 0 /\ wdstat_drive = 0
  /\ wdstat_command = "RESTORE" /\ wdstat_pending = FALSE /\ cmd_mode = 0
  /\ wdstat_stepdirection = 0 /\ disk_track = MaxByte
  /\ data_rdlength = 0 /\ buff_addr = 0 /\ buff_rd = FALSE /\ buff_wr = FALSE
  /\ read_timer = 0 /\ watchdog = 0
  /\ s_seekerr = FALSE /\ s_crcerr = FALSE /\ s_lostdata = FALSE /\ s_wrfault = FALSE
  /\ s_ready = FALSE /\ s_drq_busy = 0
  /\ oCPU_REQUEST = Ack /\ state = "READY"

-----------------------------------------------------------------------------
(* Register writes.                                                        *)

NewCommand(op) == op.kind = "wr_cmd" /\ op.cmd # "FORCEINT"
ForceInt(op)   == op.kind = "wr_cmd" /\ op.cmd = "FORCEINT"
\* A second command while one is still pending kills the controller.
Overrun(op)    == NewCommand(op) /\ wdstat_pending
\* An overrun leaves the command and the state in the sector and track
\* registers for the firmware to print; MaxByte stands for both numbers.
Diag           == MaxByte

BusTrack(op) ==
  IF op.kind = "wr_track" /\ ~s_busy THEN op.v
  ELSE IF Overrun(op) THEN Diag ELSE wdstat_track

BusSector_unlocked(op) ==
  IF op.kind = "wr_sector" THEN op.v ELSE IF Overrun(op) THEN Diag ELSE wdstat_sector
BusSector(op) ==
  IF op.kind = "wr_sector" /\ ~s_busy THEN op.v
  ELSE IF Overrun(op) THEN Diag ELSE wdstat_sector
BusRegisters(op) ==
  /\ wdstat_sector'  = BusSector(op)
  /\ wdstat_side'    = IF op.kind = "wr_ctl2" THEN op.side ELSE wdstat_side
  /\ wdstat_drive'   = IF op.kind = "wr_ctl2" THEN op.drive ELSE wdstat_drive
  /\ wdstat_command' = IF NewCommand(op) /\ ~wdstat_pending THEN op.cmd ELSE wdstat_command

BusData(op)    == IF op.kind = "wr_data" THEN op.v ELSE wdstat_datareg
BusPending(op) == wdstat_pending \/ NewCommand(op)
BusMode(op)    == IF ForceInt(op) THEN 0 ELSE cmd_mode
BusState_direct(op) ==
  IF ForceInt(op) THEN "READY"
  ELSE IF Overrun(op) THEN "DEAD" ELSE state
BusState(op) ==
  IF ForceInt(op) /\ state # "READY" THEN "ABORT"
  ELSE IF Overrun(op) THEN "DEAD" ELSE state
NoErrors == /\ s_seekerr' = FALSE /\ s_crcerr' = FALSE
            /\ s_lostdata' = FALSE /\ s_wrfault' = FALSE
\* $D0 to an idle controller only clears the error bits.
BusErrors(op) == IF ForceInt(op) /\ state = "READY" THEN NoErrors ELSE UNCHANGED errRegs

\* Most states leave to the host what READY's dispatch does not.
BusOnly(op) ==
  /\ BusRegisters(op)
  /\ wdstat_track'   = BusTrack(op)
  /\ wdstat_pending' = BusPending(op)
  /\ cmd_mode'       = BusMode(op)

-----------------------------------------------------------------------------
(* STATE_READY: idle, and the dispatch of a pending command.               *)

Idle(op) ==
  /\ state = "READY" /\ ~wdstat_pending
  /\ BusOnly(op)
  /\ wdstat_datareg' = BusData(op)
  /\ state' = BusState(op)
  /\ BusErrors(op)
  /\ UNCHANGED <<headRegs, xferRegs, oCPU_REQUEST, s_drq_busy>>

\* What every dispatched command does: the pending flag goes down even when
\* the host writes the next command in this very clock.
Dispatch(op, cmd) ==
  /\ state = "READY" /\ wdstat_pending /\ wdstat_command \in cmd
  /\ BusRegisters(op)
  /\ wdstat_datareg' = BusData(op)
  /\ wdstat_pending' = FALSE
  /\ cmd_mode' = IF wdstat_command \in TypeI THEN 0 ELSE 1

\* RESTORE, SEEK and STEP go busy and wake the firmware with a NOP.
SeekRequest ==
  /\ oCPU_REQUEST' = Request("NOP", 0, 0)
  /\ s_drq_busy' = 1
  /\ state' = "WAIT_CPU"

Restore(op) ==
  /\ Dispatch(op, {"RESTORE"})
  /\ wdstat_track' = 0 /\ disk_track' = 0
  /\ SeekRequest /\ BusErrors(op)
  /\ UNCHANGED <<wdstat_stepdirection, xferRegs>>

\* SEEK moves the head and leaves the track register as it was.
Seek(op) ==
  /\ Dispatch(op, {"SEEK"})
  /\ wdstat_track' = BusTrack(op)
  /\ disk_track' = wdstat_datareg
  /\ SeekRequest /\ BusErrors(op)
  /\ UNCHANGED <<wdstat_stepdirection, xferRegs>>

\* wStepDir reads the data bus as it is now, not the command register.
wStepDir(dir) == IF dir = "KEEP" THEN wdstat_stepdirection
                 ELSE IF dir = "OUT" THEN 1 ELSE 0
wNextTrack(dir) ==
  IF wStepDir(dir) = 1
  THEN IF disk_track = 0 THEN MaxByte ELSE disk_track - 1
  ELSE IF disk_track = MaxByte THEN 0 ELSE disk_track + 1

Step(op, dir) ==
  /\ Dispatch(op, StepCommands)
  /\ wdstat_stepdirection' = IF wdstat_command \in {"STEP_IN", "STEP_IN_U"} THEN 0
                             ELSE IF wdstat_command \in {"STEP_OUT", "STEP_OUT_U"} THEN 1
                             ELSE wdstat_stepdirection
  /\ disk_track' = wNextTrack(dir)
  /\ wdstat_track' = IF wdstat_command \in {"STEP_U", "STEP_IN_U", "STEP_OUT_U"}
                     THEN wNextTrack(dir) ELSE BusTrack(op)
  /\ SeekRequest /\ BusErrors(op)
  /\ UNCHANGED xferRegs

ReadSector(op) ==
  /\ Dispatch(op, {"READ"})
  /\ wdstat_track' = BusTrack(op)
  /\ oCPU_REQUEST' = Request("READ", wdstat_drive, wdstat_side)
  /\ s_drq_busy' = 1 /\ NoErrors
  /\ data_rdlength' = SECTOR_SIZE
  /\ state' = "WAIT_CPUREAD"
  /\ UNCHANGED <<headRegs, buff_addr, buff_rd, read_timer, watchdog>>

ReadAddress(op) ==
  /\ Dispatch(op, {"READADDR"})
  /\ wdstat_track' = BusTrack(op)
  /\ oCPU_REQUEST' = Request("READADDR", wdstat_drive, wdstat_side)
  /\ s_drq_busy' = 1 /\ NoErrors
  /\ data_rdlength' = READADDR_LEN
  /\ state' = "WAIT_CPUREAD"
  /\ UNCHANGED <<headRegs, buff_addr, buff_rd, read_timer, watchdog>>

WriteSector_offset(op) ==
  /\ Dispatch(op, {"WRITE"})
  /\ wdstat_track' = BusTrack(op)
  /\ s_drq_busy' = 3 /\ NoErrors
  /\ data_rdlength' = SECTOR_SIZE
  /\ state' = "WRITESECT"
  /\ UNCHANGED <<headRegs, buff_addr, buff_rd, read_timer, watchdog, oCPU_REQUEST>>
WriteSector(op) ==
  /\ Dispatch(op, {"WRITE"})
  /\ wdstat_track' = BusTrack(op)
  /\ s_drq_busy' = 3 /\ NoErrors
  /\ data_rdlength' = SECTOR_SIZE /\ buff_addr' = 0
  /\ state' = "WRITESECT"
  /\ UNCHANGED <<headRegs, buff_rd, read_timer, watchdog, oCPU_REQUEST>>

\* READ TRACK and WRITE TRACK are accepted and do nothing.
TrackOperation(op) ==
  /\ Dispatch(op, {"TRACK"})
  /\ wdstat_track' = BusTrack(op)
  /\ s_drq_busy' = 0
  /\ state' = BusState(op)
  /\ BusErrors(op)
  /\ UNCHANGED <<headRegs, xferRegs, oCPU_REQUEST>>

-----------------------------------------------------------------------------
(* The rest of the state machine.                                          *)

\* Waiting for the firmware to have the sector in the buffer.
WaitCpuRead_notbusy(op) ==
  /\ state = "WAIT_CPUREAD"
  /\ BusOnly(op) /\ wdstat_datareg' = BusData(op)
  /\ \/ /\ CpuFailed
        /\ s_seekerr' = TRUE /\ s_crcerr' = ("CRC" \in iCPU_STATUS)
        /\ state' = "ENDCOMMAND"
        /\ UNCHANGED buff_addr
     \/ /\ ~CpuFailed /\ CpuDone
        /\ buff_addr' = 0
        /\ state' = "READ_2"
        /\ UNCHANGED <<s_seekerr, s_crcerr>>
     \/ /\ ~CpuFailed /\ ~CpuDone
        /\ state' = BusState(op)
        /\ UNCHANGED <<buff_addr, s_seekerr, s_crcerr>>
  /\ UNCHANGED <<headRegs, data_rdlength, buff_rd, read_timer, watchdog,
                 s_lostdata, s_wrfault, oCPU_REQUEST>>
  /\ s_drq_busy' = IF CpuFailed \/ CpuDone THEN s_drq_busy ELSE 0
WaitCpuRead(op) ==
  /\ state = "WAIT_CPUREAD"
  /\ BusOnly(op) /\ wdstat_datareg' = BusData(op)
  /\ \/ /\ CpuFailed
        /\ s_seekerr' = TRUE /\ s_crcerr' = ("CRC" \in iCPU_STATUS)
        /\ state' = "ENDCOMMAND"
        /\ UNCHANGED buff_addr
     \/ /\ ~CpuFailed /\ CpuDone
        /\ buff_addr' = 0
        /\ state' = "READ_2"
        /\ UNCHANGED <<s_seekerr, s_crcerr>>
     \/ /\ ~CpuFailed /\ ~CpuDone
        /\ state' = BusState(op)
        /\ UNCHANGED <<buff_addr, s_seekerr, s_crcerr>>
  /\ UNCHANGED <<headRegs, data_rdlength, buff_rd, read_timer, watchdog,
                 s_lostdata, s_wrfault, oCPU_REQUEST, s_drq_busy>>

Read1(op) ==
  /\ state = "READ_1"
  /\ BusOnly(op) /\ wdstat_datareg' = BusData(op)
  /\ buff_addr' = wBuffAddrPlus1
  /\ data_rdlength' = data_rdlength - 1
  /\ state' = "READ_2"
  /\ UNCHANGED <<headRegs, buff_rd, read_timer, watchdog, errRegs, oCPU_REQUEST, s_drq_busy>>

\* From here the buffer belongs to the host: buff_rd stops the 6502.
Read2(op) ==
  /\ state = "READ_2"
  /\ BusOnly(op) /\ wdstat_datareg' = BusData(op)
  /\ read_timer' = READ_TIME
  /\ s_drq_busy' = 1
  /\ buff_rd' = TRUE
  /\ state' = "READ_3"
  /\ UNCHANGED <<headRegs, data_rdlength, buff_addr, watchdog, errRegs, oCPU_REQUEST>>

\* The watchdog is wound up in READ_2 and starts to run when READ_3 ends.
Read3(op, din) ==
  /\ state = "READ_3"
  /\ BusOnly(op)
  /\ \/ /\ read_timer > 0
        /\ read_timer' = read_timer - 1
        /\ wdstat_datareg' = BusData(op)
        /\ state' = BusState(op)
        /\ UNCHANGED <<watchdog, s_lostdata, s_drq_busy>>
     \/ /\ read_timer = 0
        /\ watchdog' = WATCHDOG_TIME
        /\ s_lostdata' = FALSE
        /\ s_drq_busy' = 3
        /\ wdstat_datareg' = din
        /\ state' = "READSECT"
        /\ UNCHANGED read_timer
  /\ UNCHANGED <<headRegs, data_rdlength, buff_addr, buff_rd,
                 s_seekerr, s_crcerr, s_wrfault, oCPU_REQUEST>>

\* A byte is taken by the host, or by the watchdog if the host is late.
ByteTaken(op) == bark \/ (op = ReadOp /\ s_drq)

ReadSect(op) ==
  /\ state = "READSECT"
  /\ BusOnly(op) /\ wdstat_datareg' = BusData(op)
  /\ watchdog' = IF bark THEN 0 ELSE watchdog - 1
  /\ IF ByteTaken(op)
     THEN /\ s_drq_busy' = 1
          /\ s_lostdata' = bark
          /\ buff_rd' = (buff_rd /\ ~LastByte)
          /\ state' = IF LastByte THEN "ENDCOMMAND" ELSE "READ_1"
     ELSE /\ state' = BusState(op)
          /\ UNCHANGED <<s_drq_busy, s_lostdata, buff_rd>>
  /\ UNCHANGED <<headRegs, data_rdlength, buff_addr, read_timer,
                 s_seekerr, s_crcerr, s_wrfault, oCPU_REQUEST>>

\* No watchdog here: the host may take as long as it likes.
WriteSect(op) ==
  /\ state = "WRITESECT"
  /\ BusOnly(op) /\ wdstat_datareg' = BusData(op)
  /\ IF op.kind = "wr_data"
     THEN s_drq_busy' = 1 /\ s_lostdata' = FALSE /\ state' = "WRITE_1"
     ELSE state' = BusState(op) /\ UNCHANGED <<s_drq_busy, s_lostdata>>
  /\ UNCHANGED <<headRegs, xferRegs, s_seekerr, s_crcerr, s_wrfault, oCPU_REQUEST>>

Write1(op) ==
  /\ state = "WRITE_1"
  /\ BusOnly(op) /\ wdstat_datareg' = BusData(op)
  /\ state' = "WRITE_2"
  /\ UNCHANGED <<headRegs, xferRegs, errRegs, oCPU_REQUEST, s_drq_busy>>

\* The request carries the side and, unlike READ's, no drive.
Write2(op) ==
  /\ state = "WRITE_2"
  /\ BusOnly(op) /\ wdstat_datareg' = BusData(op)
  /\ buff_addr' = wBuffAddrPlus1
  /\ data_rdlength' = data_rdlength - 1
  /\ IF LastByte
     THEN /\ oCPU_REQUEST' = Request("WRITE", 0, wdstat_side)
          /\ state' = "WAIT_CPUWRITE"
          /\ UNCHANGED s_drq_busy
     ELSE /\ s_drq_busy' = 3
          /\ state' = "WRITESECT"
          /\ UNCHANGED oCPU_REQUEST
  /\ UNCHANGED <<headRegs, buff_rd, read_timer, watchdog, errRegs>>

\* BUSY goes down while the firmware is still writing.
WaitCpuWrite(op) ==
  /\ state = "WAIT_CPUWRITE"
  /\ BusOnly(op) /\ wdstat_datareg' = BusData(op)
  /\ \/ /\ CpuFailed
        /\ s_wrfault' = ("CRC" \in iCPU_STATUS)
        /\ state' = "ENDCOMMAND"
        /\ UNCHANGED s_drq_busy
     \/ /\ ~CpuFailed /\ CpuDone
        /\ state' = "ENDCOMMAND"
        /\ UNCHANGED <<s_wrfault, s_drq_busy>>
     \/ /\ ~CpuFailed /\ ~CpuDone
        /\ s_drq_busy' = 0
        /\ state' = BusState(op)
        /\ UNCHANGED s_wrfault
  /\ UNCHANGED <<headRegs, xferRegs, s_seekerr, s_crcerr, s_lostdata, oCPU_REQUEST>>

WaitCpu(op) ==
  /\ state = "WAIT_CPU"
  /\ BusOnly(op) /\ wdstat_datareg' = BusData(op)
  /\ state' = IF "COMPLETE" \in iCPU_STATUS THEN "ENDCOMMAND" ELSE BusState(op)
  /\ UNCHANGED <<headRegs, xferRegs, errRegs, oCPU_REQUEST, s_drq_busy>>

\* $D0 forgets the pending command and the bytes still due.  buff_rd stays.
Abort_inert(op) ==
  /\ state = "ABORT"
  /\ BusRegisters(op) /\ wdstat_track' = BusTrack(op) /\ cmd_mode' = BusMode(op)
  /\ wdstat_pending' = FALSE
  /\ wdstat_datareg' = BusData(op)
  /\ data_rdlength' = 0
  /\ state' = BusState(op)
  /\ UNCHANGED <<headRegs, buff_addr, buff_rd, read_timer, watchdog, errRegs,
                 oCPU_REQUEST, s_drq_busy>>
Abort(op) ==
  /\ state = "ABORT"
  /\ BusRegisters(op) /\ wdstat_track' = BusTrack(op) /\ cmd_mode' = BusMode(op)
  /\ wdstat_pending' = FALSE
  /\ wdstat_datareg' = BusData(op)
  /\ data_rdlength' = 0
  /\ state' = "ENDCOMMAND"
  /\ UNCHANGED <<headRegs, buff_addr, buff_rd, read_timer, watchdog, errRegs,
                 oCPU_REQUEST, s_drq_busy>>

EndCommand(op) ==
  /\ state = "ENDCOMMAND"
  /\ BusOnly(op) /\ wdstat_datareg' = BusData(op)
  /\ oCPU_REQUEST' = Ack
  /\ state' = "ENDCOMMAND2"
  /\ UNCHANGED <<headRegs, xferRegs, errRegs, s_drq_busy>>

EndCommand2(op) ==
  /\ state = "ENDCOMMAND2"
  /\ BusOnly(op) /\ wdstat_datareg' = BusData(op)
  /\ IF CpuClear
     THEN oCPU_REQUEST' = NoRequest /\ state' = "READY" /\ s_drq_busy' = 0
     ELSE state' = BusState(op) /\ UNCHANGED <<oCPU_REQUEST, s_drq_busy>>
  /\ UNCHANGED <<headRegs, xferRegs, errRegs>>

Dead_silent ==
  /\ state = "DEAD"
  /\ s_drq_busy' = 3
  /\ s_seekerr' = TRUE /\ s_wrfault' = TRUE /\ s_crcerr' = TRUE
  /\ UNCHANGED <<hostRegs, cmdRegs, headRegs, xferRegs, s_lostdata, buff_wr, s_ready, state,
                 oCPU_REQUEST>>
Dead ==
  /\ state = "DEAD"
  /\ s_drq_busy' = 3
  /\ s_seekerr' = TRUE /\ s_wrfault' = TRUE /\ s_crcerr' = TRUE
  /\ oCPU_REQUEST' = Request("FAIL", 0, 0)
  /\ UNCHANGED <<hostRegs, cmdRegs, headRegs, xferRegs, s_lostdata, buff_wr, s_ready, state>>

\* reset_n does not clear the data and command registers.
Reset ==
  /\ wdstat_track' = 0 /\ wdstat_sector' = 0
  /\ wdstat_side' = 0 /\ wdstat_drive' = 0
  /\ wdstat_pending' = FALSE /\ cmd_mode' = 0
  /\ wdstat_stepdirection' = 0 /\ disk_track' = MaxByte
  /\ data_rdlength' = 0 /\ buff_addr' = 0 /\ buff_rd' = FALSE /\ buff_wr' = FALSE
  /\ NoErrors /\ s_ready' = FALSE /\ s_drq_busy' = 0
  /\ oCPU_REQUEST' = Ack /\ state' = "READY"
  /\ UNCHANGED <<wdstat_datareg, wdstat_command, read_timer, watchdog>>

Tick(op, dir, din) ==
  \/ Dead
  \/ /\ s_ready' = ("DRVNOTRDY" \notin iCPU_STATUS)
     /\ buff_wr' = (state = "WRITE_1")
     /\ \/ Idle(op) \/ Restore(op) \/ Seek(op) \/ Step(op, dir)
        \/ ReadSector(op) \/ ReadAddress(op) \/ WriteSector(op) \/ TrackOperation(op)
        \/ WaitCpuRead(op) \/ Read1(op) \/ Read2(op) \/ Read3(op, din) \/ ReadSect(op)
        \/ WriteSect(op) \/ Write1(op) \/ Write2(op) \/ WaitCpuWrite(op)
        \/ WaitCpu(op) \/ Abort(op) \/ EndCommand(op) \/ EndCommand2(op)

-----------------------------------------------------------------------------
(* The controller alone: any host, any data, any status from the firmware. *)

Clock == /\ \E op \in HostOps, dir \in BusDirs, din \in HostBytes : Tick(op, dir, din)
         /\ UNCHANGED iCPU_STATUS
Firmware == /\ iCPU_STATUS' \in StatusWords
            /\ UNCHANGED wdVars
ResetKey == Reset /\ UNCHANGED iCPU_STATUS

Next == Clock \/ Firmware \/ ResetKey
vars == <<wdVars, iCPU_STATUS>>
PowerUp == Init /\ iCPU_STATUS = {}
Spec == PowerUp /\ [][Next]_vars

-----------------------------------------------------------------------------
(* Properties.                                                             *)

NumbersOK ==
  /\ wdstat_track \in Byte /\ wdstat_sector \in Byte /\ wdstat_datareg \in Byte
  /\ wdstat_side \in Bit /\ wdstat_drive \in Bit /\ wdstat_stepdirection \in Bit
  /\ disk_track \in Byte /\ cmd_mode \in Bit /\ s_drq_busy \in {0, 1, 3}
  /\ data_rdlength \in 0..SECTOR_SIZE /\ buff_addr \in 0..(SECTOR_SIZE - 1)
  /\ read_timer \in 0..READ_TIME /\ watchdog \in 0..WATCHDOG_TIME
FlagsOK ==
  /\ wdstat_pending \in BOOLEAN /\ buff_rd \in BOOLEAN /\ buff_wr \in BOOLEAN
  /\ s_seekerr \in BOOLEAN /\ s_crcerr \in BOOLEAN
  /\ s_lostdata \in BOOLEAN /\ s_wrfault \in BOOLEAN /\ s_ready \in BOOLEAN
PortsOK ==
  /\ wdstat_command \in Commands /\ state \in States
  /\ oCPU_REQUEST \in Requests /\ iCPU_STATUS \in StatusWords

\* Every register holds a value of its width.
TypeOK == NumbersOK /\ FlagsOK /\ PortsOK

ReadStates  == {"READ_1", "READ_2", "READ_3", "READSECT"}
WriteStates == {"WRITESECT", "WRITE_1", "WRITE_2"}
ReadRequests == {"READ", "READADDR"}
WorkRequests == ReadRequests \cup {"WRITE", "NOP"}
TransferLength == IF oCPU_REQUEST.op = "READADDR" THEN READADDR_LEN ELSE SECTOR_SIZE

\* The byte counter and the buffer address advance together: at every moment
\* of a transfer the bytes moved and the bytes due add up to the length of the
\* sector or of the address field, so no transfer runs off the end of the
\* buffer or stops short, whatever is written or aborted in between.
TransferCounted ==
  /\ state = "WAIT_CPUREAD" => data_rdlength = TransferLength
  /\ state \in ReadStates => /\ buff_addr + data_rdlength = TransferLength
                             /\ data_rdlength >= (IF state = "READ_1" THEN 2 ELSE 1)
  /\ state \in WriteStates => /\ buff_addr + data_rdlength = SECTOR_SIZE
                              /\ data_rdlength >= 1

\* The request port tells the firmware what the controller is doing: the work
\* request of a command stays up for as long as its states last.
RequestMatchesState ==
  /\ state \in ReadStates \cup {"WAIT_CPUREAD"} => oCPU_REQUEST.op \in ReadRequests
  /\ state = "WAIT_CPUWRITE" => oCPU_REQUEST.op = "WRITE"
  /\ state = "WAIT_CPU" => oCPU_REQUEST.op = "NOP"
  /\ state = "ENDCOMMAND2" => oCPU_REQUEST.op = "ACK"
  /\ state \in {"READY"} \cup WriteStates => oCPU_REQUEST.op \in {"NONE", "ACK"}

\* BUSY stays up from the dispatch of a command until the last byte has moved
\* (for a write, no longer), so that no register write gets in between.
BusyHeld ==
  state \in ReadStates \cup WriteStates \cup {"WAIT_CPUREAD", "WAIT_CPU"} => s_busy

\* Four-phase handshake: work is withdrawn only for an acknowledgement, and the
\* acknowledgement only once the firmware has cleared its status.
FourPhase ==
  [][/\ oCPU_REQUEST.op \in WorkRequests /\ oCPU_REQUEST' # oCPU_REQUEST
          => oCPU_REQUEST'.op \in {"ACK", "FAIL"}
     /\ oCPU_REQUEST.op = "ACK" /\ oCPU_REQUEST'.op = "NONE" => iCPU_STATUS = {}]_vars

\* The firmware reads the sector and the head position some time after the
\* request.  While a read is outstanding they cannot have moved: BUSY locks the
\* registers, and only reset and the diagnostics of an overrun get past it.
ReadAddressStable ==
  [][state = "WAIT_CPUREAD" /\ state' # "READY" =>
       wdstat_sector' \in {wdstat_sector, Diag} /\ disk_track' = disk_track]_vars
=============================================================================
