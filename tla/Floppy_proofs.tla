---------------------------- MODULE Floppy_proofs ----------------------------
(***************************************************************************)
(* The board's invariants, for every geometry, every set of images, every  *)
(* width of a register and every number of commands and faults.            *)
(***************************************************************************)
EXTENDS Floppy, WD1793_proofs, SequenceTheorems

USE DEF Byte, Bit

-----------------------------------------------------------------------------
(* The invariants.                                                         *)

BoardTypes ==
  /\ buffer \in [0..(SECTOR_SIZE - 1) -> Byte]
  /\ disk \in [Images -> [Fdd!Blocks -> [0..(SECTOR_SIZE - 1) -> Byte]]]
  /\ pc \in Fw!Pcs /\ cmd \in Requests /\ result \in {"OK", "INVALID_DRIVE", "RW_ERROR"}
  /\ t1 \in {0, 2} /\ blk \in Int /\ imagefile \in Images /\ card \in BOOLEAN
  /\ gap \in 0..CPU_GAP

\* A bus cycle takes the host up to two more clocks.
HostTypes ==
  /\ hpc \in {"boot", "ready", "issued", "run", "fetch", "in", "out"}
  /\ hcmd \in Commands \cup {"NONE"}
  /\ hold \in 0..2 /\ (hpc \in {"in", "out"} => hold # 0)
  /\ hbytes \in Seq(Byte) /\ Len(hbytes) <= SECTOR_SIZE + 1
  /\ patience \in Patience /\ commands \in 0..MaxCommands

Typed == Inv /\ BoardTypes /\ HostTypes

\* What the status port shows where the firmware is.
StatusByPlace ==
  /\ pc \in {"thrall", "hung"} => iCPU_STATUS = {}
  /\ pc \in {"mount", "slave"} => iCPU_STATUS = {"DRVNOTRDY"}
  /\ pc \in {"seek", "io", "report"} => iCPU_STATUS = {"BUSY"}
  /\ pc \in {"poll", "dispatch", "exit"} => iCPU_STATUS \cap {"DRVNOTRDY", "BUSY"} = {}
  /\ pc = "away" => "COMPLETE" \notin iCPU_STATUS

\* The firmware is at work on a request.
Working == \/ pc \in {"seek", "io", "report"}
           \/ pc = "dispatch" /\ cmd.op \in WorkRequests

\* Then the controller waits for just that, and has no answer yet.
WorkIsWanted ==
  Working => /\ state \in WaitStates /\ oCPU_REQUEST = cmd /\ fetched = asked
             /\ iCPU_STATUS \cap {"DRVNOTRDY", "COMPLETE"} = {}

\* An answer is seen in the clock after it is given, and withdrawn before the
\* firmware looks for work again.
AnswerInPlace ==
  "COMPLETE" \in iCPU_STATUS /\ pc # "main" =>
    \/ pc \in {"poll", "exit"} /\ \/ state \in WaitStates /\ gap = 0 /\ answered = asked
                                  \/ state \in ReadStates \cup {"ENDCOMMAND", "ENDCOMMAND2"}
    \/ pc = "dispatch" /\ cmd.op = "ACK" /\ state = "ENDCOMMAND2"

\* The 6502 stands still while bytes are handed to the host.
HeldStill ==
  /\ state \in {"READ_1", "READ_3", "READSECT"} => buff_rd
  /\ state \in ReadStates /\ pc # "main" => gap <= 2 /\ (buff_rd \/ gap <= 1)
  /\ state = "ENDCOMMAND" /\ pc = "poll" => gap <= 2

\* An overrun controller keeps nothing of this.
HandInv == /\ StatusByPlace /\ state # "ABORT"
           /\ state # "DEAD" => WorkIsWanted /\ AnswerInPlace /\ HeldStill
-----------------------------------------------------------------------------
(* The steps of the board, sorted by what they do to the controller.       *)

HostClock == Wait \/ Boot \/ Select \/ Issue \/ In \/ Hold \/ Out \/ Interrupt

\* The host's bus cycles are well formed, and a command comes only when it
\* thinks the controller free; only $D0 comes in between.
LEMMA HostCycle ==
  ASSUME HostTypes, HostClock
  PROVE  \E op : /\ BusOp(op) /\ BoardClock(op)
                 /\ NewCommand(op) => NotBusy
                 /\ ForceInt(op) => hcmd \in AbortOf
<1> USE DEF BusOp, NewCommand, ForceInt
<1>1. CASE Wait
  BY <1>1 DEF Wait, NoOp
<1>2. CASE Boot
  BY <1>2 DEF Boot, Commands, TypeI
<1>3. CASE Select
  <2>1. PICK op \in [kind : {"wr_sector"}, v : HostSectors]
                    \cup [kind : {"wr_data"}, v : HostTracks]
                    \cup [kind : {"wr_ctl2"}, side : HostSides, drive : HostDrives] :
             BoardClock(op)
    BY <1>3 DEF Select
  <2>2. BusOp(op) /\ op.kind # "wr_cmd"
    <3>1. CASE op \in [kind : {"wr_sector"}, v : HostSectors]
      BY <3>1, GeometryAssumption
    <3>2. CASE op \in [kind : {"wr_data"}, v : HostTracks]
      BY <3>2, GeometryAssumption
    <3>3. CASE op \in [kind : {"wr_ctl2"}, side : HostSides, drive : HostDrives]
      BY <3>3, HostAssumption
    <3> QED BY <2>1, <3>1, <3>2, <3>3
  <2> QED BY <2>1, <2>2
<1>4. CASE Issue
  <2>1. PICK c \in HostCommands \ {"FORCEINT"} : BoardClock([kind |-> "wr_cmd", cmd |-> c])
    BY <1>4 DEF Issue
  <2>2. c \in Commands /\ NotBusy
    BY <1>4, HostAssumption DEF Issue
  <2> QED BY <2>1, <2>2
<1>5. CASE In \/ Hold
  BY <1>5 DEF In, Hold, NoOp, ReadOp
<1>6. CASE Out
  <2>1. Written(commands, Len(hbytes)) \in Byte
    BY <1>6, GeometryAssumption DEF HostTypes, Out
  <2> QED BY <1>6, <2>1 DEF Out
<1>7. CASE Interrupt
  BY <1>7 DEF Interrupt, Commands
<1> QED BY <1>1, <1>2, <1>3, <1>4, <1>5, <1>6, <1>7 DEF HostClock

-----------------------------------------------------------------------------
(* Types.                                                                  *)

LEMMA AppendType ==
  ASSUME NEW S, NEW s \in Seq(S), NEW e \in S
  PROVE  Append(s, e) \in Seq(S) /\ Len(Append(s, e)) = Len(s) + 1
OBVIOUS

LEMMA TypedIsTypeOK == Typed => SysTypeOK
BY DEF Typed, Inv, BoardTypes, HostTypes, SysTypeOK

LEMMA InitTyped == SysInit => Typed
<1> SUFFICES ASSUME SysInit PROVE Typed
  OBVIOUS
<1>0. NoRequest \in Requests
  BY RequestType DEF NoRequest
<1>1. Inv
  BY InitInv DEF SysInit, PowerUp
<1>2. BoardTypes
  <2>1. buffer \in [0..(SECTOR_SIZE - 1) -> Byte]
    BY SizeAssumption DEF SysInit
  <2>2. disk \in [Images -> [Fdd!Blocks -> [0..(SECTOR_SIZE - 1) -> Byte]]]
    BY GeometryAssumption DEF SysInit, Fdd!Blocks
  <2>3. imagefile \in Images
    BY GeometryAssumption, Zenon DEF SysInit
  <2>6. gap \in 0..CPU_GAP
    BY GapAssumption, GeometryAssumption DEF SysInit
  <2>4. cmd \in Requests /\ pc \in Fw!Pcs
    BY <1>0 DEF SysInit, Fw!Pcs
  <2>5. result = "OK" /\ t1 = 0 /\ blk = 0 /\ card = TRUE
    BY DEF SysInit
  <2> QED BY <2>1, <2>2, <2>3, <2>4, <2>5, <2>6 DEF BoardTypes
<1>3. HostTypes
  BY GeometryAssumption, SizeAssumption DEF SysInit, HostTypes
<1> QED BY <1>1, <1>2, <1>3 DEF Typed

\* A clock of the board.
LEMMA ClockTyped ==
  ASSUME Inv, BoardTypes, NEW op, BusOp(op), BoardClock(op)
  PROVE  Inv' /\ BoardTypes'
<1> USE SizeAssumption
<1>1. buff_addr \in 0..(SECTOR_SIZE - 1) /\ wdstat_datareg \in Byte
  BY DEF Inv, TypeOK, NumbersOK
<1>2. PICK dir \in StepBus : Tick(op, dir, buffer[buff_addr])
  BY DEF BoardClock
<1>3. dir \in BusDirs /\ buffer[buff_addr] \in Byte
  BY <1>1 DEF StepBus, BusDirs, BoardTypes
<1>4. Inv'
  BY <1>2, <1>3, TickInv DEF BoardClock
<1>5. buffer' \in [0..(SECTOR_SIZE - 1) -> Byte]
  BY <1>1 DEF BoardClock, BoardTypes
<1>6. gap' \in 0..CPU_GAP
  BY GeometryAssumption DEF BoardClock, BoardTypes
<1> QED BY <1>4, <1>5, <1>6 DEF BoardClock, BoardTypes

LEMMA HostClockTyped ==
  ASSUME Typed, HostClock
  PROVE  Typed'
<1>1. Inv' /\ BoardTypes'
  BY ClockTyped, HostCycle DEF Typed
<1>2. HostTypes'
  <2> USE SizeAssumption, GeometryAssumption DEF Typed, HostTypes
  <2>1. ASSUME NEW v \in Byte, Keep(v)
        PROVE  hbytes' \in Seq(Byte) /\ Len(hbytes') <= SECTOR_SIZE + 1
    <3>1. Append(hbytes, v) \in Seq(Byte) /\ Len(Append(hbytes, v)) = Len(hbytes) + 1
      BY AppendType
    <3>2. hbytes \in Seq(Byte) /\ Len(hbytes) <= SECTOR_SIZE + 1 /\ Len(hbytes) \in Nat
      OBVIOUS
    <3>3. CASE Len(hbytes) > SECTOR_SIZE
      <4>1. hbytes' = hbytes
        BY <2>1, <3>3 DEF Keep
      <4> QED BY <3>2, <4>1
    <3>4. CASE ~(Len(hbytes) > SECTOR_SIZE)
      <4>1. hbytes' = Append(hbytes, v)
        BY <2>1, <3>4 DEF Keep
      <4>2. Len(hbytes) + 1 <= SECTOR_SIZE + 1
        BY <3>2, <3>4, SizeAssumption
      <4> QED BY <3>1, <4>1, <4>2
    <3> QED BY <3>3, <3>4
  <2>2. CASE Wait
    BY <2>2 DEF Wait
  <2>3. CASE Boot
    BY <2>3 DEF Boot, Commands, TypeI
  <2>4. CASE Select
    BY <2>4 DEF Select, hostState
  <2>5. CASE Issue
    <3>1. hbytes' \in Seq(Byte) /\ Len(hbytes') <= SECTOR_SIZE + 1
      BY <2>5 DEF Issue
    <3> QED BY <2>5, <3>1, HostAssumption DEF Issue
  <2>6. CASE In
    <3>1. wdstat_datareg \in Byte
      BY DEF Inv, TypeOK, NumbersOK
    <3> QED BY <2>1, <2>6, <3>1 DEF In
  <2>7. CASE Hold
    BY <2>7 DEF Hold
  <2>8. CASE Out
    <3>1. Written(commands, Len(hbytes)) \in Byte
      OBVIOUS
    <3> QED BY <2>1, <2>8, <3>1 DEF Out
  <2>9. CASE Interrupt
    BY <2>9 DEF Interrupt, Commands
  <2> QED BY <2>2, <2>3, <2>4, <2>5, <2>6, <2>7, <2>8, <2>9 DEF HostClock
<1> QED BY <1>1, <1>2 DEF Typed

\* Half of one sector and half of another are a sector.
LEMMA HalfType ==
  ASSUME NEW new \in [0..(SECTOR_SIZE - 1) -> Byte], NEW old \in [0..(SECTOR_SIZE - 1) -> Byte]
  PROVE  Fw!Half(new, old) \in [0..(SECTOR_SIZE - 1) -> Byte]
BY DEF Fw!Half

LEMMA ReadType ==
  ASSUME NEW image \in [Fdd!Blocks -> [0..(SECTOR_SIZE - 1) -> Byte]], NEW b \in Int,
         NEW buf \in [0..(SECTOR_SIZE - 1) -> Byte]
  PROVE  /\ Fw!Fdd!fdd_readsector(image, b, buf) \in [0..(SECTOR_SIZE - 1) -> Byte]
         /\ Fw!Fdd!fdd_writesector(image, b, buf)
              \in [Fdd!Blocks -> [0..(SECTOR_SIZE - 1) -> Byte]]
BY DEF Fw!Fdd!fdd_readsector, Fw!Fdd!fdd_writesector, Fw!Fdd!Blocks, Fdd!Blocks

LEMMA AddressType ==
  ASSUME NEW buf \in [0..(SECTOR_SIZE - 1) -> Byte], NEW side \in Bit,
         NEW track \in Byte, NEW sector \in Byte
  PROVE  Fw!Fdd!fdd_readadr(buf, side, track, sector) \in [0..(SECTOR_SIZE - 1) -> Byte]
<1>1. 0 \in Byte /\ 3 \in Byte /\ side \in Byte
  BY SizeAssumption, GeometryAssumption
<1>2. DOMAIN buf = 0..(SECTOR_SIZE - 1) /\ \A i \in DOMAIN buf : buf[i] \in Byte
  OBVIOUS
<1> HIDE DEF Byte
<1> QED BY <1>1, <1>2 DEF Fw!Fdd!fdd_readadr

\* A position is a number.
LEMMA OffsetType ==
  ASSUME NEW side \in Bit, NEW track \in Byte, NEW sector \in Byte
  PROVE  Fw!Fdd!calc_offset(side, track, sector) \in Int
<1>1. FDD_NSIDES \in Int /\ FDD_NSECTORS \in Int /\ track \in Int /\ 1 - side \in Int
      /\ sector \in Int
  BY GeometryAssumption
<1>2. \A x, y \in Int : x * y \in Int /\ x + y \in Int /\ x - 1 \in Int
  OBVIOUS
<1> QED BY ONLY <1>1, <1>2, Zenon DEF Fw!Fdd!calc_offset

LEMMA FirmwareTyped ==
  ASSUME Typed, FirmwareStep
  PROVE  Typed'
<1> USE DEF fwState
<1>1. HostTypes'
  BY DEF FirmwareStep, hostState, Typed, HostTypes
<1>2. iCPU_STATUS' \in StatusWords /\ BoardTypes'
  <2> USE DEF Typed, BoardTypes
  <2>0. iCPU_STATUS \in StatusWords /\ gap' \in 0..CPU_GAP /\ UNCHANGED card
    BY GeometryAssumption DEF Inv, TypeOK, PortsOK, FirmwareStep
  <2>1. CASE Fw!Main \/ Fw!Thrall \/ Fw!Mount \/ Fw!SlaveEntry \/ Fw!Exit \/ Fw!Away
    BY <2>0, <2>1 DEF Fw!Main, Fw!Thrall, Fw!Mount, Fw!SlaveEntry, Fw!Exit, Fw!Away,
                      StatusWords, Fw!Pcs
  <2>2. CASE Fw!Poll
    <3>1. oCPU_REQUEST \in Requests
      BY DEF Inv, TypeOK, PortsOK
    <3> QED BY <2>0, <2>2, <3>1 DEF Fw!Poll, Fw!Pcs
  <2>3. CASE Fw!DispatchWork \/ Fw!DispatchAck \/ Fw!DispatchFail \/ Fw!DispatchIdle
    BY <2>0, <2>3 DEF Fw!DispatchWork, Fw!DispatchAck, Fw!DispatchFail, Fw!DispatchIdle,
                      StatusWords, Fw!Pcs
  <2>4. CASE Fw!Seek
    <3>1. cmd.side \in Bit /\ cmd.drive \in Bit
      BY DEF Requests
    <3>2. disk_track \in Byte /\ wdstat_sector \in Byte
      BY DEF Inv, TypeOK, NumbersOK
    <3>3. t1' \in {0, 2}
      BY <2>4, <3>1 DEF Fw!Seek
    <3>4. blk' \in Int
      BY <2>4, <3>1, <3>2, OffsetType DEF Fw!Seek
    <3>5. buffer' \in [0..(SECTOR_SIZE - 1) -> Byte]
      <4>1. \/ buffer' = buffer
            \/ buffer' = Fw!Fdd!fdd_readadr(buffer, cmd.side, disk_track, wdstat_sector)
        BY <2>4, Zenon DEF Fw!Seek
      <4>2. Fw!Fdd!fdd_readadr(buffer, cmd.side, disk_track, wdstat_sector)
              \in [0..(SECTOR_SIZE - 1) -> Byte]
        <5>1. buffer \in [0..(SECTOR_SIZE - 1) -> Byte]
          OBVIOUS
        <5> QED BY ONLY <3>1, <3>2, <5>1, AddressType
      <4> QED BY <4>1, <4>2, Zenon
    <3> QED BY <2>0, <2>4, <3>3, <3>4, <3>5 DEF Fw!Seek, Fw!Pcs
  <2>5. CASE Fw!ReadImage
    <3>1. buffer' \in [0..(SECTOR_SIZE - 1) -> Byte]
      <4> DEFINE got == Fw!Fdd!fdd_readsector(disk[imagefile], blk, buffer)
      <4>1. got \in [0..(SECTOR_SIZE - 1) -> Byte]
        BY ReadType
      <4> HIDE DEF got
      <4>2. buffer' \in {got, buffer, Fw!Half(got, buffer)}
        BY <2>5 DEF Fw!ReadImage, got
      <4> QED BY <4>1, <4>2, HalfType
    <3> QED BY <2>0, <2>5, <3>1 DEF Fw!ReadImage, Fw!Pcs
  <2>6. CASE Fw!WriteImage
    <3>1. disk' \in [Images -> [Fdd!Blocks -> [0..(SECTOR_SIZE - 1) -> Byte]]]
      <4> DEFINE old == disk[imagefile]
                 new == Fw!Fdd!fdd_writesector(old, blk, buffer)
                 half == [b \in DOMAIN old |-> Fw!Half(new[b], old[b])]
      <4>1. old \in [Fdd!Blocks -> [0..(SECTOR_SIZE - 1) -> Byte]]
        OBVIOUS
      <4>2. new \in [Fdd!Blocks -> [0..(SECTOR_SIZE - 1) -> Byte]]
        BY <4>1, ReadType
      <4>3. half \in [Fdd!Blocks -> [0..(SECTOR_SIZE - 1) -> Byte]]
        BY <4>1, <4>2, HalfType
      <4>4. \/ disk' = disk
            \/ disk' = [disk EXCEPT ![imagefile] = new]
            \/ disk' = [disk EXCEPT ![imagefile] = half]
        BY <2>6, Zenon DEF Fw!WriteImage
      <4> HIDE DEF new, half
      <4> QED BY <4>2, <4>3, <4>4
    <3> QED BY <2>0, <2>6, <3>1 DEF Fw!WriteImage, Fw!Pcs
  <2>7. CASE Fw!Report
    BY <2>0, <2>7 DEF Fw!Report, StatusWords, Fw!Pcs
  <2> QED BY <2>1, <2>2, <2>3, <2>4, <2>5, <2>6, <2>7 DEF FirmwareStep, Fw!Step
<1>3. Inv'
  BY <1>2, FirmwareInv DEF FirmwareStep, Firmware, Typed
<1> QED BY <1>1, <1>2, <1>3 DEF Typed

LEMMA StutterTyped ==
  ASSUME Typed, UNCHANGED <<wdVars, iCPU_STATUS, fwState, gap>>, card' \in BOOLEAN, HostTypes'
  PROVE  Typed'
<1>1. Inv'
  BY NextInv DEF Typed, vars
<1>2. BoardTypes'
  BY DEF Typed, BoardTypes, fwState
<1> QED BY <1>1, <1>2 DEF Typed

LEMMA KeyResetTyped ==
  ASSUME Typed, KeyReset
  PROVE  Typed'
<1>1. Inv'
  BY ResetInv DEF Typed, KeyReset
<1>2. BoardTypes'
  BY GeometryAssumption DEF Typed, BoardTypes, KeyReset, Fw!Pcs
<1>3. HostTypes'
  BY DEF Typed, HostTypes, KeyReset
<1> QED BY <1>1, <1>2, <1>3 DEF Typed

LEMMA NextTyped == Typed /\ [SysNext]_sysVars => Typed'
<1> SUFFICES ASSUME Typed, [SysNext]_sysVars PROVE Typed'
  OBVIOUS
<1> USE DEF Typed, BoardTypes, HostTypes, hostState
<1>1. CASE HostClock
  BY <1>1, HostClockTyped
<1>2. CASE FirmwareStep
  BY <1>2, FirmwareTyped
<1>3. CASE KeyReset
  BY <1>3, KeyResetTyped
<1>4. CASE SeeDrq \/ SeeDone
  BY <1>4, StutterTyped DEF SeeDrq, SeeDone
<1>5. CASE HostReset
  BY <1>5, StutterTyped DEF HostReset
<1>6. CASE Card
  BY <1>6, StutterTyped DEF Card, CardOut, CardIn
<1>7. CASE UNCHANGED sysVars
  BY <1>7, StutterTyped DEF sysVars
<1> QED BY <1>1, <1>2, <1>3, <1>4, <1>5, <1>6, <1>7 DEF SysNext, Host, HostClock

\* Every variable of the board, its firmware and its host has its type, whatever
\* the host does and when.
THEOREM BoardTyped == SysSpec => []SysTypeOK
<1>1. Typed => SysTypeOK
  BY TypedIsTypeOK
<1> QED BY <1>1, InitTyped, NextTyped, PTL DEF SysSpec

-----------------------------------------------------------------------------
(* The controller's clock, sorted by its state.                            *)

\* A command is dispatched.
Dispatched(op, dir) ==
  \/ Restore(op) \/ Seek(op) \/ Step(op, dir)
  \/ ReadSector(op) \/ ReadAddress(op) \/ WriteSector(op) \/ TrackOperation(op)

LEMMA DispatchGuard ==
  ASSUME NEW op, NEW dir, Dispatched(op, dir)
  PROVE  state = "READY" /\ wdstat_pending
BY DEF Dispatched, Restore, Seek, Step, ReadSector, ReadAddress, WriteSector, TrackOperation,
       Dispatch

\* Each state has its action.
LEMMA ByState ==
  ASSUME NEW op, NEW dir, NEW din, Tick(op, dir, din)
  PROVE  /\ state = "DEAD" => Dead
         /\ state # "DEAD" => buff_wr' = (state = "WRITE_1")
         /\ state = "READY" => (~wdstat_pending /\ Idle(op)) \/ Dispatched(op, dir)
         /\ state = "WAIT_CPUREAD" => WaitCpuRead(op)
         /\ state = "READ_1" => Read1(op)
         /\ state = "READ_2" => Read2(op)
         /\ state = "READ_3" => Read3(op, din)
         /\ state = "READSECT" => ReadSect(op)
         /\ state = "WRITESECT" => WriteSect(op)
         /\ state = "WRITE_1" => Write1(op)
         /\ state = "WRITE_2" => Write2(op)
         /\ state = "WAIT_CPUWRITE" => WaitCpuWrite(op)
         /\ state = "WAIT_CPU" => WaitCpu(op)
         /\ state = "ABORT" => Abort(op)
         /\ state = "ENDCOMMAND" => EndCommand(op)
         /\ state = "ENDCOMMAND2" => EndCommand2(op)
<1>1. /\ Dead => state = "DEAD"
      /\ Idle(op) => state = "READY" /\ ~wdstat_pending
      /\ WaitCpuRead(op) => state = "WAIT_CPUREAD"
      /\ Read1(op) => state = "READ_1"
      /\ Read2(op) => state = "READ_2"
      /\ Read3(op, din) => state = "READ_3"
      /\ ReadSect(op) => state = "READSECT"
      /\ WriteSect(op) => state = "WRITESECT"
      /\ Write1(op) => state = "WRITE_1"
      /\ Write2(op) => state = "WRITE_2"
      /\ WaitCpuWrite(op) => state = "WAIT_CPUWRITE"
      /\ WaitCpu(op) => state = "WAIT_CPU"
      /\ Abort(op) => state = "ABORT"
      /\ EndCommand(op) => state = "ENDCOMMAND"
      /\ EndCommand2(op) => state = "ENDCOMMAND2"
  BY DEF Dead, Idle, WaitCpuRead, Read1, Read2, Read3, ReadSect, WriteSect, Write1, Write2,
         WaitCpuWrite, WaitCpu, Abort, EndCommand, EndCommand2
<1>2. Dispatched(op, dir) => state = "READY" /\ wdstat_pending
  BY DispatchGuard
<1> QED BY <1>1, <1>2 DEF Tick, Dispatched

-----------------------------------------------------------------------------
(* A polling host never overruns the controller.                           *)

\* The controller dies of nothing but a command on top of a pending one.
LEMMA DiesOfOverrun ==
  ASSUME Inv, NEW op, NEW dir, NEW din, Tick(op, dir, din), state # "DEAD", ~Overrun(op)
  PROVE  state' # "DEAD"
<1>1. BusState(op) # "DEAD"
  BY DEF BusState
<1>2. state \in States
  BY DEF Inv, TypeOK, PortsOK
<1> USE <1>1, ByState
<1>3. CASE state = "READY"
  BY <1>3 DEF Dispatched, Idle, Restore, Seek, Step, SeekRequest, ReadSector, ReadAddress,
              WriteSector, TrackOperation
<1>4. CASE state \in {"WAIT_CPUREAD", "WAIT_CPUWRITE", "WAIT_CPU"}
  BY <1>4 DEF WaitCpuRead, WaitCpuWrite, WaitCpu
<1>5. CASE state \in ReadStates \cup WriteStates
  BY <1>5 DEF ReadStates, WriteStates, Read1, Read2, Read3, ReadSect, WriteSect, Write1, Write2
<1>6. CASE state \in {"ABORT", "ENDCOMMAND", "ENDCOMMAND2"}
  BY <1>6 DEF Abort, EndCommand, EndCommand2
<1> QED BY <1>2, <1>3, <1>4, <1>5, <1>6 DEF States, ReadStates, WriteStates

LEMMA NextNeverDead ==
  ASSUME Typed, NeverDead, [SysNext]_sysVars
  PROVE  NeverDead'
<1> USE DEF NeverDead
<1>1. CASE HostClock
  <2>1. UNCHANGED patience
    BY <1>1 DEF HostClock, Wait, Boot, Select, hostState, Issue, In, Hold, Out, Interrupt
  <2>2. PICK op : BoardClock(op) /\ (NewCommand(op) => NotBusy)
    BY <1>1, HostCycle DEF Typed
  <2>3. PICK dir \in StepBus : Tick(op, dir, buffer[buff_addr])
    BY <2>2 DEF BoardClock
  <2>4. patience # "none" => ~Overrun(op)
    BY <2>2 DEF NotBusy, Overrun, StatusBusy
  <2> QED BY <2>1, <2>3, <2>4, DiesOfOverrun DEF Typed
<1>2. CASE FirmwareStep \/ SeeDrq \/ SeeDone \/ HostReset \/ Card \/ UNCHANGED sysVars
  BY <1>2 DEF FirmwareStep, SeeDrq, SeeDone, HostReset, Card, sysVars, wdVars, hostState
<1>3. CASE KeyReset
  BY <1>3 DEF KeyReset, Reset
<1> QED BY <1>1, <1>2, <1>3 DEF SysNext, Host, HostClock

\* A host that polls BUSY before every command never overruns the controller,
\* whatever the card, the firmware and the reset keys do meanwhile.
THEOREM PollingHostIsSafe == SysSpec => []NeverDead
<1>1. SysInit => NeverDead
  BY DEF SysInit, Init, NeverDead
<1>2. SysSpec => []Typed
  BY InitTyped, NextTyped, PTL DEF SysSpec
<1>3. Typed /\ NeverDead /\ [SysNext]_sysVars => NeverDead'
  BY NextNeverDead
<1> QED BY <1>1, <1>2, <1>3, PTL DEF SysSpec

-----------------------------------------------------------------------------
(* The handshake between controller and firmware.                          *)

\* Where a clock without $D0 takes the controller, what it does to the request and
\* to the 6502.
Moved ==
  /\ state = "READY" => state' \in {"READY", "WAIT_CPUREAD", "WAIT_CPU", "WRITESECT"}
  /\ state \in WaitStates =>
       \/ /\ state' = state /\ UNCHANGED oCPU_REQUEST
          /\ "COMPLETE" \notin iCPU_STATUS
       \/ /\ state' \in {"READ_2", "ENDCOMMAND"}
          /\ \/ "COMPLETE" \in iCPU_STATUS
             \/ "DRVNOTRDY" \in iCPU_STATUS /\ state' = "ENDCOMMAND"
  /\ state = "READ_1" => state' = "READ_2"
  /\ state = "READ_2" => state' = "READ_3"
  /\ state = "READ_3" => state' \in {"READ_3", "READSECT"}
  /\ state = "READSECT" => state' \in {"READSECT", "READ_1", "ENDCOMMAND"}
  /\ state \in WriteStates => state' \in WriteStates \cup {"WAIT_CPUWRITE"}
  /\ state = "ENDCOMMAND" => state' = "ENDCOMMAND2"
  /\ state = "ENDCOMMAND2" =>
       state' = "ENDCOMMAND2" \/ (state' = "READY" /\ iCPU_STATUS = {})
  /\ buff_rd' = IF state = "READ_2" THEN TRUE
                ELSE IF state = "READSECT" /\ state' = "ENDCOMMAND" THEN buff_rd'
                ELSE buff_rd

LEMMA Moves ==
  ASSUME Inv, NEW op, NEW dir, NEW din, Tick(op, dir, din), ~ForceInt(op),
         state \notin {"ABORT", "DEAD"}, state' # "DEAD"
  PROVE  Moved
<1>1. BusState(op) \in {state, "DEAD"}
  BY DEF BusState
<1>2. state \in States
  BY DEF Inv, TypeOK, PortsOK
<1> USE <1>1, ByState DEF Moved, xferRegs, WaitStates, WriteStates
<1>3. CASE state = "READY"
  BY <1>3 DEF Dispatched, Idle, Restore, Seek, Step, SeekRequest, ReadSector, ReadAddress,
              WriteSector, TrackOperation
<1>4. CASE state \in WaitStates
  BY <1>4 DEF WaitCpuRead, WaitCpuWrite, WaitCpu, CpuFailed, CpuDone
<1>5. CASE state \in {"READ_1", "READ_2", "READ_3"}
  BY <1>5 DEF Read1, Read2, Read3
<1>6. CASE state = "READSECT"
  <2>1. buff_rd \in BOOLEAN
    BY DEF Inv, TypeOK, FlagsOK
  <2> QED BY <1>6, <2>1 DEF ReadSect
<1>7. CASE state \in WriteStates
  BY <1>7 DEF WriteSect, Write1, Write2
<1>8. CASE state \in {"ENDCOMMAND", "ENDCOMMAND2"}
  BY <1>8 DEF EndCommand, EndCommand2, CpuClear
<1> QED BY <1>2, <1>3, <1>4, <1>5, <1>6, <1>7, <1>8 DEF States

LEMMA ClockHand ==
  ASSUME Typed, HandInv, NEW op, BoardClock(op), ~ForceInt(op)
  PROVE  HandInv'
<1>1. PICK dir \in StepBus : Tick(op, dir, buffer[buff_addr])
  BY DEF BoardClock
<1>2. UNCHANGED <<pc, cmd, fetched, answered, iCPU_STATUS>>
  BY DEF BoardClock
<1>3. StatusByPlace'
  BY <1>2 DEF HandInv, StatusByPlace
<1>4. CASE state = "DEAD"
  BY <1>1, <1>3, <1>4, ByState DEF HandInv, Dead
<1>5. CASE state # "DEAD" /\ state' = "DEAD"
  BY <1>3, <1>5 DEF HandInv
<1>6. CASE state # "DEAD" /\ state' # "DEAD"
  <2> USE <1>6 DEF HandInv
  <2>1. /\ state \in States
        /\ gap \in Nat /\ buff_rd \in BOOLEAN
    BY DEF Typed, Inv, TypeOK, PortsOK, FlagsOK, BoardTypes
  <2>2. gap' = IF Running /\ gap < CPU_GAP THEN gap + 1 ELSE gap
    BY DEF BoardClock
  <2>3. oCPU_REQUEST' = oCPU_REQUEST => asked' = asked
    BY DEF BoardClock
  <2>m. Moved
    BY <1>1, Moves DEF Typed
  <2>4. state' # "ABORT"
    BY <2>1, <2>m DEF Moved, States, WaitStates, WriteStates
  <2>5. WorkIsWanted'
    <3>1. SUFFICES ASSUME Working PROVE WorkIsWanted'
      BY <1>2 DEF WorkIsWanted, Working
    <3>2. state' = state /\ UNCHANGED <<oCPU_REQUEST, asked>>
      BY <2>3, <2>m, <3>1 DEF Moved, WorkIsWanted, WaitStates
    <3> QED BY <1>2, <3>1, <3>2 DEF WorkIsWanted
  <2>6. AnswerInPlace'
    BY <1>2, <2>1, <2>m DEF Moved, AnswerInPlace, WaitStates, ReadStates, WriteStates
  <2>7. HeldStill'
    <3>1. CASE state = "READY" \/ state \in WriteStates \cup {"ENDCOMMAND", "ENDCOMMAND2"}
      BY <2>m, <3>1 DEF Moved, HeldStill, WaitStates, ReadStates, WriteStates
    <3>2. CASE state \in WaitStates
      <4>1. state' \in {state, "READ_2", "ENDCOMMAND"}
        BY <2>m, <3>2 DEF Moved
      <4>2. state' \in {"READ_2", "ENDCOMMAND"} /\ pc # "main" /\ (state' = "READ_2" \/ pc = "poll")
              => gap = 0
        BY <2>m, <3>2 DEF Moved, AnswerInPlace, StatusByPlace, WaitStates, ReadStates
      <4>3. gap = 0 => gap' \in {0, 1}
        BY <2>2
      <4> QED BY <1>2, <2>1, <3>2, <4>1, <4>2, <4>3 DEF HeldStill, WaitStates, ReadStates
    <3>3. CASE state \in ReadStates
      <4>1. gap <= 1 => gap' <= 2
        BY <2>1, <2>2
      <4>2. buff_rd => gap' = gap
        BY <2>2 DEF Running
      <4> QED BY <1>2, <2>1, <2>m, <3>3, <4>1, <4>2 DEF Moved, HeldStill, ReadStates
    <3> QED BY <2>1, <3>1, <3>2, <3>3 DEF States, WaitStates, ReadStates, WriteStates
  <2> QED BY <1>3, <2>4, <2>5, <2>6, <2>7
<1> QED BY <1>4, <1>5, <1>6

\* Where the firmware may be when the controller is not idle.
LEMMA FirmwareHand ==
  ASSUME Typed, HandInv, FirmwareStep
  PROVE  HandInv'
<1> USE GapAssumption, GeometryAssumption
<1>1. UNCHANGED <<state, oCPU_REQUEST, buff_rd, asked>> /\ gap = CPU_GAP /\ gap' = 0 /\ ~buff_rd
  BY DEF FirmwareStep, wdVars, xferRegs, Running
<1>2. state # "DEAD" => state \notin ReadStates \/ pc = "main"
  BY <1>1 DEF HandInv, HeldStill, Typed, BoardTypes
<1>3. state # "DEAD" /\ pc = "poll" => state # "ENDCOMMAND"
  BY <1>1 DEF HandInv, HeldStill, Typed, BoardTypes
<1>4. iCPU_STATUS \in StatusWords /\ oCPU_REQUEST \in Requests
  BY DEF Typed, Inv, TypeOK, PortsOK
<1>5. HeldStill' \/ state = "DEAD"
  <2>1. state \in {"READ_1", "READ_3", "READSECT"} => state = "DEAD" \/ buff_rd
    BY DEF HandInv, HeldStill
  <2> QED BY <1>1, <2>1 DEF HeldStill
<1> USE DEF FirmwareStep, HandInv
<1>6. CASE Fw!Main \/ Fw!Thrall \/ Fw!Mount \/ Fw!SlaveEntry \/ Fw!Exit \/ Fw!Away
  BY <1>1, <1>4, <1>5, <1>6
     DEF StatusByPlace, WorkIsWanted, Working, AnswerInPlace,
         Fw!Main, Fw!Thrall, Fw!Mount, Fw!SlaveEntry, Fw!Exit, Fw!Away
<1>7. CASE Fw!Poll
  <2> USE <1>7 DEF Fw!Poll
  <2>1. StatusByPlace'
    BY DEF StatusByPlace
  <2>2. ASSUME state # "DEAD" PROVE WorkIsWanted' /\ AnswerInPlace'
    <3>1. "COMPLETE" \in iCPU_STATUS => state = "ENDCOMMAND2"
      BY <1>1, <1>2, <1>3, <2>2 DEF AnswerInPlace
    <3>2. state = "ENDCOMMAND2" => oCPU_REQUEST.op = "ACK"
      BY DEF Typed, Inv, RequestMatchesState
    <3>3. oCPU_REQUEST.op \in WorkRequests => state \in WaitStates
      BY <1>2, <1>3, <2>2, <3>2
         DEF Typed, Inv, RequestMatchesState, TypeOK, PortsOK, States, WorkRequests, ReadRequests,
             WaitStates, ReadStates, WriteStates
    <3>4. state \in WaitStates => state # "ENDCOMMAND2"
      BY DEF WaitStates
    <3> QED BY <1>1, <3>1, <3>2, <3>3, <3>4
            DEF StatusByPlace, WorkIsWanted, Working, AnswerInPlace, WorkRequests, ReadRequests
  <2> QED BY <1>1, <1>5, <2>1, <2>2
<1>8. CASE Fw!DispatchWork \/ Fw!DispatchAck \/ Fw!DispatchFail \/ Fw!DispatchIdle
  BY <1>1, <1>5, <1>8
     DEF StatusByPlace, WorkIsWanted, Working, AnswerInPlace, WorkRequests, ReadRequests,
         Fw!DispatchWork, Fw!DispatchAck, Fw!DispatchFail, Fw!DispatchIdle
<1>9. CASE Fw!Seek \/ Fw!ReadImage \/ Fw!WriteImage
  <2>1. pc \in {"seek", "io"} /\ pc' \in {"io", "report"} /\ UNCHANGED <<cmd, iCPU_STATUS>>
    BY <1>9, Zenon DEF Fw!Seek, Fw!ReadImage, Fw!WriteImage
  <2> QED BY <1>1, <1>5, <2>1 DEF StatusByPlace, WorkIsWanted, Working, AnswerInPlace
<1>10. CASE Fw!Report
  <2>1. pc = "report" /\ pc' \in {"poll", "exit"} /\ UNCHANGED cmd
    BY <1>10 DEF Fw!Report
  <2>2. "COMPLETE" \in iCPU_STATUS' /\ iCPU_STATUS' \cap {"DRVNOTRDY", "BUSY"} = {}
    BY <1>10 DEF Fw!Report
  <2>3. answered' = fetched
    BY <2>1
  <2> QED BY <1>1, <1>5, <2>1, <2>2, <2>3 DEF StatusByPlace, WorkIsWanted, Working, AnswerInPlace
<1> QED BY <1>6, <1>7, <1>8, <1>9, <1>10 DEF Fw!Step

LEMMA NextHand ==
  ASSUME AbortOf = {}, Typed, HandInv, [SysNext]_sysVars
  PROVE  HandInv'
<1>1. CASE HostClock
  <2>1. PICK op : BoardClock(op) /\ (ForceInt(op) => hcmd \in AbortOf)
    BY <1>1, HostCycle DEF Typed
  <2> QED BY <2>1, ClockHand
<1>2. CASE FirmwareStep
  BY <1>2, FirmwareHand
<1>3. CASE KeyReset
  BY <1>3 DEF KeyReset, Reset, HandInv, StatusByPlace, WorkIsWanted, Working, AnswerInPlace,
              HeldStill, ReadStates
<1>4. CASE SeeDrq \/ SeeDone \/ HostReset \/ Card \/ UNCHANGED sysVars
  <2>1. UNCHANGED <<wdVars, iCPU_STATUS, fwState, gap, history>>
    BY <1>4 DEF SeeDrq, SeeDone, HostReset, Card, sysVars
  <2> QED BY <2>1 DEF wdVars, xferRegs, fwState, history, HandInv, StatusByPlace, WorkIsWanted,
                      Working, AnswerInPlace, HeldStill
<1> QED BY <1>1, <1>2, <1>3, <1>4 DEF SysNext, Host, HostClock

LEMMA InitHand == SysInit => HandInv
BY DEF SysInit, Init, HandInv, StatusByPlace, WorkIsWanted, Working, AnswerInPlace,
       HeldStill, ReadStates

LEMMA HandInvariant ==
  ASSUME AbortOf = {}
  PROVE  SysSpec => [](Typed /\ HandInv)
<1>1. SysInit => Typed /\ HandInv
  BY InitTyped, InitHand
<1>2. (Typed /\ HandInv) /\ [SysNext]_sysVars => (Typed /\ HandInv)'
  BY NextTyped, NextHand
<1> QED BY <1>1, <1>2, PTL DEF SysSpec

\* The firmware does what its place in the loop says.
LEMMA ByPlace ==
  ASSUME Fw!Step
  PROVE  /\ pc = "away" => Fw!Away
         /\ pc = "seek" => Fw!Seek
         /\ pc = "io" => (Fw!ReadImage /\ cmd.op = "READ") \/ (Fw!WriteImage /\ cmd.op = "WRITE")
         /\ pc = "report" => Fw!Report
         /\ pc' # "main"
         /\ pc \in {"seek", "io", "report"} \/ Fw!DispatchIdle \/
              UNCHANGED <<buffer, disk, imagefile, blk>>
         /\ buffer' # buffer => pc \in {"seek", "io"} /\ cmd.op \in {"READ", "READADDR"}
         /\ disk' # disk => Fw!WriteImage
         /\ pc' = "io" => pc = "seek"
         /\ pc' = "report" => pc \in {"seek", "io"} \/ (pc = "dispatch" /\ cmd.op = "NOP")
         /\ pc \in {"dispatch", "seek", "io", "report"} => UNCHANGED cmd
         /\ "SUCCESS" \in iCPU_STATUS' => "SUCCESS" \in iCPU_STATUS \/ pc = "report"
BY DEF Fw!Step, Fw!Main, Fw!Thrall, Fw!Mount, Fw!SlaveEntry, Fw!Poll, Fw!DispatchWork,
       Fw!DispatchAck, Fw!DispatchFail, Fw!DispatchIdle, Fw!Seek, Fw!ReadImage, Fw!WriteImage,
       Fw!Report, Fw!Exit, Fw!Away

\* A host that lets its commands end: the controller never acts on the answer to
\* an earlier request, however late the firmware is, and even if the host overruns it.
THEOREM AnswersAreFresh ==
  ASSUME AbortOf = {}
  PROVE  SysSpec => []NoStaleAnswer
<1>1. Typed /\ HandInv => NoStaleAnswer
  BY DEF HandInv, AnswerInPlace, NoStaleAnswer, WaitStates, ReadStates
<1> QED BY <1>1, HandInvariant, PTL

\* A host that polls BUSY and lets its commands end never finds the firmware
\* in the sector buffer while its own bytes are there.
THEOREM BufferIsGuarded ==
  ASSUME AbortOf = {}, "none" \notin Patience
  PROVE  SysSpec => BufferGuarded
<1> DEFINE Guarded == buffer' # buffer /\ pc' # pc => state = "WAIT_CPUREAD"
<1>1. Typed /\ HandInv /\ NeverDead /\ [SysNext]_sysVars => [Guarded]_sysVars
  <2> SUFFICES ASSUME Typed, HandInv, NeverDead, SysNext, buffer' # buffer, pc' # pc
               PROVE  state = "WAIT_CPUREAD"
    OBVIOUS
  <2>1. state # "DEAD"
    BY DEF Typed, HostTypes, NeverDead
  <2>2. FirmwareStep
    <3>1. HostClock => UNCHANGED pc
      BY HostCycle DEF Typed, BoardClock
    <3>2. SeeDrq \/ SeeDone \/ HostReset \/ KeyReset \/ Card => UNCHANGED buffer
      BY DEF SeeDrq, SeeDone, HostReset, KeyReset, Card, fwState
    <3> QED BY <3>1, <3>2 DEF SysNext, Host, HostClock
  <2>3. pc \in {"seek", "io"} /\ cmd.op \in {"READ", "READADDR"}
    BY <2>2, ByPlace DEF FirmwareStep
  <2>4. state \in WaitStates /\ oCPU_REQUEST = cmd
    BY <2>1, <2>3 DEF HandInv, WorkIsWanted, Working
  <2> QED BY <2>3, <2>4 DEF Typed, Inv, RequestMatchesState, WaitStates
<1>2. SysSpec => [](Typed /\ HandInv) /\ []NeverDead
  BY HandInvariant, PollingHostIsSafe, PTL
<1>3. SysSpec => [][Guarded]_sysVars
  BY <1>1, <1>2, PTL DEF SysSpec
<1> QED BY <1>3, PTL DEF BufferGuarded

-----------------------------------------------------------------------------
(* What passes between the host and the image, for a host that waits for   *)
(* its commands to finish.                                                 *)

\* What the controller is doing is what the host waits for, or nothing it knows of
\* any more (F11).
Knows ==
  /\ wdstat_pending => hcmd \in {wdstat_command, "NONE"}
  /\ state \in ReadStates \cup {"WAIT_CPUREAD"} => hcmd \in {oCPU_REQUEST.op, "NONE"}
  /\ state \in WriteStates \cup {"WAIT_CPUWRITE"} => hcmd \in {"WRITE", "NONE"}
  /\ state = "WAIT_CPU" => hcmd \notin {"READ", "READADDR", "WRITE"}

\* Where the host is.
HostPlace ==
  /\ wdstat_pending => state = "READY" /\ hpc \in {"boot", "issued"}
  /\ hpc = "issued" => wdstat_pending
  /\ hpc = "ready" => state = "READY"
  /\ hpc \in {"boot", "ready"} => hcmd = "NONE"
  /\ hpc = "fetch" => hcmd \in {"READ", "READADDR", "WRITE"}
  /\ hpc = "fetch" /\ hcmd = "WRITE" => state = "WRITESECT"
  /\ hpc = "in" => hcmd \in {"READ", "READADDR"}
  /\ hpc = "out" => hcmd = "WRITE"

\* Where the controller's signals are up.
Signals ==
  /\ s_drq => state \in {"READSECT", "WRITESECT"}
  /\ state = "READSECT" => s_drq /\ wdstat_datareg = buffer[buff_addr]
  /\ buff_wr <=> state = "WRITE_2"

\* Until the firmware has begun, the host gets no further than its RESTORE.
AtMain ==
  pc = "main" =>
    /\ state \in {"READY", "WAIT_CPU", "ENDCOMMAND", "ENDCOMMAND2"}
    /\ hcmd \in {"NONE", "RESTORE"} /\ (wdstat_pending => wdstat_command = "RESTORE")
    /\ state = "READY" /\ ~wdstat_pending => hpc = "boot"
    /\ state \in {"ENDCOMMAND", "ENDCOMMAND2"} => "COMPLETE" \in iCPU_STATUS

PlaceInv == state # "DEAD" /\ Knows /\ HostPlace /\ Signals /\ AtMain

\* The host reads, and the watchdog has taken no byte from it.
Reading == hcmd \in {"READ", "READADDR"} /\ ~late

\* The bytes the host has are those the controller has given.
CountInv ==
  Reading =>
    /\ wdstat_pending \/ state = "WAIT_CPUREAD" => hbytes = <<>>
    /\ state \in {"READ_2", "READ_3", "READSECT"} => Len(hbytes) = buff_addr
    /\ state = "READ_1" => Len(hbytes) = buff_addr + 1
    /\ hpc = "fetch" => state = "READSECT"
    /\ hpc = "in" => \/ hold = 2 /\ state \in {"READ_1", "ENDCOMMAND"}
                     \/ hold = 1 /\ state \in {"READ_2", "ENDCOMMAND2"}
    /\ hcmd = "READ" /\ ~wdstat_pending /\ state \in {"ENDCOMMAND", "ENDCOMMAND2", "READY"} =>
         Len(hbytes) = SECTOR_SIZE \/ s_seekerr

\* The menu may change the image under a request, and then answers that the drive
\* is not ready.
Changing == \/ pc = "away" /\ (state = "READY" => gap = 0)
            \/ pc = "mount" /\ state = "WAIT_CPUREAD" /\ gap = 0

Position(drive, side) ==
  IF drive = 0 THEN Fdd!calc_offset(side, disk_track, wdstat_sector) ELSE -1

\* The request asks for what the host wants.
RequestInv ==
  /\ hcmd = "READ" /\ wdstat_pending => hwant = Addressed
  /\ hcmd = "READ" /\ state = "WAIT_CPUREAD" =>
       hwant = Position(oCPU_REQUEST.drive, oCPU_REQUEST.side)
  /\ hcmd = "READ" /\ state = "WAIT_CPUREAD" /\ pc = "io" =>
       blk = hwant
  /\ hcmd = "READ" /\ (wdstat_pending \/ state = "WAIT_CPUREAD") =>
       expected = SectorAt(hwant) \/ Changing
  /\ hcmd = "READADDR" /\ wdstat_pending => expected = AddressField
  /\ hcmd = "READADDR" /\ state = "WAIT_CPUREAD" =>
       expected = <<disk_track, oCPU_REQUEST.side, wdstat_sector, 3, 0, 0>>

Filled == \A i \in DOMAIN expected : i <= SECTOR_SIZE => buffer[i - 1] = expected[i]

\* From the firmware's answer to the last byte the buffer holds what the host wants.
FilledInv ==
  /\ hcmd \in {"READ", "READADDR"} =>
       /\ state \in ReadStates => Filled
       /\ state = "WAIT_CPUREAD" /\ "SUCCESS" \in iCPU_STATUS => Filled
       /\ state = "WAIT_CPUREAD" /\ pc = "report" /\ result = "OK" => Filled

\* A sector or an address field is due, or nothing if the image ends before it.
DueInv ==
  /\ hcmd \in {"READ", "READADDR"} => expected \in Seq(Byte)
  /\ hcmd = "READ" => expected = <<>> \/ Len(expected) = SECTOR_SIZE
  /\ hcmd = "READADDR" => Len(expected) = 6

DeliveredInv ==
  Reading /\ expected # <<>> =>
    /\ Len(hbytes) <= Len(expected)
    /\ \A i \in 1..Len(hbytes) : hbytes[i] = expected[i]

ReadInv == CountInv /\ RequestInv /\ FilledInv /\ DueInv /\ DeliveredInv

WriteInv ==
  /\ wdstat_drive = 0
  /\ wdstat_pending /\ wdstat_command = "WRITE" => hwant = Addressed /\ hbytes = <<>>
  /\ state \in WriteStates \cup {"WAIT_CPUWRITE"} => hwant = Addressed
  /\ state = "WAIT_CPUWRITE" => /\ oCPU_REQUEST.side = wdstat_side
                                /\ Len(hbytes) = SECTOR_SIZE
                                /\ \A i \in 1..SECTOR_SIZE : buffer[i - 1] = hbytes[i]
                                /\ pc = "io" => blk = hwant
  /\ state \in WriteStates => \A i \in 1..buff_addr : buffer[i - 1] = hbytes[i]
  /\ state = "WRITESECT" => Len(hbytes) = buff_addr
  /\ state \in {"WRITE_1", "WRITE_2"} => /\ Len(hbytes) = buff_addr + 1
                                         /\ hbytes[buff_addr + 1] = wdstat_datareg

-----------------------------------------------------------------------------
(* A clock in which the host writes nothing.                               *)

Quiet(op) == op \in {NoOp, ReadOp}

LEMMA QuietBus ==
  ASSUME Inv, NEW op, Quiet(op)
  PROVE  /\ BusOp(op) /\ ~NewCommand(op) /\ ~ForceInt(op) /\ op.kind # "wr_data"
         /\ BusData(op) = wdstat_datareg /\ BusState(op) = state
         /\ BusErrors(op) <=> UNCHANGED errRegs
         /\ BusRegisters(op) =>
              UNCHANGED <<wdstat_sector, wdstat_side, wdstat_drive, wdstat_command>>
         /\ BusOnly(op) => wdstat_pending' = wdstat_pending
<1>1. op.kind \in {"none", "rd_data"}
  BY DEF Quiet, NoOp, ReadOp
<1>2. wdstat_pending \in BOOLEAN
  BY DEF Inv, TypeOK, FlagsOK
<1> QED BY <1>1, <1>2 DEF BusOp, NewCommand, ForceInt, BusData, BusState, Overrun, BusErrors,
                          BusRegisters, BusSector, BusOnly, BusPending

\* What a dispatched command does.
DispatchMoved ==
  /\ ~wdstat_pending'
  /\ \/ /\ wdstat_command \in TypeI
        /\ state' = "WAIT_CPU" /\ s_drq_busy' = 1
     \/ /\ wdstat_command \in {"READ", "READADDR"}
        /\ state' = "WAIT_CPUREAD" /\ s_drq_busy' = 1 /\ UNCHANGED disk_track
        /\ oCPU_REQUEST' = Request(wdstat_command, wdstat_drive, wdstat_side)
     \/ /\ wdstat_command = "WRITE"
        /\ state' = "WRITESECT" /\ s_drq_busy' = 3 /\ buff_addr' = 0 /\ UNCHANGED disk_track
     \/ /\ wdstat_command = "TRACK"
        /\ state' = "READY" /\ s_drq_busy' = 0

LEMMA QuietDispatch ==
  ASSUME Inv, NEW op, Quiet(op), NEW dir, Dispatched(op, dir)
  PROVE  /\ UNCHANGED <<wdstat_sector, wdstat_side, wdstat_drive, wdstat_command, wdstat_datareg>>
         /\ DispatchMoved
<1> USE QuietBus DEF Dispatch, headRegs, DispatchMoved
<1>1. CASE Restore(op) \/ Seek(op) \/ Step(op, dir)
  BY <1>1 DEF Restore, Seek, Step, SeekRequest, TypeI
<1>2. CASE ReadSector(op) \/ ReadAddress(op)
  BY <1>2 DEF ReadSector, ReadAddress
<1>3. CASE WriteSector(op) \/ TrackOperation(op)
  BY <1>3, DispatchGuard DEF WriteSector, TrackOperation
<1> QED BY <1>1, <1>2, <1>3 DEF Dispatched

\* What a clock moves, state by state.
QuietMoved(op, din) ==
  /\ UNCHANGED <<wdstat_sector, wdstat_side, wdstat_drive, wdstat_command>>
  /\ state # "READY" => UNCHANGED <<wdstat_pending, disk_track>>
  /\ state # "READ_3" => UNCHANGED wdstat_datareg
  /\ state = "READY" /\ ~wdstat_pending =>
       UNCHANGED <<wdstat_pending, state, disk_track, oCPU_REQUEST, s_drq_busy, s_seekerr>>
  /\ state = "READY" /\ wdstat_pending => DispatchMoved
  /\ state \in WaitStates \cup {"ENDCOMMAND2"} => s_drq_busy' \in {s_drq_busy, 0}
  /\ state \in {"READ_1", "WRITE_1", "WRITESECT", "ENDCOMMAND"} => UNCHANGED s_drq_busy
  /\ state \in {"READ_2", "READ_3", "READSECT", "WRITESECT", "WRITE_1"} => UNCHANGED buff_addr
  /\ state \in WaitStates \cup ReadStates \cup {"WRITESECT", "WRITE_1"} => UNCHANGED oCPU_REQUEST
  /\ state = "WAIT_CPUREAD" =>
       \/ state' = state /\ "DRVNOTRDY" \notin iCPU_STATUS
       \/ state' = "ENDCOMMAND" /\ s_seekerr'
       \/ state' = "READ_2" /\ {"COMPLETE", "SUCCESS"} \subseteq iCPU_STATUS /\ buff_addr' = 0
  /\ state \in {"WAIT_CPU", "WAIT_CPUWRITE"} => state' \in {state, "ENDCOMMAND"}
  /\ state = "WAIT_CPU" /\ state' = "ENDCOMMAND" => "COMPLETE" \in iCPU_STATUS
  /\ state = "READ_1" => state' = "READ_2" /\ buff_addr' = wBuffAddrPlus1
  /\ state = "READ_2" => state' = "READ_3" /\ s_drq_busy' = 1
  /\ state = "READ_3" => \/ state' = "READ_3" /\ UNCHANGED s_drq_busy
                         \/ state' = "READSECT" /\ s_drq_busy' = 3 /\ wdstat_datareg' = din
  /\ state = "READSECT" /\ ByteTaken(op) =>
       /\ s_drq_busy' = 1
       /\ state' = IF LastByte THEN "ENDCOMMAND" ELSE "READ_1"
  /\ state = "READSECT" /\ ~ByteTaken(op) => UNCHANGED <<state, s_drq_busy>>
  /\ state = "WRITESECT" => UNCHANGED state
  /\ state = "WRITE_1" => state' = "WRITE_2"
  /\ state = "WRITE_2" =>
       /\ buff_addr' = wBuffAddrPlus1
       /\ IF LastByte
          THEN /\ state' = "WAIT_CPUWRITE" /\ UNCHANGED s_drq_busy
               /\ oCPU_REQUEST' = Request("WRITE", 0, wdstat_side)
          ELSE state' = "WRITESECT" /\ s_drq_busy' = 3 /\ UNCHANGED oCPU_REQUEST
  /\ state \in {"ENDCOMMAND", "ENDCOMMAND2"} => UNCHANGED s_seekerr
  /\ state = "ENDCOMMAND" => state' = "ENDCOMMAND2"
  /\ state = "ENDCOMMAND2" =>
       state' = "ENDCOMMAND2" \/ (state' = "READY" /\ iCPU_STATUS = {} /\ s_drq_busy' = 0)

LEMMA QuietMoves ==
  ASSUME Inv, NEW op, Quiet(op), NEW dir, NEW din, Tick(op, dir, din),
         state \notin {"ABORT", "DEAD"}
  PROVE  QuietMoved(op, din)
<1>1. state \in States
  BY DEF Inv, TypeOK, PortsOK
<1> USE QuietBus, ByState
    DEF QuietMoved, BusOnly, headRegs, xferRegs, errRegs, WaitStates, ReadStates
<1>2. CASE state = "READY" /\ ~wdstat_pending
  <2>1. Idle(op)
    BY <1>2, DispatchGuard
  <2> QED BY <1>2, <2>1 DEF Idle
<1>3. CASE state = "READY" /\ wdstat_pending
  BY <1>3, QuietDispatch
<1>4. CASE state = "WAIT_CPUREAD"
  BY <1>4 DEF WaitCpuRead, CpuFailed, CpuDone
<1>5. CASE state \in {"WAIT_CPU", "WAIT_CPUWRITE"}
  BY <1>5 DEF WaitCpu, WaitCpuWrite
<1>6. CASE state \in {"READ_1", "READ_2"}
  BY <1>6 DEF Read1, Read2
<1>7. CASE state = "READ_3"
  <2>1. Read3(op, din) /\ BusOnly(op) /\ UNCHANGED <<disk_track, buff_addr, oCPU_REQUEST>>
    BY <1>7 DEF Read3
  <2>2. \/ state' = "READ_3" /\ UNCHANGED <<wdstat_datareg, s_drq_busy>>
        \/ state' = "READSECT" /\ s_drq_busy' = 3 /\ wdstat_datareg' = din
    BY <1>7, <2>1 DEF Read3
  <2> QED BY <1>7, <2>1, <2>2
<1>8. CASE state = "READSECT"
  BY <1>8 DEF ReadSect
<1>9. CASE state \in {"WRITESECT", "WRITE_1"}
  BY <1>9 DEF WriteSect, Write1
<1>10. CASE state = "WRITE_2"
  BY <1>10 DEF Write2
<1>11. CASE state = "ENDCOMMAND"
  BY <1>11 DEF EndCommand
<1>12. CASE state = "ENDCOMMAND2"
  <2>1. EndCommand2(op) /\ BusOnly(op)
    BY <1>12 DEF EndCommand2
  <2>2. \/ state' = "READY" /\ iCPU_STATUS = {} /\ s_drq_busy' = 0
        \/ state' = "ENDCOMMAND2" /\ s_drq_busy' = s_drq_busy
    BY <1>12, <2>1 DEF EndCommand2, CpuClear
  <2> QED BY <1>12, <2>1, <2>2 DEF EndCommand2
<1> QED BY <1>1, <1>2, <1>3, <1>4, <1>5, <1>6, <1>7, <1>8, <1>9, <1>10, <1>11, <1>12 DEF States

-----------------------------------------------------------------------------
(* Where host and controller are.                                          *)

\* A clock in which the host writes nothing, on the board.
LEMMA QuietClock ==
  ASSUME Typed, HandInv, PlaceInv, NEW op, Quiet(op), BoardClock(op)
  PROVE  /\ QuietMoved(op, buffer[buff_addr]) /\ ~wdstat_pending'
         /\ state \in States \ {"ABORT", "DEAD"} /\ state' # "DEAD"
         /\ buff_wr' = (state = "WRITE_1")
         /\ buffer' = IF state = "WRITE_2" THEN [buffer EXCEPT ![buff_addr] = wdstat_datareg]
                      ELSE buffer
         /\ late' <=> (late \/ (state = "READSECT" /\ bark))
<1>1. PICK dir \in StepBus : Tick(op, dir, buffer[buff_addr])
  BY DEF BoardClock
<1>2. state \in States \ {"ABORT", "DEAD"}
  BY DEF Typed, Inv, TypeOK, PortsOK, HandInv, PlaceInv
<1>3. BusOp(op) /\ ~NewCommand(op)
  BY QuietBus DEF Typed
<1>4. QuietMoved(op, buffer[buff_addr])
  BY <1>1, <1>2, QuietMoves DEF Typed
<1>5. ~wdstat_pending'
  BY <1>4 DEF QuietMoved, DispatchMoved, PlaceInv, HostPlace
<1>6. state' # "DEAD"
  BY <1>1, <1>2, <1>3, DiesOfOverrun DEF Typed, Overrun
<1>7. buff_wr' = (state = "WRITE_1")
  BY <1>1, <1>2, ByState
<1>8. buffer' = IF state = "WRITE_2" THEN [buffer EXCEPT ![buff_addr] = wdstat_datareg] ELSE buffer
  BY DEF BoardClock, PlaceInv, Signals
<1>9. late' <=> (late \/ (state = "READSECT" /\ bark))
  BY <1>3 DEF BoardClock
<1> QED BY <1>2, <1>4, <1>5, <1>6, <1>7, <1>8, <1>9

LEMMA QuietPlace ==
  ASSUME Typed, HandInv, PlaceInv, NEW op, Quiet(op), BoardClock(op),
         hcmd' = hcmd,
         \/ hpc \notin {"in", "out"} /\ hpc' = IF hpc = "issued" THEN "run" ELSE hpc
         \/ hpc = "fetch" /\ hcmd # "WRITE" /\ hpc' = "in"
         \/ hpc \in {"in", "out"} /\ hpc' \in {hpc, "run"}
  PROVE  PlaceInv'
<1>1. state \in States \ {"ABORT", "DEAD"} /\ state' # "DEAD" /\ ~wdstat_pending'
  BY QuietClock
<1>2. QuietMoved(op, buffer[buff_addr])
  BY QuietClock
<1>3. Knows'
  <2>1. oCPU_REQUEST'.op = wdstat_command
          \/ state # "READY" \/ ~wdstat_pending \/ state' # "WAIT_CPUREAD"
    BY <1>2 DEF QuietMoved, DispatchMoved, Request
  <2> USE DEF PlaceInv, Knows, HostPlace, TypeI, StepCommands
  <2>2. CASE state = "READY"
    BY <1>1, <1>2, <2>1, <2>2 DEF QuietMoved, DispatchMoved, ReadStates, WriteStates
  <2>3. CASE state \in WaitStates
    BY <1>1, <1>2, <2>3 DEF QuietMoved, WaitStates, ReadStates, WriteStates
  <2>4. CASE state \in ReadStates
    BY <1>1, <1>2, <2>4 DEF QuietMoved, ReadStates, WriteStates
  <2>5. CASE state \in WriteStates
    BY <1>1, <1>2, <2>5 DEF QuietMoved, ReadStates, WriteStates
  <2>6. CASE state \in {"ENDCOMMAND", "ENDCOMMAND2"}
    BY <1>1, <1>2, <2>6 DEF QuietMoved, ReadStates, WriteStates
  <2> QED BY <1>1, <2>2, <2>3, <2>4, <2>5, <2>6 DEF States, WaitStates, ReadStates, WriteStates
<1>4. HostPlace'
  BY <1>1, <1>2 DEF PlaceInv, HostPlace, QuietMoved
<1>5. Signals'
  <2>1. buff_wr' <=> state' = "WRITE_2"
    BY <1>1, <1>2, QuietClock DEF QuietMoved, DispatchMoved, WaitStates, States
  <2>2. s_drq' => state' \in {"READSECT", "WRITESECT"}
    BY <1>1, <1>2 DEF QuietMoved, DispatchMoved, PlaceInv, Signals, s_drq, WaitStates, States
  <2>3. state' = "READSECT" => state \in {"READ_3", "READSECT"}
    BY <1>1, <1>2 DEF QuietMoved, DispatchMoved, WaitStates, States
  <2>4. state \in {"READ_3", "READSECT"} => buffer' = buffer /\ buff_addr' = buff_addr
    BY <1>2, QuietClock DEF QuietMoved
  <2>5. state' = "READSECT" => s_drq' /\ wdstat_datareg' = buffer'[buff_addr']
    BY <1>2, <2>3, <2>4 DEF QuietMoved, PlaceInv, Signals, s_drq
  <2> QED BY <2>1, <2>2, <2>5 DEF Signals
<1>6. AtMain'
  <2>1. UNCHANGED <<pc, iCPU_STATUS>>
    BY DEF BoardClock
  <2> QED BY <1>1, <1>2, <2>1
          DEF PlaceInv, AtMain, HostPlace, QuietMoved, DispatchMoved, WaitStates, TypeI
<1> QED BY <1>1, <1>3, <1>4, <1>5, <1>6 DEF PlaceInv

\* A host that waits for its commands to finish writes to an idle controller.
Polite == Patience \subseteq {"finish"}

LEMMA PoliteHost ==
  ASSUME Polite, Typed, NotBusy
  PROVE  state = "READY" /\ ~wdstat_pending
BY DEF Polite, Typed, HostTypes, NotBusy, StatusBusy

\* All that does is to load a register.
LEMMA IdleClock ==
  ASSUME Typed, PlaceInv, NEW op, BusOp(op), ~ForceInt(op), BoardClock(op),
         state = "READY", ~wdstat_pending
  PROVE  /\ UNCHANGED <<state, disk_track, oCPU_REQUEST, s_drq_busy, buff_addr, s_seekerr,
                        buffer, pc, iCPU_STATUS>>
         /\ wdstat_pending' = NewCommand(op) /\ ~buff_wr'
         /\ wdstat_command' = IF NewCommand(op) THEN op.cmd ELSE wdstat_command
         /\ op.kind = "wr_cmd" => UNCHANGED <<wdstat_sector, wdstat_side, wdstat_drive>>
         /\ wdstat_drive' = IF op.kind = "wr_ctl2" THEN op.drive ELSE wdstat_drive
         /\ late' = (late /\ ~NewCommand(op))
<1>1. PICK dir \in StepBus : Tick(op, dir, buffer[buff_addr])
  BY DEF BoardClock
<1>2. Idle(op) /\ ~buff_wr'
  BY <1>1, ByState, DispatchGuard
<1>3. ~Overrun(op) /\ BusState(op) = state
  BY DEF Overrun, BusState
<1>4. buffer' = buffer /\ late' = (late /\ ~NewCommand(op)) /\ UNCHANGED <<pc, iCPU_STATUS>>
  BY DEF BoardClock, PlaceInv, Signals
<1>5. wdstat_pending' = NewCommand(op)
  BY <1>2 DEF Idle, BusOnly, BusPending, NewCommand
<1>6. wdstat_command' = IF NewCommand(op) THEN op.cmd ELSE wdstat_command
  BY <1>2 DEF Idle, BusOnly, BusRegisters
<1>7. UNCHANGED <<state, disk_track, oCPU_REQUEST, s_drq_busy, buff_addr, s_seekerr>>
  BY <1>2, <1>3 DEF Idle, headRegs, xferRegs, BusErrors, errRegs
<1>8. /\ op.kind = "wr_cmd" => UNCHANGED <<wdstat_sector, wdstat_side, wdstat_drive>>
      /\ wdstat_drive' = IF op.kind = "wr_ctl2" THEN op.drive ELSE wdstat_drive
  BY <1>2, <1>3 DEF Idle, BusOnly, BusRegisters, BusSector
<1> QED BY <1>2, <1>4, <1>5, <1>6, <1>7, <1>8

\* The byte the host writes goes to the data register.
LEMMA OutClock ==
  ASSUME Typed, PlaceInv, Out
  PROVE  /\ state = "WRITESECT" /\ state' = "WRITE_1" /\ s_drq_busy' = 1 /\ ~buff_wr'
         /\ wdstat_datareg' = Written(commands, Len(hbytes))
         /\ UNCHANGED <<disk_track, oCPU_REQUEST, buff_addr, wdstat_sector, wdstat_side,
                        wdstat_drive, wdstat_command, wdstat_pending, buffer, pc, iCPU_STATUS,
                        data_rdlength>>
         /\ late' <=> late
<1> DEFINE op == [kind |-> "wr_data", v |-> Written(commands, Len(hbytes))]
<1>0. state = "WRITESECT" /\ BoardClock(op)
  BY DEF PlaceInv, HostPlace, Out
<1>1. PICK dir \in StepBus : Tick(op, dir, buffer[buff_addr])
  BY <1>0 DEF BoardClock
<1>2. WriteSect(op) /\ ~buff_wr'
  BY <1>0, <1>1, ByState
<1>3. ~Overrun(op) /\ ~NewCommand(op) /\ wdstat_pending \in BOOLEAN
  BY DEF Overrun, NewCommand, Typed, Inv, TypeOK, FlagsOK
<1>4. buffer' = buffer /\ UNCHANGED <<pc, iCPU_STATUS>>
  BY <1>0 DEF BoardClock, PlaceInv, Signals
<1>5. late' <=> late
  BY <1>0, <1>3 DEF BoardClock
<1> QED BY <1>0, <1>2, <1>3, <1>4, <1>5
        DEF WriteSect, BusOnly, BusRegisters, BusSector, BusPending, BusData, headRegs, xferRegs

\* What the host has the controller do, and where it is then.
HostLoads(op) ==
  /\ BoardClock(op)
  /\ UNCHANGED <<state, disk_track, oCPU_REQUEST, s_drq_busy, buff_addr, s_seekerr,
                 buffer, pc, iCPU_STATUS>>
  /\ wdstat_pending' = NewCommand(op) /\ ~buff_wr'
  /\ wdstat_command' = IF NewCommand(op) THEN op.cmd ELSE wdstat_command
  /\ NewCommand(op) => UNCHANGED <<wdstat_sector, wdstat_side, wdstat_drive>>
  /\ op.kind = "wr_ctl2" => op.drive \in HostDrives
  /\ wdstat_drive' = IF op.kind = "wr_ctl2" THEN op.drive ELSE wdstat_drive
  /\ late' = (late /\ ~NewCommand(op))
  /\ \/ Select /\ UNCHANGED hostState /\ hpc = "ready" /\ ~NewCommand(op)
     \/ /\ NewCommand(op) /\ hcmd' = op.cmd /\ hpc' = "issued"
        /\ (Boot /\ op.cmd = "RESTORE") \/ (Issue /\ hpc = "ready")

LEMMA LoadClock ==
  ASSUME Polite, Typed, PlaceInv, Boot \/ Select \/ Issue
  PROVE  \E op : HostLoads(op)
<1>1. state = "READY" /\ ~wdstat_pending
  BY PoliteHost DEF Boot, Select, Issue
<1>2. \E op : /\ BusOp(op) /\ BoardClock(op) /\ ~ForceInt(op)
              /\ op.kind = "wr_ctl2" => op.drive \in HostDrives
              /\ \/ Select /\ UNCHANGED hostState /\ hpc = "ready" /\ ~NewCommand(op)
                 \/ /\ NewCommand(op) /\ hcmd' = op.cmd /\ hpc' = "issued"
                    /\ (Boot /\ op.cmd = "RESTORE") \/ (Issue /\ hpc = "ready")
  <2>1. CASE Boot
    <3>1. [kind |-> "wr_cmd", cmd |-> "RESTORE"].cmd = "RESTORE"
      OBVIOUS
    <3> QED BY <2>1, <3>1 DEF Boot, BusOp, ForceInt, NewCommand, Commands, TypeI
  <2>2. CASE Select
    <3>1. PICK op \in [kind : {"wr_sector"}, v : HostSectors]
                      \cup [kind : {"wr_data"}, v : HostTracks]
                      \cup [kind : {"wr_ctl2"}, side : HostSides, drive : HostDrives] :
               BoardClock(op)
      BY <2>2 DEF Select
    <3>2. op.kind \in {"wr_sector", "wr_data", "wr_ctl2"}
      OBVIOUS
    <3>3. BusOp(op) /\ (op.kind = "wr_ctl2" => op.drive \in HostDrives)
      <4>1. CASE op \in [kind : {"wr_sector"}, v : HostSectors]
        BY <4>1, GeometryAssumption DEF BusOp
      <4>2. CASE op \in [kind : {"wr_data"}, v : HostTracks]
        BY <4>2, GeometryAssumption DEF BusOp
      <4>3. CASE op \in [kind : {"wr_ctl2"}, side : HostSides, drive : HostDrives]
        BY <4>3, HostAssumption DEF BusOp
      <4> QED BY <4>1, <4>2, <4>3
    <3>4. UNCHANGED hostState /\ hpc = "ready"
      BY <2>2 DEF Select
    <3> QED BY <2>2, <3>1, <3>2, <3>3, <3>4 DEF ForceInt, NewCommand
  <2>3. CASE Issue
    <3>1. PICK c \in HostCommands \ {"FORCEINT"} :
               BoardClock([kind |-> "wr_cmd", cmd |-> c]) /\ hcmd' = c
      BY <2>3 DEF Issue
    <3>2. c \in Commands /\ hpc = "ready" /\ hpc' = "issued"
      BY <2>3, HostAssumption DEF Issue
    <3> QED BY <2>3, <3>1, <3>2 DEF BusOp, ForceInt, NewCommand
  <2> QED BY <2>1, <2>2, <2>3
<1> QED BY <1>1, <1>2, IdleClock DEF HostLoads, NewCommand

LEMMA NextPlace ==
  ASSUME Polite, AbortOf = {}, Typed, HandInv, PlaceInv, [SysNext]_sysVars
  PROVE  PlaceInv'
<1>1. CASE Wait \/ In \/ Hold
  <2>1. PICK op : Quiet(op) /\ BoardClock(op)
    BY <1>1 DEF Wait, In, Hold, Quiet
  <2>2. CASE Wait
    BY <2>1, <2>2, QuietPlace DEF Wait
  <2>3. CASE In
    BY <2>1, <2>3, QuietPlace DEF In
  <2>4. CASE Hold
    BY <2>1, <2>4, QuietPlace DEF Hold
  <2> QED BY <1>1, <2>2, <2>3, <2>4
<1>2. CASE Boot \/ Select \/ Issue
  <2>1. state = "READY" /\ ~wdstat_pending
    BY <1>2, PoliteHost DEF Boot, Select, Issue
  <2>2. PICK op : HostLoads(op)
    BY <1>2, LoadClock
  <2>3. PlaceInv'
    <3>1. \/ hpc = "ready" /\ hpc' = hpc /\ hcmd' = hcmd /\ ~NewCommand(op)
          \/ /\ NewCommand(op) /\ hcmd' = op.cmd /\ hpc' = "issued"
             /\ op.cmd = "RESTORE" \/ hpc = "ready"
      BY <2>2 DEF HostLoads, hostState
    <3> QED BY <2>1, <2>2, <3>1 DEF HostLoads, PlaceInv, Knows, HostPlace, Signals, AtMain, s_drq,
                                    ReadStates, WriteStates
  <2> QED BY <2>3
<1>3. CASE Out
  <2>1. hpc = "fetch" /\ hpc' = "out" /\ hcmd = "WRITE" /\ hcmd' = hcmd
    BY <1>3 DEF Out
  <2> QED BY <1>3, <2>1, OutClock
          DEF PlaceInv, Knows, HostPlace, Signals, AtMain, s_drq, ReadStates, WriteStates
<1>4. CASE SeeDrq
  <2>1. s_drq /\ hcmd \in {"READ", "READADDR", "WRITE"} /\ hpc = "run" /\ hpc' = "fetch"
    BY <1>4 DEF SeeDrq, StatusDrq
  <2>2. UNCHANGED <<wdVars, iCPU_STATUS, fwState, hcmd>>
    BY <1>4 DEF SeeDrq
  <2>3. hcmd = "WRITE" => state = "WRITESECT"
    <3>1. oCPU_REQUEST.op # "WRITE" \/ state # "READSECT"
      BY DEF Typed, Inv, RequestMatchesState, ReadStates, ReadRequests
    <3> QED BY <2>1, <3>1 DEF PlaceInv, Knows, Signals, ReadStates
  <2> QED BY <2>1, <2>2, <2>3
          DEF wdVars, xferRegs, headRegs, hostRegs, cmdRegs, fwState, PlaceInv, Knows,
              HostPlace, Signals, AtMain, s_drq
<1>5. CASE SeeDone
  <2>1. state = "READY" /\ ~wdstat_pending
    BY <1>5, PoliteHost DEF SeeDone
  <2> QED BY <1>5, <2>1
          DEF SeeDone, wdVars, xferRegs, headRegs, hostRegs, cmdRegs, fwState, PlaceInv, Knows,
              HostPlace, Signals, AtMain, s_drq, ReadStates, WriteStates
<1>6. CASE HostReset
  BY <1>6 DEF HostReset, wdVars, xferRegs, headRegs, hostRegs, cmdRegs, fwState, PlaceInv, Knows,
              HostPlace, Signals, AtMain, s_drq, ReadStates, WriteStates
<1>7. CASE KeyReset
  <2>1. /\ state' = "READY" /\ ~wdstat_pending' /\ s_drq_busy' = 0 /\ buff_wr' = FALSE
        /\ hpc' = "boot" /\ hcmd' = "NONE"
    BY <1>7 DEF KeyReset, Reset
  <2> QED BY <2>1 DEF PlaceInv, Knows, HostPlace, Signals, AtMain, s_drq, ReadStates, WriteStates
<1>8. CASE FirmwareStep
  <2>1. UNCHANGED <<wdVars, hcmd, hpc>> /\ ~buff_rd
    BY <1>8 DEF FirmwareStep, hostState, Running
  <2>2. state # "READSECT"
    BY <2>1 DEF PlaceInv, HandInv, HeldStill
  <2>3. pc' # "main"
    BY <1>8, ByPlace DEF FirmwareStep
  <2> QED BY <2>1, <2>2, <2>3 DEF wdVars, xferRegs, headRegs, hostRegs, cmdRegs, PlaceInv, Knows,
              HostPlace, Signals, AtMain, s_drq, ReadStates, WriteStates
<1>9. CASE Card \/ UNCHANGED sysVars
  <2>1. UNCHANGED <<wdVars, iCPU_STATUS, fwState, hcmd, hpc>>
    BY <1>9 DEF Card, sysVars, hostState
  <2> QED BY <2>1 DEF wdVars, xferRegs, headRegs, hostRegs, cmdRegs, fwState, PlaceInv, Knows,
              HostPlace, Signals, AtMain, s_drq, ReadStates, WriteStates
<1>10. ~Interrupt
  BY DEF Interrupt
<1> QED BY <1>1, <1>2, <1>3, <1>4, <1>5, <1>6, <1>7, <1>8, <1>9, <1>10 DEF SysNext, Host

LEMMA InitPlace == SysInit => PlaceInv
BY DEF SysInit, Init, PlaceInv, Knows, HostPlace, Signals, AtMain, s_drq, ReadStates, WriteStates

-----------------------------------------------------------------------------
(* What a read hands over.                                                 *)

\* The last byte is where the length of the transfer says.
LEMMA Remaining ==
  ASSUME Typed
  PROVE  /\ buff_addr \in 0..(SECTOR_SIZE - 1) /\ Len(hbytes) \in Nat
         /\ state = "READ_1" => wBuffAddrPlus1 = buff_addr + 1 /\ buff_addr + 1 < TransferLength
         /\ state = "READSECT" => buff_addr < TransferLength
         /\ state = "READSECT" /\ LastByte => buff_addr + 1 = TransferLength
         /\ TransferLength \in {READADDR_LEN, SECTOR_SIZE}
<1> USE SizeAssumption
<1>1. buff_addr \in 0..(SECTOR_SIZE - 1) /\ data_rdlength \in 0..SECTOR_SIZE
  BY DEF Typed, Inv, TypeOK, NumbersOK
<1>2. Len(hbytes) \in Nat
  BY DEF Typed, HostTypes
<1>3. TransferLength \in {READADDR_LEN, SECTOR_SIZE}
  BY DEF TransferLength
<1>4. TransferLength \in 1..SECTOR_SIZE
  BY <1>3
<1>5. state \in {"READ_1", "READSECT"} =>
        buff_addr + data_rdlength = TransferLength /\ data_rdlength >= 1
  BY <1>1 DEF Typed, Inv, TransferCounted, ReadStates
<1>6. state = "READ_1" => data_rdlength >= 2
  BY DEF Typed, Inv, TransferCounted, ReadStates
<1>7. state = "READ_1" => wBuffAddrPlus1 = buff_addr + 1 /\ buff_addr + 1 < TransferLength
  BY <1>1, <1>4, <1>5, <1>6 DEF wBuffAddrPlus1
<1>8. state = "READSECT" => buff_addr < TransferLength
  BY <1>1, <1>4, <1>5
<1>9. state = "READSECT" /\ LastByte => buff_addr + 1 = TransferLength
  BY <1>1, <1>4, <1>5 DEF LastByte
<1> QED BY <1>1, <1>2, <1>3, <1>7, <1>8, <1>9

\* Who takes the byte.
LEMMA Taking ==
  ASSUME Typed, HandInv, PlaceInv, Wait \/ In \/ Hold, Reading'
  PROVE  /\ Reading /\ UNCHANGED hcmd
         /\ state = "READSECT" => ~ByteTaken(NoOp) /\ ByteTaken(ReadOp)
<1>1. PICK op : Quiet(op) /\ BoardClock(op)
  BY DEF Wait, In, Hold, Quiet
<1>2. UNCHANGED hcmd
  BY DEF Wait, In, Hold
<1>3. late' <=> (late \/ (state = "READSECT" /\ bark))
  BY <1>1, QuietClock
<1>4. Reading /\ (state = "READSECT" => ~bark)
  BY <1>2, <1>3 DEF Reading
<1>5. NoOp # ReadOp
  <2>1. NoOp.kind = "none"
    BY DEF NoOp
  <2>2. ReadOp.kind = "rd_data"
    BY DEF ReadOp
  <2> QED BY <2>1, <2>2
<1>6. state = "READSECT" => s_drq
  BY DEF PlaceInv, Signals
<1> QED BY <1>2, <1>4, <1>5, <1>6 DEF ByteTaken

\* The byte the host takes is one more.
LEMMA Kept ==
  ASSUME Typed, NEW v \in Byte, Keep(v), Len(hbytes) < SECTOR_SIZE
  PROVE  /\ hbytes' = Append(hbytes, v) /\ Len(hbytes') = Len(hbytes) + 1
         /\ \A i \in 1..Len(hbytes) : hbytes'[i] = hbytes[i]
         /\ hbytes'[Len(hbytes) + 1] = v
<1>1. hbytes \in Seq(Byte) /\ Len(hbytes) \in Nat
  BY DEF Typed, HostTypes
<1>2. hbytes' = Append(hbytes, v)
  BY <1>1, SizeAssumption DEF Keep
<1>3. Len(Append(hbytes, v)) = Len(hbytes) + 1
  BY <1>1, AppendType
<1>4. \A i \in 1..Len(hbytes) : Append(hbytes, v)[i] = hbytes[i]
  BY <1>1, AppendProperties
<1>5. Append(hbytes, v)[Len(hbytes) + 1] = v
  BY <1>1, AppendProperties
<1> QED BY <1>2, <1>3, <1>4, <1>5

LEMMA QuietCount ==
  ASSUME Typed, HandInv, PlaceInv, CountInv, Wait \/ In \/ Hold
  PROVE  CountInv'
<1> SUFFICES ASSUME Reading' PROVE CountInv'
  BY DEF CountInv
<1>1. Reading /\ hcmd' = hcmd /\ (state = "READSECT" => ~ByteTaken(NoOp) /\ ByteTaken(ReadOp))
  BY Taking
<1>2. PICK op : /\ Quiet(op) /\ BoardClock(op)
                /\ op = IF In \/ (Hold /\ hpc = "in") THEN ReadOp ELSE NoOp
  BY DEF Wait, In, Hold, Quiet
<1>3. /\ QuietMoved(op, buffer[buff_addr]) /\ ~wdstat_pending'
      /\ state \in States \ {"ABORT", "DEAD"}
  BY <1>2, QuietClock
<1>4. hcmd \in {"READ", "READADDR"}
  BY <1>1 DEF Reading
<1>5. state \notin WriteStates \cup {"WAIT_CPU", "WAIT_CPUWRITE"}
  BY <1>4 DEF PlaceInv, Knows
<1> USE DEF CountInv
<1>6. CASE In
  <2>1. state = "READSECT" /\ hcmd' = hcmd /\ Len(hbytes) = buff_addr /\ op = ReadOp
    BY <1>1, <1>2, <1>6 DEF In
  <2>2. state' = (IF LastByte THEN "ENDCOMMAND" ELSE "READ_1") /\ buff_addr' = buff_addr
    BY <1>1, <1>3, <2>1 DEF QuietMoved
  <2>3. Len(hbytes') = Len(hbytes) + 1
    <3>1. wdstat_datareg \in Byte
      BY DEF Typed, Inv, TypeOK, NumbersOK
    <3>2. Len(hbytes) < SECTOR_SIZE
      BY <2>1, Remaining, SizeAssumption
    <3> QED BY <1>6, <3>1, <3>2, Kept DEF In
  <2>4. hcmd = "READ" /\ LastByte => buff_addr + 1 = SECTOR_SIZE
    <3>1. hcmd = "READ" => oCPU_REQUEST.op = "READ"
      BY <2>1 DEF PlaceInv, Knows, ReadStates
    <3> QED BY <2>1, <3>1, Remaining DEF TransferLength
  <2>5. hpc' = "in" /\ hold' = 2
    BY <1>6 DEF In
  <2>6. buff_addr \in Nat
    BY Remaining
  <2> QED BY <1>3, <2>1, <2>2, <2>3, <2>4, <2>5, <2>6
<1>7. CASE Wait \/ Hold
  <2>1. hbytes' = hbytes /\ (hpc' = "fetch" => hpc = "fetch")
    BY <1>7 DEF Wait, Hold
  <2>2. state = "READSECT" => state' = "READSECT" /\ op = NoOp
    <3>1. state = "READSECT" => op = NoOp
      BY <1>1, <1>2, <1>7 DEF Hold, Wait, In, Typed, HostTypes
    <3> QED BY <1>1, <1>3, <3>1 DEF QuietMoved
  <2>3. /\ state' = "WAIT_CPUREAD" => state \in {"WAIT_CPUREAD", "READY"}
        /\ state' = "READ_1" => FALSE
    BY <1>3, <1>5, <2>2 DEF QuietMoved, DispatchMoved, States, WriteStates
  <2>4. state' = "WAIT_CPUREAD" => hbytes' = <<>>
    BY <1>1, <1>3, <2>1, <2>3 DEF QuietMoved
  <2>5. state' \in {"READ_2", "READ_3", "READSECT"} => Len(hbytes') = buff_addr'
    <3>1. CASE state = "WAIT_CPUREAD"
      BY <1>1, <1>3, <2>1, <3>1 DEF QuietMoved
    <3>2. CASE state = "READ_1"
      BY <1>1, <1>3, <2>1, <3>2, Remaining DEF QuietMoved
    <3>3. CASE state \in {"READ_2", "READ_3", "READSECT"}
      BY <1>1, <1>3, <2>1, <3>3 DEF QuietMoved
    <3> QED BY <1>3, <1>5, <3>1, <3>2, <3>3 DEF QuietMoved, DispatchMoved, States, WriteStates
  <2>6. hpc' = "fetch" => state' = "READSECT"
    BY <1>1, <2>1, <2>2
  <2>7. hpc' = "in" => hold' = 1 /\ state' \in {"READ_2", "ENDCOMMAND2"}
    <3>1. hpc' = "in" => Hold /\ hpc = "in" /\ hold = 2 /\ hold' = 1
      BY <1>7 DEF Wait, Hold, Typed, HostTypes
    <3> QED BY <1>1, <1>3, <3>1 DEF QuietMoved
  <2>8. hcmd' = "READ" /\ state' \in {"ENDCOMMAND", "ENDCOMMAND2", "READY"} =>
          Len(hbytes') = SECTOR_SIZE \/ s_seekerr'
    <3>1. CASE state = "READY"
      BY <1>1, <1>3, <2>1, <3>1 DEF QuietMoved, DispatchMoved, PlaceInv, Knows
    <3>2. CASE state = "WAIT_CPUREAD"
      BY <1>1, <1>3, <2>1, <3>2 DEF QuietMoved
    <3>3. CASE state \in {"ENDCOMMAND", "ENDCOMMAND2"}
      BY <1>1, <1>3, <2>1, <3>3 DEF QuietMoved, PlaceInv, HostPlace
    <3>4. CASE state \in ReadStates
      BY <1>3, <2>2, <3>4 DEF QuietMoved, ReadStates
    <3> QED BY <1>3, <1>5, <3>1, <3>2, <3>3, <3>4 DEF States, WriteStates, ReadStates
  <2> QED BY <1>3, <2>3, <2>4, <2>5, <2>6, <2>7, <2>8
<1> QED BY <1>6, <1>7

\* Nothing to show when no read is on.
LEMMA NotReading ==
  ASSUME hcmd' \notin {"READ", "READADDR"}
  PROVE  ReadInv'
BY DEF ReadInv, CountInv, Reading, RequestInv, FilledInv, DueInv, DeliveredInv

\* What the host may expect of the command it gives.
LEMMA IssueDue ==
  ASSUME Typed, Issue
  PROVE  DueInv' /\ hbytes' = <<>>
<1>1. /\ hbytes' = <<>>
      /\ expected' = IF hcmd' = "READADDR" THEN AddressField ELSE SectorAt(Addressed)
  BY DEF Issue
<1>2. AddressField \in Seq(Byte) /\ Len(AddressField) = 6
  <2>1. 0 \in Byte /\ 3 \in Byte /\ disk_track \in Byte /\ wdstat_side \in Byte
        /\ wdstat_sector \in Byte
    BY SizeAssumption, GeometryAssumption DEF Typed, Inv, TypeOK, NumbersOK
  <2> HIDE DEF Byte
  <2> QED BY <2>1 DEF AddressField
<1>3. SectorAt(Addressed) = <<>> \/ (/\ SectorAt(Addressed) \in Seq(Byte)
                                    /\ Len(SectorAt(Addressed)) = SECTOR_SIZE)
  <2>1. CASE Addressed \in Fdd!Blocks
    <3> DEFINE sector == [i \in 1..SECTOR_SIZE |-> disk[imagefile][Addressed][i - 1]]
    <3>1. SectorAt(Addressed) = sector
      BY <2>1 DEF SectorAt
    <3>2. disk[imagefile][Addressed] \in [0..(SECTOR_SIZE - 1) -> Byte]
      BY <2>1 DEF Typed, BoardTypes
    <3>3. sector \in [1..SECTOR_SIZE -> Byte] /\ SECTOR_SIZE \in Nat
      BY <3>2, SizeAssumption
    <3>4. sector \in Seq(Byte)
      BY <3>3, SeqDef
    <3>5. Len(sector) = SECTOR_SIZE
      BY <3>3, <3>4, LenProperties
    <3> QED BY <3>1, <3>4, <3>5
  <2>2. CASE Addressed \notin Fdd!Blocks
    BY <2>2 DEF SectorAt
  <2> QED BY <2>1, <2>2
<1>4. <<>> \in Seq(Byte)
  OBVIOUS
<1> QED BY <1>1, <1>2, <1>3, <1>4 DEF DueInv

LEMMA IssueRead ==
  ASSUME Polite, Typed, PlaceInv, Issue
  PROVE  ReadInv'
<1>1. DueInv' /\ hbytes' = <<>>
  BY IssueDue
<1>2. PICK op : HostLoads(op)
  BY LoadClock
<1>3. hpc' = "issued" /\ hwant' = Addressed
      /\ expected' = IF hcmd' = "READADDR" THEN AddressField ELSE SectorAt(Addressed)
  BY DEF Issue
<1>4. NewCommand(op)
  BY <1>2, <1>3 DEF HostLoads, hostState
<1>5. /\ state = "READY" /\ state' = "READY" /\ wdstat_pending' = TRUE
      /\ UNCHANGED <<disk_track, wdstat_sector, wdstat_side, wdstat_drive>>
  BY <1>2, <1>4, PoliteHost DEF HostLoads, Issue
<1>6. CountInv'
  BY <1>1, <1>3, <1>5 DEF CountInv
<1>7. UNCHANGED <<disk, imagefile>>
  BY <1>2 DEF HostLoads, BoardClock
<1>8. Addressed' = Addressed
  BY <1>5 DEF Addressed
<1>9. SectorAt(hwant)' = SectorAt(Addressed)
  BY <1>3, <1>7 DEF SectorAt
<1>10. RequestInv'
  BY <1>3, <1>5, <1>8, <1>9 DEF RequestInv, AddressField
<1>11. FilledInv'
  BY <1>5 DEF FilledInv, ReadStates
<1>12. DeliveredInv'
  <2>1. Len(<<>>) = 0
    OBVIOUS
  <2>2. Len(expected') >= 0 \/ hcmd' \notin {"READ", "READADDR"}
    <3>1. \A s \in Seq(Byte) : Len(s) \in Nat
      OBVIOUS
    <3> QED BY <1>1, <3>1 DEF DueInv
  <2> QED BY <1>1, <2>1, <2>2 DEF DeliveredInv, Reading
<1> QED BY <1>1, <1>6, <1>10, <1>11, <1>12 DEF ReadInv

\* A clock leaves what the host expects as it was.
LEMMA QuietRequest ==
  ASSUME Typed, HandInv, PlaceInv, RequestInv, Wait \/ In \/ Hold
  PROVE  RequestInv'
<1>1. PICK op : Quiet(op) /\ BoardClock(op)
  BY DEF Wait, In, Hold, Quiet
<1>2. /\ QuietMoved(op, buffer[buff_addr]) /\ ~wdstat_pending'
      /\ state \in States \ {"ABORT", "DEAD"}
  BY <1>1, QuietClock
<1>3. UNCHANGED <<hcmd, hwant, expected, pc, blk, disk, imagefile, iCPU_STATUS>>
  BY DEF Wait, In, Hold, BoardClock
<1>4. SectorAt(hwant)' = SectorAt(hwant)
  BY <1>3 DEF SectorAt
<1>5. SUFFICES ASSUME hcmd \in {"READ", "READADDR"}, state' = "WAIT_CPUREAD"
               PROVE  RequestInv'
  BY <1>2, <1>3 DEF RequestInv
<1>6. state \in {"READY", "WAIT_CPUREAD"} /\ (state = "READY" => wdstat_pending)
  BY <1>2, <1>5 DEF QuietMoved, States, WaitStates
<1>7. UNCHANGED <<wdstat_sector, disk_track>>
  BY <1>2, <1>5, <1>6 DEF QuietMoved, DispatchMoved
<1>8. CASE state = "READY"
  <2>1. wdstat_command = hcmd
    BY <1>5, <1>6, <1>8 DEF PlaceInv, Knows
  <2>2. oCPU_REQUEST' = Request(wdstat_command, wdstat_drive, wdstat_side)
    BY <1>2, <1>5, <1>6, <1>8 DEF QuietMoved, DispatchMoved
  <2>3. oCPU_REQUEST'.drive = wdstat_drive /\ oCPU_REQUEST'.side = wdstat_side
    BY <2>2 DEF Request
  <2>4. pc # "io"
    BY <1>8 DEF HandInv, WorkIsWanted, Working, WaitStates
  <2>5. hcmd = "READ" => hwant = Position(oCPU_REQUEST.drive, oCPU_REQUEST.side)'
    BY <1>6, <1>7, <1>8, <2>3 DEF RequestInv, Addressed, Position
  <2>6. Changing => Changing'
    BY <1>3, <1>5, <1>8 DEF Changing
  <2> QED BY <1>2, <1>3, <1>4, <1>5, <1>6, <1>7, <1>8, <2>3, <2>4, <2>5, <2>6
          DEF RequestInv, AddressField
<1>9. CASE state = "WAIT_CPUREAD"
  <2>1. UNCHANGED oCPU_REQUEST
    BY <1>2, <1>9 DEF QuietMoved, WaitStates
  <2>2. "DRVNOTRDY" \notin iCPU_STATUS
    BY <1>2, <1>5, <1>9 DEF QuietMoved
  <2>3. Changing => Changing'
    BY <1>3, <1>5, <1>9, <2>2 DEF Changing, HandInv, StatusByPlace
  <2>4. Position(oCPU_REQUEST.drive, oCPU_REQUEST.side)' = Position(oCPU_REQUEST.drive, oCPU_REQUEST.side)
    BY <1>7, <2>1 DEF Position
  <2> QED BY <1>2, <1>3, <1>4, <1>5, <1>7, <1>9, <2>1, <2>3, <2>4 DEF RequestInv
<1> QED BY <1>6, <1>8, <1>9

LEMMA QuietFilled ==
  ASSUME Typed, HandInv, PlaceInv, FilledInv, Wait \/ In \/ Hold
  PROVE  FilledInv'
<1>1. PICK op : Quiet(op) /\ BoardClock(op)
  BY DEF Wait, In, Hold, Quiet
<1>2. /\ QuietMoved(op, buffer[buff_addr])
      /\ state \in States \ {"ABORT", "DEAD"}
      /\ state # "WRITE_2" => UNCHANGED buffer
  BY <1>1, QuietClock
<1>3. UNCHANGED <<hcmd, expected, pc, iCPU_STATUS, result>>
  BY DEF Wait, In, Hold, BoardClock
<1>4. SUFFICES ASSUME hcmd \in {"READ", "READADDR"} PROVE FilledInv'
  BY <1>3 DEF FilledInv
<1>5. state \notin WriteStates
  BY <1>4 DEF PlaceInv, Knows
<1>6. Filled' <=> Filled
  BY <1>2, <1>3, <1>5 DEF Filled, WriteStates
<1>7. state' \in ReadStates =>
        \/ state \in ReadStates
        \/ state = "WAIT_CPUREAD" /\ "SUCCESS" \in iCPU_STATUS
  BY <1>2, <1>5 DEF QuietMoved, DispatchMoved, States, WaitStates, ReadStates, WriteStates
<1>8. state' = "WAIT_CPUREAD" => state \in {"READY", "WAIT_CPUREAD"}
  BY <1>2 DEF QuietMoved, States, WaitStates
<1>9. CASE state = "READY" /\ state' = "WAIT_CPUREAD"
  <2>1. "COMPLETE" \notin iCPU_STATUS
    BY <1>2, <1>4, <1>9
       DEF QuietMoved, PlaceInv, Knows, AtMain, HandInv, AnswerInPlace, WaitStates, ReadStates
  <2>2. "SUCCESS" \notin iCPU_STATUS
    BY <2>1 DEF Typed, Inv, TypeOK, PortsOK, StatusWords
  <2>3. pc # "report"
    BY <1>9 DEF HandInv, WorkIsWanted, Working, WaitStates
  <2> QED BY <1>3, <1>9, <2>2, <2>3 DEF FilledInv, ReadStates
<1>10. CASE ~(state = "READY" /\ state' = "WAIT_CPUREAD")
  BY <1>3, <1>4, <1>6, <1>7, <1>8, <1>10 DEF FilledInv
<1> QED BY <1>9, <1>10

LEMMA QuietDelivered ==
  ASSUME READADDR_LEN <= 6, Typed, HandInv, PlaceInv, ReadInv, Wait \/ In \/ Hold
  PROVE  DueInv' /\ DeliveredInv'
<1>1. UNCHANGED <<hcmd, expected>>
  BY DEF Wait, In, Hold
<1>2. DueInv'
  BY <1>1 DEF ReadInv, DueInv
<1>3. SUFFICES ASSUME Reading', expected # <<>> PROVE DeliveredInv'
  BY <1>1, <1>2 DEF DeliveredInv
<1>4. Reading
  BY <1>3, Taking
<1>5. CASE Wait \/ Hold
  <2>1. UNCHANGED hbytes
    BY <1>5 DEF Wait, Hold
  <2> QED BY <1>1, <1>3, <1>4, <2>1 DEF ReadInv, DeliveredInv
<1>6. CASE In
  <2>1. state = "READSECT" /\ Len(hbytes) = buff_addr
    BY <1>4, <1>6 DEF ReadInv, CountInv, In
  <2>2. buff_addr \in Nat /\ buff_addr < SECTOR_SIZE /\ buff_addr < TransferLength
    BY <2>1, Remaining, SizeAssumption
  <2>3. hcmd = oCPU_REQUEST.op
    BY <1>4, <2>1 DEF PlaceInv, Knows, Reading, ReadStates
  <2>4. expected \in Seq(Byte) /\ Len(expected) \in Nat /\ buff_addr < Len(expected)
    <3>1. TransferLength = IF hcmd = "READADDR" THEN READADDR_LEN ELSE SECTOR_SIZE
      BY <2>3 DEF TransferLength
    <3>2. expected \in Seq(Byte) /\ Len(expected) = IF hcmd = "READADDR" THEN 6 ELSE SECTOR_SIZE
      BY <1>3, <1>4 DEF ReadInv, DueInv, Reading
    <3> QED BY <2>2, <3>1, <3>2, SizeAssumption
  <2>5. wdstat_datareg = expected[buff_addr + 1]
    <3>1. buff_addr + 1 \in DOMAIN expected /\ buff_addr + 1 <= SECTOR_SIZE
      BY <2>2, <2>4, SizeAssumption
    <3>2. Filled
      BY <1>4, <2>1 DEF ReadInv, FilledInv, Reading, ReadStates
    <3>3. buffer[(buff_addr + 1) - 1] = expected[buff_addr + 1]
      BY <3>1, <3>2, Zenon DEF Filled
    <3>4. (buff_addr + 1) - 1 = buff_addr
      BY <2>2
    <3> QED BY <2>1, <3>3, <3>4 DEF PlaceInv, Signals
  <2>6. /\ Len(hbytes') = Len(hbytes) + 1
        /\ \A i \in 1..Len(hbytes) : hbytes'[i] = hbytes[i]
        /\ hbytes'[Len(hbytes) + 1] = wdstat_datareg
    <3>1. wdstat_datareg \in Byte
      BY DEF Typed, Inv, TypeOK, NumbersOK
    <3> QED BY <1>6, <2>1, <2>2, <3>1, Kept DEF In
  <2>7. \A i \in 1..Len(hbytes) : hbytes[i] = expected[i]
    BY <1>3, <1>4 DEF ReadInv, DeliveredInv
  <2>8. \A i \in 1..Len(hbytes') : hbytes'[i] = expected[i]
    BY <2>1, <2>2, <2>5, <2>6, <2>7
  <2> QED BY <1>1, <2>1, <2>2, <2>4, <2>6, <2>8 DEF DeliveredInv
<1> QED BY <1>5, <1>6

\* While the controller waits for a read, the firmware's work is that read.
LEMMA ReadWork ==
  ASSUME Typed, HandInv, PlaceInv, Working, state = "WAIT_CPUREAD",
         hcmd \in {"READ", "READADDR"}
  PROVE  cmd = oCPU_REQUEST /\ cmd.op = hcmd /\ ~Changing
BY DEF HandInv, WorkIsWanted, PlaceInv, Knows, Changing, Working

\* Sector b of the image in the buffer is what the host expects of it.
LEMMA SectorFills ==
  ASSUME Typed, NEW b, b \in Fdd!Blocks, expected = SectorAt(b), buffer' = disk[imagefile][b],
         expected' = expected
  PROVE  Filled'
<1>1. expected = [i \in 1..SECTOR_SIZE |-> disk[imagefile][b][i - 1]]
  BY DEF SectorAt
<1>2. \A i \in DOMAIN expected : expected[i] = disk[imagefile][b][i - 1]
  BY <1>1
<1> QED BY <1>2 DEF Filled

\* So is the address field.
LEMMA AddressFills ==
  ASSUME NEW side, expected = <<disk_track, side, wdstat_sector, 3, 0, 0>>,
         buffer \in [0..(SECTOR_SIZE - 1) -> Byte],
         buffer' = Fw!Fdd!fdd_readadr(buffer, side, disk_track, wdstat_sector),
         expected' = expected
  PROVE  Filled'
<1>1. DOMAIN expected = 1..6 /\ DOMAIN buffer = 0..(SECTOR_SIZE - 1)
  OBVIOUS
<1>2. ASSUME NEW i \in 1..6, i <= SECTOR_SIZE PROVE buffer'[i - 1] = expected[i]
  <2>1. i - 1 \in DOMAIN buffer
    BY <1>1, <1>2, SizeAssumption
  <2>2. buffer'[i - 1] = CASE i - 1 = 0 -> disk_track [] i - 1 = 1 -> side
                           [] i - 1 = 2 -> wdstat_sector [] i - 1 = 3 -> 3
                           [] i - 1 \in {4, 5} -> 0 [] OTHER -> buffer[i - 1]
    BY <2>1 DEF Fw!Fdd!fdd_readadr
  <2> QED BY <2>2
<1> QED BY <1>1, <1>2 DEF Filled

LEMMA FirmwareRead ==
  ASSUME Typed, HandInv, PlaceInv, ReadInv, FirmwareStep
  PROVE  ReadInv'
<1>1. /\ UNCHANGED <<state, wdstat_pending, oCPU_REQUEST, disk_track, wdstat_sector, wdstat_side,
                     wdstat_drive, buff_addr, s_seekerr>>
      /\ UNCHANGED <<hpc, hcmd, hwant, hbytes, hold, expected, late>>
      /\ gap \in Nat /\ gap >= 3 /\ gap' = 0 /\ Fw!Step
  BY GapAssumption, GeometryAssumption
     DEF FirmwareStep, wdVars, hostRegs, cmdRegs, headRegs, xferRegs, errRegs, hostState
<1>2. CountInv' /\ DueInv' /\ DeliveredInv'
  BY <1>1 DEF ReadInv, CountInv, DueInv, DeliveredInv, Reading
<1>3. SUFFICES ASSUME hcmd \in {"READ", "READADDR"} PROVE RequestInv' /\ FilledInv'
  BY <1>1, <1>2 DEF ReadInv, RequestInv, FilledInv
<1>4. state \notin ReadStates
  BY <1>1 DEF HandInv, HeldStill, PlaceInv, AtMain, ReadStates
<1>5. wdstat_pending => state = "READY"
  BY DEF PlaceInv, HostPlace
<1>6. CASE UNCHANGED <<buffer, disk, imagefile, blk>> /\ pc \notin {"seek", "io", "report"}
           /\ ~Fw!DispatchIdle
  <2>1. pc' # "io" /\ ("SUCCESS" \in iCPU_STATUS' => "SUCCESS" \in iCPU_STATUS)
        /\ (pc' = "report" => pc = "dispatch" /\ cmd.op = "NOP" /\ UNCHANGED cmd)
    BY <1>1, <1>6, ByPlace
  <2>2. state = "WAIT_CPUREAD" => pc' # "report"
    <3>1. pc' = "report" => Working
      BY <2>1 DEF Working, WorkRequests
    <3> QED BY <1>3, <2>1, <3>1, ReadWork
  <2>3. FilledInv'
    BY <1>1, <1>4, <1>6, <2>1, <2>2 DEF ReadInv, FilledInv, Filled
  <2>4. SectorAt(hwant)' = SectorAt(hwant) /\ Addressed' = Addressed
        /\ Position(oCPU_REQUEST.drive, oCPU_REQUEST.side)'
             = Position(oCPU_REQUEST.drive, oCPU_REQUEST.side)
    BY <1>1, <1>6 DEF SectorAt, Addressed, Position
  <2>5. Changing /\ (wdstat_pending \/ state = "WAIT_CPUREAD") => Changing'
    <3>1. Changing /\ (wdstat_pending \/ state = "WAIT_CPUREAD") =>
            pc = "away" /\ state = "WAIT_CPUREAD"
      BY <1>1, <1>5 DEF Changing
    <3>2. pc = "away" => pc' = "mount"
      BY <1>1, ByPlace DEF Fw!Away
    <3> QED BY <1>1, <3>1, <3>2 DEF Changing
  <2>6. RequestInv'
    BY <1>1, <2>1, <2>4, <2>5 DEF ReadInv, RequestInv, AddressField
  <2> QED BY <2>3, <2>6
<1>7. CASE Fw!DispatchIdle
  <2>1. /\ pc = "dispatch" /\ UNCHANGED <<buffer, disk, blk>> /\ iCPU_STATUS' = {}
        /\ \/ pc' = "poll" /\ UNCHANGED imagefile
           \/ pc' = "away"
    BY <1>7 DEF Fw!DispatchIdle
  <2>2. FilledInv'
    BY <1>1, <1>4, <2>1 DEF FilledInv
  <2>3. Addressed' = Addressed
        /\ Position(oCPU_REQUEST.drive, oCPU_REQUEST.side)'
             = Position(oCPU_REQUEST.drive, oCPU_REQUEST.side)
    BY <1>1 DEF Addressed, Position
  <2>4. Changing' \/ (pc' = "poll" /\ SectorAt(hwant)' = SectorAt(hwant) /\ ~Changing)
    BY <1>1, <2>1 DEF Changing, SectorAt
  <2>5. RequestInv'
    BY <1>1, <2>1, <2>3, <2>4 DEF ReadInv, RequestInv, AddressField
  <2> QED BY <2>2, <2>5
<1>8. CASE pc \in {"seek", "io", "report"}
  <2>1. Working /\ "SUCCESS" \notin iCPU_STATUS
    BY <1>8 DEF Working, HandInv, StatusByPlace
  <2>2. state \in WaitStates /\ state # "DEAD"
    BY <2>1 DEF PlaceInv, HandInv, WorkIsWanted
  <2>3. SUFFICES ASSUME state = "WAIT_CPUREAD" PROVE RequestInv' /\ FilledInv'
    BY <1>1, <1>4, <1>5, <2>2 DEF RequestInv, FilledInv, WaitStates
  <2>4. cmd = oCPU_REQUEST /\ cmd.op = hcmd /\ ~Changing
    BY <1>3, <2>1, <2>3, ReadWork
  <2>5. /\ hcmd = "READ" => hwant = Position(cmd.drive, cmd.side) /\ expected = SectorAt(hwant)
        /\ hcmd = "READADDR" => expected = <<disk_track, cmd.side, wdstat_sector, 3, 0, 0>>
        /\ hcmd = "READ" /\ pc = "io" => blk = hwant
    BY <2>3, <2>4 DEF ReadInv, RequestInv
  <2>6. UNCHANGED <<disk, imagefile, cmd>>
    BY <1>1, <1>3, <1>8, <2>4, ByPlace DEF Fw!Seek, Fw!ReadImage, Fw!Report
  <2>7. ASSUME hcmd = "READ" /\ pc' = "io" => blk' = hwant' PROVE RequestInv'
    <3>1. SectorAt(hwant)' = SectorAt(hwant)
      BY <1>1, <2>6 DEF SectorAt
    <3>2. Position(oCPU_REQUEST.drive, oCPU_REQUEST.side)' = Position(cmd.drive, cmd.side)
      BY <1>1, <2>4 DEF Position
    <3>3. ~wdstat_pending'
      BY <1>1, <1>5, <2>3
    <3> QED BY <1>1, <2>4, <2>5, <2>7, <3>1, <3>2, <3>3 DEF RequestInv
  <2>8. CASE pc = "seek"
    <3>1. Fw!Seek
      BY <1>1, <2>8, ByPlace
    <3>2. cmd.drive \in Bit /\ t1' = 2 * cmd.drive /\ UNCHANGED iCPU_STATUS
      <4>1. cmd.drive \in Bit
        BY DEF Typed, BoardTypes, Requests
      <4> QED BY <1>3, <2>4, <3>1, <4>1 DEF Fw!Seek
    <3>3. CASE cmd.drive = 0
      <4>1. t1' = 0
        BY <3>2, <3>3
      <4>2. /\ blk' = Fdd!calc_offset(cmd.side, disk_track, wdstat_sector)
            /\ hcmd = "READADDR" =>
                 buffer' = Fw!Fdd!fdd_readadr(buffer, cmd.side, disk_track, wdstat_sector)
            /\ pc' = IF hcmd = "READADDR" THEN "report" ELSE "io"
        BY <2>4, <3>1, <4>1 DEF Fw!Seek, Fw!Fdd!calc_offset, Fdd!calc_offset
      <4>3. hcmd = "READ" /\ pc' = "io" => blk' = hwant'
        BY <1>1, <2>5, <3>3, <4>2 DEF Position
      <4>4. hcmd = "READADDR" => Filled'
        BY <1>1, <2>5, <4>2, AddressFills DEF Typed, BoardTypes
      <4>5. FilledInv'
        BY <1>1, <1>3, <1>4, <2>1, <3>2, <4>2, <4>4 DEF FilledInv
      <4> QED BY <2>7, <4>3, <4>5
    <3>4. CASE cmd.drive # 0
      <4>1. t1' # 0
        BY <3>2, <3>4
      <4>2. result' = "INVALID_DRIVE" /\ pc' = "report"
        BY <3>1, <4>1 DEF Fw!Seek
      <4>3. FilledInv'
        BY <1>1, <1>4, <2>1, <3>2, <4>2 DEF FilledInv
      <4> QED BY <2>7, <4>2, <4>3
    <3> QED BY <3>3, <3>4
  <2>9. CASE pc = "io"
    <3>1. Fw!ReadImage
      BY <1>1, <1>3, <2>4, <2>9, ByPlace
    <3>2. hcmd = "READ" /\ pc' = "report" /\ UNCHANGED iCPU_STATUS
      BY <2>4, <3>1 DEF Fw!ReadImage
    <3>3. result' = "OK" => buffer' = Fw!Fdd!fdd_readsector(disk[imagefile], blk, buffer)
      BY <3>1, Zenon DEF Fw!ReadImage
    <3>4. result' = "OK" => Filled'
      <4>1. CASE hwant \in Fdd!Blocks
        <5>1. result' = "OK" => buffer' = disk[imagefile][hwant]
          BY <2>5, <2>9, <3>2, <3>3, <4>1 DEF Fw!Fdd!fdd_readsector, Fw!Fdd!Blocks, Fdd!Blocks
        <5> QED BY <1>1, <2>5, <3>2, <4>1, <5>1, SectorFills
      <4>2. CASE hwant \notin Fdd!Blocks
        BY <1>1, <2>5, <3>2, <4>2 DEF SectorAt, Filled
      <4> QED BY <4>1, <4>2
    <3>5. FilledInv'
      BY <1>1, <1>4, <2>1, <3>2, <3>4 DEF FilledInv
    <3> QED BY <2>7, <3>2, <3>5
  <2>10. CASE pc = "report"
    <3>1. Fw!Report
      BY <1>1, <2>10, ByPlace
    <3>2. pc' \notin {"io", "report"} /\ UNCHANGED buffer
          /\ ("SUCCESS" \in iCPU_STATUS' => result = "OK")
      BY <3>1 DEF Fw!Report
    <3>3. result = "OK" => Filled
      BY <1>3, <2>3, <2>10 DEF ReadInv, FilledInv
    <3>4. FilledInv'
      BY <1>1, <1>4, <3>2, <3>3 DEF FilledInv, Filled
    <3> QED BY <2>7, <3>2, <3>4
  <2> QED BY <1>8, <2>8, <2>9, <2>10
<1>9. pc \in {"seek", "io", "report"} \/ Fw!DispatchIdle \/ UNCHANGED <<buffer, disk, imagefile, blk>>
  BY <1>1, ByPlace
<1> QED BY <1>6, <1>7, <1>8, <1>9

LEMMA NextRead ==
  ASSUME Polite, AbortOf = {}, READADDR_LEN <= 6, Typed, HandInv, PlaceInv, ReadInv,
         [SysNext]_sysVars
  PROVE  ReadInv'
<1>1. CASE Wait \/ In \/ Hold
  BY <1>1, QuietCount, QuietRequest, QuietFilled, QuietDelivered DEF ReadInv
<1>2. CASE Issue
  BY <1>2, IssueRead
<1>3. CASE FirmwareStep
  BY <1>3, FirmwareRead
<1>4. CASE Boot \/ Select \/ Out \/ SeeDone \/ HostReset \/ KeyReset
  <2>1. hcmd' \notin {"READ", "READADDR"}
    BY <1>4 DEF Boot, Select, Out, SeeDone, HostReset, KeyReset, hostState, PlaceInv, HostPlace
  <2> QED BY <2>1, NotReading
<1>5. CASE SeeDrq \/ Card \/ UNCHANGED sysVars
  <2>1. UNCHANGED <<wdVars, iCPU_STATUS, fwState, gap, hcmd, hwant, hbytes, hold, expected, late>>
    BY <1>5 DEF SeeDrq, Card, sysVars, hostState, history
  <2>2. hpc' = hpc \/ (hpc' = "fetch" /\ s_drq)
    BY <1>5 DEF SeeDrq, StatusDrq, Card, sysVars, hostState
  <2>3. Reading /\ hpc' = "fetch" /\ s_drq => state = "READSECT"
    BY DEF Reading, PlaceInv, Knows, Signals, WriteStates
  <2>4. CountInv' /\ DueInv' /\ DeliveredInv'
    BY <2>1, <2>2, <2>3 DEF wdVars, xferRegs, errRegs, cmdRegs, ReadInv, CountInv, Reading, DueInv,
                            DeliveredInv
  <2>5. RequestInv'
    BY <2>1 DEF wdVars, headRegs, hostRegs, cmdRegs, fwState, ReadInv, RequestInv, SectorAt,
                Addressed, Position, Changing, AddressField
  <2>6. FilledInv'
    BY <2>1 DEF wdVars, fwState, ReadInv, FilledInv, Filled
  <2> QED BY <2>4, <2>5, <2>6 DEF ReadInv
<1>6. ~Interrupt
  BY DEF Interrupt
<1> QED BY <1>1, <1>2, <1>3, <1>4, <1>5, <1>6 DEF SysNext, Host

\* A part of a sequence is a prefix of it.
LEMMA PrefixByElement ==
  ASSUME NEW S, NEW s \in Seq(S), NEW t \in Seq(S), Len(s) <= Len(t),
         \A i \in 1..Len(s) : s[i] = t[i]
  PROVE  IsPrefix(s, t)
<1>1. Len(s) \in Nat /\ Len(t) \in Nat
  OBVIOUS
<1>2. SubSeq(s, 1, Len(s)) = SubSeq(t, 1, Len(s))
  OBVIOUS
<1> QED BY <1>1, <1>2 DEF IsPrefix

\* What a READ or READ ADDRESS hands to a host that waits for its commands to
\* finish is the sector or the address it selected, whole and in order, for
\* every geometry and whatever the firmware, the menu, the card and the reset
\* keys do meanwhile.
THEOREM ReadDeliversWhatIsSelected ==
  ASSUME Patience \subseteq {"finish"}, AbortOf = {}, READADDR_LEN <= 6
  PROVE  SysSpec => []ReadDelivers
<1> DEFINE All == Typed /\ HandInv /\ PlaceInv /\ ReadInv
<1>1. Polite
  BY DEF Polite
<1>2. SysInit => All
  BY InitTyped, InitHand, InitPlace
     DEF SysInit, ReadInv, CountInv, Reading, RequestInv, FilledInv, DueInv, DeliveredInv
<1>3. All /\ [SysNext]_sysVars => All'
  BY <1>1, NextTyped, NextHand, NextPlace, NextRead
<1>4. All => ReadDelivers
  <2> SUFFICES ASSUME All PROVE ReadsInOrder /\ ReadIsWhole
    BY TypedIsTypeOK DEF ReadDelivers
  <2>1. ReadsInOrder
    <3> SUFFICES ASSUME Reading, expected # <<>> PROVE IsPrefix(hbytes, expected)
      BY DEF ReadsInOrder, Reading
    <3>1. hbytes \in Seq(Byte) /\ expected \in Seq(Byte)
      BY DEF Typed, HostTypes, ReadInv, DueInv, Reading
    <3> QED BY <3>1, PrefixByElement DEF ReadInv, DeliveredInv
  <2>2. ReadIsWhole
    BY DEF ReadIsWhole, ReadInv, CountInv, Reading, StatusBusy
  <2> QED BY <2>1, <2>2
<1> QED BY <1>2, <1>3, <1>4, PTL DEF SysSpec

-----------------------------------------------------------------------------
(* What a write leaves in the image.                                       *)

\* No byte of a write runs off the end of the buffer.
LEMMA WriteRemaining ==
  ASSUME Typed, state \in WriteStates
  PROVE  /\ buff_addr \in Nat /\ buff_addr < SECTOR_SIZE
         /\ LastByte => buff_addr + 1 = SECTOR_SIZE
         /\ ~LastByte => wBuffAddrPlus1 = buff_addr + 1
<1>1. buff_addr \in 0..(SECTOR_SIZE - 1) /\ data_rdlength \in 0..SECTOR_SIZE
  BY DEF Typed, Inv, TypeOK, NumbersOK
<1>2. buff_addr + data_rdlength = SECTOR_SIZE /\ data_rdlength >= 1
  BY DEF Typed, Inv, TransferCounted
<1> QED BY <1>1, <1>2, SizeAssumption DEF LastByte, wBuffAddrPlus1

LEMMA QuietWrite ==
  ASSUME Typed, HandInv, PlaceInv, WriteInv, Wait \/ In \/ Hold
  PROVE  WriteInv'
<1>1. PICK op : Quiet(op) /\ BoardClock(op)
  BY DEF Wait, In, Hold, Quiet
<1>2. /\ QuietMoved(op, buffer[buff_addr]) /\ ~wdstat_pending'
      /\ state \in States \ {"ABORT", "DEAD"}
      /\ buffer' = IF state = "WRITE_2" THEN [buffer EXCEPT ![buff_addr] = wdstat_datareg]
                   ELSE buffer
  BY <1>1, QuietClock
<1>3. /\ UNCHANGED <<hwant, pc, blk>>
      /\ UNCHANGED <<wdstat_sector, wdstat_side, wdstat_drive>>
  BY <1>2 DEF Wait, In, Hold, BoardClock, QuietMoved
<1>4. wdstat_pending \/ state \in WriteStates \cup {"WAIT_CPUWRITE"} => UNCHANGED hbytes
  <2>1. In => hpc = "fetch" /\ hcmd # "WRITE"
    BY DEF In
  <2>2. In => ~wdstat_pending /\ state \notin WriteStates \cup {"WAIT_CPUWRITE"}
    BY <2>1 DEF PlaceInv, HostPlace, Knows
  <2>3. Wait \/ Hold => UNCHANGED hbytes
    BY DEF Wait, Hold
  <2> QED BY <2>2, <2>3
<1>5. wdstat_drive' = 0
  BY <1>3 DEF WriteInv
<1>6. SUFFICES ASSUME state' \in WriteStates \cup {"WAIT_CPUWRITE"} PROVE WriteInv'
  BY <1>2, <1>5 DEF WriteInv, WriteStates
<1>7. CASE state = "READY"
  <2>1. wdstat_pending /\ wdstat_command = "WRITE" /\ state' = "WRITESECT" /\ buff_addr' = 0
        /\ UNCHANGED disk_track
    BY <1>2, <1>6, <1>7 DEF QuietMoved, DispatchMoved, WriteStates
  <2>2. hbytes' = <<>> /\ Addressed' = Addressed /\ hwant' = Addressed
    BY <1>3, <1>4, <2>1 DEF WriteInv, Addressed
  <2>3. Len(<<>>) = 0 /\ 1..0 = {}
    OBVIOUS
  <2> QED BY <1>2, <1>5, <2>1, <2>2, <2>3 DEF WriteInv, WriteStates
<1>8. CASE state # "READY"
  <2>1. state \in WriteStates \cup {"WAIT_CPUWRITE"}
    BY <1>2, <1>6, <1>8 DEF QuietMoved, WaitStates, States, WriteStates
  <2>2. UNCHANGED <<disk_track, wdstat_datareg, hbytes>>
    BY <1>2, <1>4, <1>8, <2>1 DEF QuietMoved, WriteStates
  <2>3. Addressed' = Addressed /\ hwant' = Addressed'
    BY <1>3, <2>1, <2>2 DEF Addressed, WriteInv
  <2>4. CASE state \in {"WRITESECT", "WRITE_1"}
    <3>1. UNCHANGED <<buffer, buff_addr>> /\ state' = IF state = "WRITE_1" THEN "WRITE_2" ELSE state
      BY <1>2, <2>4 DEF QuietMoved
    <3> QED BY <1>2, <1>5, <2>2, <2>3, <2>4, <3>1 DEF WriteInv, WriteStates
  <2>5. CASE state = "WRITE_2"
    <3>1. /\ buff_addr \in Nat /\ buff_addr < SECTOR_SIZE
          /\ buffer' = [buffer EXCEPT ![buff_addr] = wdstat_datareg]
          /\ buffer \in [0..(SECTOR_SIZE - 1) -> Byte] /\ SECTOR_SIZE \in Nat
      BY <1>2, <2>5, WriteRemaining, SizeAssumption DEF WriteStates, Typed, BoardTypes
    <3>2. \A i \in 1..buff_addr : buffer[i - 1] = hbytes[i]
      BY <2>5 DEF WriteInv, WriteStates
    <3>3. Len(hbytes) = buff_addr + 1 /\ hbytes[buff_addr + 1] = wdstat_datareg
      BY <2>5 DEF WriteInv
    <3>4. \A i \in 1..(buff_addr + 1) : buffer'[i - 1] = hbytes[i]
      BY <3>1, <3>2, <3>3
    <3>5. CASE LastByte
      <4>1. state' = "WAIT_CPUWRITE" /\ oCPU_REQUEST' = Request("WRITE", 0, wdstat_side)
            /\ buff_addr + 1 = SECTOR_SIZE
        BY <1>2, <2>5, <3>5, WriteRemaining DEF QuietMoved, WriteStates
      <4>2. oCPU_REQUEST'.side = wdstat_side'
        BY <1>3, <4>1 DEF Request
      <4>3. pc # "io"
        BY <2>5 DEF HandInv, WorkIsWanted, Working, WaitStates
      <4> QED BY <1>2, <1>3, <1>5, <2>2, <2>3, <3>3, <3>4, <4>1, <4>2, <4>3 DEF WriteInv, WriteStates
    <3>6. CASE ~LastByte
      <4>1. state' = "WRITESECT" /\ buff_addr' = buff_addr + 1
        BY <1>2, <2>5, <3>6, WriteRemaining DEF QuietMoved, WriteStates
      <4> QED BY <1>2, <1>5, <2>2, <2>3, <3>3, <3>4, <4>1 DEF WriteInv, WriteStates
    <3> QED BY <3>5, <3>6
  <2>6. CASE state = "WAIT_CPUWRITE"
    <3>1. UNCHANGED <<buffer, oCPU_REQUEST, state>>
      BY <1>2, <1>6, <2>6 DEF QuietMoved, WaitStates, WriteStates
    <3> QED BY <1>2, <1>3, <1>5, <2>2, <2>3, <2>6, <3>1 DEF WriteInv, WriteStates
  <2> QED BY <2>1, <2>4, <2>5, <2>6 DEF WriteStates
<1> QED BY <1>7, <1>8

LEMMA OutWrite ==
  ASSUME Typed, HandInv, PlaceInv, WriteInv, Out
  PROVE  WriteInv'
<1>1. /\ state = "WRITESECT" /\ state' = "WRITE_1"
      /\ wdstat_datareg' = Written(commands, Len(hbytes))
      /\ UNCHANGED <<disk_track, buff_addr, wdstat_sector, wdstat_side, wdstat_drive,
                     wdstat_pending, buffer, hwant>>
  BY OutClock DEF Out
<1>2. Len(hbytes) = buff_addr /\ ~wdstat_pending
  BY <1>1 DEF WriteInv, PlaceInv, HostPlace
<1>3. buff_addr < SECTOR_SIZE /\ buff_addr \in Nat
  BY <1>1, WriteRemaining DEF WriteStates
<1>4. /\ Len(hbytes') = buff_addr + 1 /\ hbytes'[buff_addr + 1] = wdstat_datareg'
      /\ \A i \in 1..buff_addr : hbytes'[i] = hbytes[i]
  <2>1. Keep(Written(commands, Len(hbytes)))
    BY DEF Out
  <2>2. Written(commands, Len(hbytes)) \in Byte
    <3>1. commands \in 0..MaxCommands /\ Len(hbytes) \in 0..(SECTOR_SIZE + 1)
      BY <1>2, <1>3, SizeAssumption DEF Typed, HostTypes
    <3> QED BY <3>1, GeometryAssumption
  <2> QED BY <1>1, <1>2, <1>3, <2>1, <2>2, Kept
<1>5. Addressed' = Addressed
  BY <1>1 DEF Addressed
<1> QED BY <1>1, <1>2, <1>4, <1>5 DEF WriteInv, WriteStates

LEMMA FirmwareWrite ==
  ASSUME Typed, HandInv, PlaceInv, WriteInv, FirmwareStep
  PROVE  WriteInv'
<1>1. UNCHANGED <<state, wdstat_pending, wdstat_command, wdstat_datareg, oCPU_REQUEST, disk_track,
                  wdstat_sector, wdstat_side, wdstat_drive, buff_addr, hwant, hbytes>>
  BY DEF FirmwareStep, wdVars, hostRegs, cmdRegs, headRegs, xferRegs, hostState
<1>2. Addressed' = Addressed
  BY <1>1 DEF Addressed
<1>3. CASE state \notin WriteStates \cup {"WAIT_CPUWRITE"}
  BY <1>1, <1>2, <1>3 DEF WriteInv, WriteStates
<1>4. CASE state \in WriteStates \cup {"WAIT_CPUWRITE"}
  <2>1. pc \in {"seek", "io"} => state = "WAIT_CPUWRITE" /\ cmd = oCPU_REQUEST /\ cmd.op = "WRITE"
    <3>1. pc \in {"seek", "io"} => state \in WaitStates /\ cmd = oCPU_REQUEST
      BY DEF PlaceInv, HandInv, WorkIsWanted, Working
    <3> QED BY <1>4, <3>1 DEF WaitStates, WriteStates, Typed, Inv, RequestMatchesState
  <2>2. UNCHANGED buffer
    BY <2>1, ByPlace DEF FirmwareStep
  <2>3. state = "WAIT_CPUWRITE" /\ pc' = "io" => blk' = hwant
    <3>1. SUFFICES ASSUME state = "WAIT_CPUWRITE", pc' = "io" PROVE blk' = hwant
      OBVIOUS
    <3>2. Fw!Seek
      BY <3>1, ByPlace DEF FirmwareStep
    <3>3. pc = "seek" /\ blk' = Fdd!calc_offset(cmd.side, disk_track, wdstat_sector)
      BY <3>1, <3>2 DEF Fw!Seek, Fw!Fdd!calc_offset, Fdd!calc_offset
    <3>4. cmd.side = wdstat_side
      BY <2>1, <3>1, <3>3 DEF WriteInv
    <3> QED BY <1>4, <3>3, <3>4 DEF WriteInv, Addressed
  <2> QED BY <1>1, <1>2, <1>4, <2>2, <2>3 DEF WriteInv, WriteStates
<1> QED BY <1>3, <1>4

LEMMA NextWrite ==
  ASSUME Polite, AbortOf = {}, HostDrives \subseteq {0}, Typed, HandInv, PlaceInv, WriteInv,
         [SysNext]_sysVars
  PROVE  WriteInv'
<1>1. CASE Wait \/ In \/ Hold
  BY <1>1, QuietWrite
<1>2. CASE Out
  BY <1>2, OutWrite
<1>3. CASE FirmwareStep
  BY <1>3, FirmwareWrite
<1>4. CASE Boot \/ Select \/ Issue
  <2>1. PICK op : HostLoads(op)
    BY <1>4, LoadClock
  <2>2. state' = "READY"
    BY <1>4, <2>1, PoliteHost DEF HostLoads, Boot, Select, Issue
  <2>3. wdstat_drive' = 0
    BY <2>1 DEF HostLoads, WriteInv
  <2>4. wdstat_pending' /\ wdstat_command' = "WRITE" => hwant' = Addressed' /\ hbytes' = <<>>
    <3>1. CASE Issue /\ NewCommand(op)
      <4>1. hwant' = Addressed /\ hbytes' = <<>>
        BY <3>1 DEF Issue
      <4>2. Addressed' = Addressed
        BY <2>1, <3>1 DEF HostLoads, Addressed
      <4> QED BY <4>1, <4>2
    <3>2. CASE ~(Issue /\ NewCommand(op))
      BY <2>1, <3>2 DEF HostLoads
    <3> QED BY <3>1, <3>2
  <2> QED BY <2>2, <2>3, <2>4 DEF WriteInv, WriteStates
<1>5. CASE KeyReset
  <2>1. state' = "READY" /\ ~wdstat_pending' /\ wdstat_drive' = 0
    BY <1>5 DEF KeyReset, Reset
  <2> QED BY <2>1 DEF WriteInv, WriteStates
<1>6. CASE SeeDrq \/ SeeDone \/ HostReset \/ Card \/ UNCHANGED sysVars
  <2>1. UNCHANGED <<wdVars, fwState, hwant, hbytes>>
    BY <1>6 DEF SeeDrq, SeeDone, HostReset, Card, sysVars, hostState
  <2> QED BY <2>1 DEF wdVars, hostRegs, cmdRegs, headRegs, xferRegs, fwState, WriteInv, Addressed
<1>7. ~Interrupt
  BY DEF Interrupt
<1> QED BY <1>1, <1>2, <1>3, <1>4, <1>5, <1>6, <1>7 DEF SysNext, Host

\* Two halves of one sector are that sector.
LEMMA HalfSame ==
  ASSUME NEW sector \in [0..(SECTOR_SIZE - 1) -> Byte]
  PROVE  Fw!Half(sector, sector) = sector
BY DEF Fw!Half

\* The one step that changes an image changes one sector of it.
LEMMA WriteStep ==
  ASSUME Typed, HandInv, PlaceInv, WriteInv, Fw!WriteImage,
         NEW f \in Images, NEW b \in Fdd!Blocks, disk'[f][b] # disk[f][b]
  PROVE  /\ b = hwant /\ Len(hbytes) = SECTOR_SIZE
         /\ \A i \in 0..(SECTOR_SIZE - 1) : disk'[f][b][i] \in {hbytes[i + 1], disk[f][b][i]}
<1> DEFINE old == disk[imagefile]
           new == Fw!Fdd!fdd_writesector(old, blk, buffer)
           half == [x \in DOMAIN old |-> Fw!Half(new[x], old[x])]
<1>1. state = "WAIT_CPUWRITE" /\ pc = "io"
  <2>1. pc = "io" /\ cmd.op = "WRITE"
    BY DEF Fw!WriteImage
  <2>2. state \in WaitStates /\ oCPU_REQUEST = cmd
    BY <2>1 DEF PlaceInv, HandInv, WorkIsWanted, Working
  <2> QED BY <2>1, <2>2 DEF WaitStates, Typed, Inv, RequestMatchesState, ReadStates, ReadRequests
<1>2. /\ blk = hwant /\ Len(hbytes) = SECTOR_SIZE
      /\ \A i \in 1..SECTOR_SIZE : buffer[i - 1] = hbytes[i]
  BY <1>1 DEF WriteInv
<1>3. /\ imagefile \in Images
      /\ disk \in [Images -> [Fdd!Blocks -> [0..(SECTOR_SIZE - 1) -> Byte]]]
      /\ old \in [Fdd!Blocks -> [0..(SECTOR_SIZE - 1) -> Byte]]
      /\ buffer \in [0..(SECTOR_SIZE - 1) -> Byte]
  BY DEF Typed, BoardTypes
<1>4. new \in [Fdd!Blocks -> [0..(SECTOR_SIZE - 1) -> Byte]]
      /\ \A x \in Fdd!Blocks : new[x] = IF x = blk THEN buffer ELSE old[x]
  BY <1>3 DEF Fw!Fdd!fdd_writesector, Fw!Fdd!Blocks, Fdd!Blocks
<1>5. half \in [Fdd!Blocks -> [0..(SECTOR_SIZE - 1) -> Byte]]
      /\ \A x \in Fdd!Blocks : half[x] = Fw!Half(new[x], old[x])
  BY <1>3, <1>4, HalfType
<1>6. \/ disk' = disk
      \/ disk' = [disk EXCEPT ![imagefile] = new]
      \/ disk' = [disk EXCEPT ![imagefile] = half]
  BY Zenon DEF Fw!WriteImage
<1> HIDE DEF new, half
<1>7. f = imagefile /\ disk'[f][b] \in {new[b], half[b]}
  BY <1>3, <1>6
<1>8. \A i \in 0..(SECTOR_SIZE - 1) : half[b][i] \in {new[b][i], old[b][i]}
  <2>1. DOMAIN old[b] = 0..(SECTOR_SIZE - 1) /\ half[b] = Fw!Half(new[b], old[b])
    BY <1>3, <1>5
  <2> QED BY <2>1, Zenon DEF Fw!Half
<1>9. b = blk
  <2>1. SUFFICES ASSUME b # blk PROVE FALSE
    OBVIOUS
  <2>2. new[b] = old[b]
    BY <1>4, <2>1
  <2>3. half[b] = old[b]
    <3>1. old[b] \in [0..(SECTOR_SIZE - 1) -> Byte] /\ half[b] = Fw!Half(old[b], old[b])
      BY <1>3, <1>5, <2>2
    <3> QED BY <3>1, HalfSame
  <2> QED BY <1>7, <2>2, <2>3
<1>10. new[b] = buffer
  BY <1>4, <1>9
<1>11. ASSUME NEW i \in 0..(SECTOR_SIZE - 1) PROVE buffer[i] = hbytes[i + 1]
  <2>1. i + 1 \in 1..SECTOR_SIZE /\ (i + 1) - 1 = i
    BY SizeAssumption
  <2>2. buffer[(i + 1) - 1] = hbytes[i + 1]
    BY <1>2, <2>1, Zenon
  <2> QED BY <2>1, <2>2
<1> QED BY <1>2, <1>7, <1>8, <1>9, <1>10, <1>11

\* A WRITE changes nothing but the sector the host addressed when it gave the
\* command, and puts nothing there but the bytes the host sent.
THEOREM WriteLandsWhereAddressed ==
  ASSUME Patience \subseteq {"finish"}, AbortOf = {}, HostDrives \subseteq {0}
  PROVE  SysSpec => WriteLands
<1> DEFINE All == Typed /\ HandInv /\ PlaceInv /\ WriteInv
           Lands == \A f \in Images, b \in Fdd!Blocks : disk'[f][b] # disk[f][b] =>
                      /\ b = hwant /\ Len(hbytes) = SECTOR_SIZE
                      /\ \A i \in 0..(SECTOR_SIZE - 1) :
                           disk'[f][b][i] \in {hbytes[i + 1], disk[f][b][i]}
<1>1. Polite
  BY DEF Polite
<1>2. SysInit => All
  BY InitTyped, InitHand, InitPlace DEF SysInit, Init, WriteInv, WriteStates
<1>3. All /\ [SysNext]_sysVars => All'
  BY <1>1, NextTyped, NextHand, NextPlace, NextWrite
<1>4. All /\ [SysNext]_sysVars => [Lands]_sysVars
  <2> SUFFICES ASSUME All, SysNext, NEW f \in Images, NEW b \in Fdd!Blocks,
                      disk'[f][b] # disk[f][b]
               PROVE  /\ b = hwant /\ Len(hbytes) = SECTOR_SIZE
                      /\ \A i \in 0..(SECTOR_SIZE - 1) :
                           disk'[f][b][i] \in {hbytes[i + 1], disk[f][b][i]}
    OBVIOUS
  <2>1. HostClock => UNCHANGED disk
    BY HostCycle DEF Typed, BoardClock
  <2>2. SeeDrq \/ SeeDone \/ HostReset \/ KeyReset \/ Card => UNCHANGED disk
    BY DEF SeeDrq, SeeDone, HostReset, KeyReset, Card, fwState
  <2>3. FirmwareStep
    BY <2>1, <2>2 DEF SysNext, Host, HostClock
  <2>4. Fw!WriteImage
    BY <2>3, ByPlace DEF FirmwareStep
  <2> QED BY <2>4, WriteStep
<1>5. SysSpec => [][Lands]_sysVars
  BY <1>2, <1>3, <1>4, PTL DEF SysSpec
<1> QED BY <1>5, PTL DEF WriteLands
=============================================================================
