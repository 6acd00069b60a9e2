---------------------------- MODULE WD1793_proofs ----------------------------
(***************************************************************************)
(* The controller's invariants for every sector size, every register width *)
(* and every set of host commands.                                         *)
(***************************************************************************)
EXTENDS WD1793, TLAPS

\* TypeOK and TransferCounted are not inductive without the request port: how
\* many bytes a transfer owes depends on what was requested.
Inv == TypeOK /\ TransferCounted /\ RequestMatchesState /\ BusyHeld

USE DEF Byte, Bit

-----------------------------------------------------------------------------
(* What a host write leaves in the registers.                              *)

\* A bus cycle carries a byte, the bits of the control port, or a command.
BusOp(op) ==
  /\ op.kind \in {"wr_track", "wr_sector", "wr_data"} => op.v \in Byte
  /\ op.kind = "wr_ctl2" => op.side \in Bit /\ op.drive \in Bit
  /\ op.kind = "wr_cmd" => op.cmd \in Commands

\* Those of the host are such.
LEMMA HostOpType ==
  ASSUME NEW op \in HostOps
  PROVE  BusOp(op)
<1> USE DEF BusOp
<1>1. CASE op = NoOp \/ op = ReadOp
  <2>1. op.kind \in {"none", "rd_data"}
    BY <1>1 DEF NoOp, ReadOp
  <2> QED BY <2>1
<1>2. CASE op \in [kind : {"wr_track", "wr_sector", "wr_data"}, v : HostBytes]
  <2>1. op.kind \in {"wr_track", "wr_sector", "wr_data"} /\ op.v \in HostBytes
    BY <1>2
  <2> QED BY <2>1, HostAssumption
<1>3. CASE op \in [kind : {"wr_ctl2"}, side : HostSides, drive : HostDrives]
  <2>1. op.kind = "wr_ctl2" /\ op.side \in HostSides /\ op.drive \in HostDrives
    BY <1>3
  <2> QED BY <2>1, HostAssumption
<1>4. CASE op \in [kind : {"wr_cmd"}, cmd : HostCommands]
  <2>1. op.kind = "wr_cmd" /\ op.cmd \in HostCommands
    BY <1>4
  <2> QED BY <2>1, HostAssumption
<1> QED BY <1>1, <1>2, <1>3, <1>4 DEF HostOps

\* Whatever the host does, the registers it writes keep their width.
LEMMA BusType ==
  ASSUME TypeOK, NEW op, BusOp(op)
  PROVE  /\ BusTrack(op) \in Byte /\ BusData(op) \in Byte
         /\ BusPending(op) \in BOOLEAN /\ BusMode(op) \in Bit
         /\ BusState(op) \in {state, "ABORT", "DEAD"}
         /\ BusRegisters(op) => /\ wdstat_sector' \in Byte
                                /\ wdstat_side' \in Bit /\ wdstat_drive' \in Bit
                                /\ wdstat_command' \in Commands
<1> USE SizeAssumption DEF BusOp
<1>1. BusTrack(op) \in Byte /\ BusData(op) \in Byte
  BY DEF TypeOK, NumbersOK, BusTrack, BusData, Diag
<1>2. BusPending(op) \in BOOLEAN
  BY DEF TypeOK, FlagsOK, BusPending, NewCommand
<1>3. BusMode(op) \in Bit
  BY DEF TypeOK, NumbersOK, BusMode
<1>4. BusState(op) \in {state, "ABORT", "DEAD"}
  BY DEF BusState
<1>5. BusRegisters(op) => /\ wdstat_sector' \in Byte
                          /\ wdstat_side' \in Bit /\ wdstat_drive' \in Bit
                          /\ wdstat_command' \in Commands
  BY DEF TypeOK, NumbersOK, PortsOK, BusRegisters, BusSector, Diag, NewCommand
<1> QED BY <1>1, <1>2, <1>3, <1>4, <1>5

-----------------------------------------------------------------------------
(* One lemma per state of the controller's clock: it preserves Inv.        *)

\* What every clock does beside the state machine.
Sampled == /\ s_ready' = ("DRVNOTRDY" \notin iCPU_STATUS)
           /\ buff_wr' = (state = "WRITE_1")
           /\ UNCHANGED iCPU_STATUS

\* The fields of a request are the ones it is made from, and requests have
\* their type.
LEMMA RequestType ==
  ASSUME NEW o \in {"NONE", "READ", "WRITE", "READADDR", "NOP", "ACK", "FAIL"},
         NEW d \in Bit, NEW s \in Bit
  PROVE  Request(o, d, s) \in Requests /\ Request(o, d, s).op = o
BY DEF Request, Requests

\* A flag that takes the value of a test, or keeps its own, stays a flag.
LEMMA Assigned ==
  ASSUME NEW old \in BOOLEAN, NEW e, NEW S, NEW new, new = (e \in S) \/ new = old
  PROVE  new \in BOOLEAN
<1>1. CASE new = (e \in S)
  <2>1. CASE e \in S BY <1>1, <2>1
  <2>2. CASE e \notin S BY <1>1, <2>2
  <2> QED BY <2>1, <2>2
<1> QED BY <1>1

LEMMA IdleInv ==
  ASSUME Inv, NEW op, BusOp(op), Idle(op), Sampled
  PROVE  Inv'
<1> USE SizeAssumption, BusType, RequestType DEF Inv, Idle, Sampled, BusOnly, BusErrors, NoErrors
<1>1. NumbersOK'
  BY DEF TypeOK, NumbersOK, hostRegs, cmdRegs, headRegs, xferRegs
<1>2. FlagsOK'
  BY DEF TypeOK, FlagsOK, cmdRegs, xferRegs, errRegs
<1>3. PortsOK'
  BY DEF TypeOK, PortsOK, States, Ack, NoRequest
<1>4. TransferCounted' /\ RequestMatchesState' /\ BusyHeld'
  BY DEF TypeOK, NumbersOK, PortsOK, TransferCounted, RequestMatchesState, BusyHeld, s_busy, TransferLength, ReadStates, WriteStates, ReadRequests,
         headRegs, xferRegs, Ack, NoRequest, States
<1> QED BY <1>1, <1>2, <1>3, <1>4 DEF TypeOK

LEMMA RestoreInv ==
  ASSUME Inv, NEW op, BusOp(op), Restore(op), Sampled
  PROVE  Inv'
<1> USE SizeAssumption, BusType, RequestType DEF Inv, Restore, Sampled, Dispatch, SeekRequest, BusErrors, NoErrors
<1>1. NumbersOK'
  BY DEF TypeOK, NumbersOK, hostRegs, cmdRegs, headRegs, xferRegs
<1>2. FlagsOK'
  BY DEF TypeOK, FlagsOK, cmdRegs, xferRegs, errRegs
<1>3. PortsOK'
  BY DEF TypeOK, PortsOK, States, Ack, NoRequest
<1>4. TransferCounted' /\ RequestMatchesState' /\ BusyHeld'
  BY DEF TypeOK, NumbersOK, PortsOK, TransferCounted, RequestMatchesState, BusyHeld, s_busy, TransferLength, ReadStates, WriteStates, ReadRequests,
         headRegs, xferRegs, Ack, NoRequest, States
<1> QED BY <1>1, <1>2, <1>3, <1>4 DEF TypeOK

LEMMA SeekInv ==
  ASSUME Inv, NEW op, BusOp(op), Seek(op), Sampled
  PROVE  Inv'
<1> USE SizeAssumption, BusType, RequestType DEF Inv, Seek, Sampled, Dispatch, SeekRequest, BusErrors, NoErrors
<1>1. NumbersOK'
  BY DEF TypeOK, NumbersOK, hostRegs, cmdRegs, headRegs, xferRegs
<1>2. FlagsOK'
  BY DEF TypeOK, FlagsOK, cmdRegs, xferRegs, errRegs
<1>3. PortsOK'
  BY DEF TypeOK, PortsOK, States, Ack, NoRequest
<1>4. TransferCounted' /\ RequestMatchesState' /\ BusyHeld'
  BY DEF TypeOK, NumbersOK, PortsOK, TransferCounted, RequestMatchesState, BusyHeld, s_busy, TransferLength, ReadStates, WriteStates, ReadRequests,
         headRegs, xferRegs, Ack, NoRequest, States
<1> QED BY <1>1, <1>2, <1>3, <1>4 DEF TypeOK

LEMMA StepInv ==
  ASSUME Inv, NEW op, BusOp(op), NEW dir \in BusDirs, Step(op, dir), Sampled
  PROVE  Inv'
<1> USE SizeAssumption, BusType, RequestType DEF Inv, Step, Sampled, Dispatch, SeekRequest, BusErrors, NoErrors, wNextTrack, wStepDir
<1>1. NumbersOK'
  BY DEF TypeOK, NumbersOK, hostRegs, cmdRegs, headRegs, xferRegs
<1>2. FlagsOK'
  BY DEF TypeOK, FlagsOK, cmdRegs, xferRegs, errRegs
<1>3. PortsOK'
  BY DEF TypeOK, PortsOK, States, Ack, NoRequest
<1>4. TransferCounted' /\ RequestMatchesState' /\ BusyHeld'
  BY DEF TypeOK, NumbersOK, PortsOK, TransferCounted, RequestMatchesState, BusyHeld, s_busy, TransferLength, ReadStates, WriteStates, ReadRequests,
         headRegs, xferRegs, Ack, NoRequest, States
<1> QED BY <1>1, <1>2, <1>3, <1>4 DEF TypeOK

LEMMA ReadSectorInv ==
  ASSUME Inv, NEW op, BusOp(op), ReadSector(op), Sampled
  PROVE  Inv'
<1> USE SizeAssumption, BusType, RequestType DEF Inv, ReadSector, Sampled, Dispatch, NoErrors
<1>1. NumbersOK'
  BY DEF TypeOK, NumbersOK, hostRegs, cmdRegs, headRegs, xferRegs
<1>2. FlagsOK'
  BY DEF TypeOK, FlagsOK, cmdRegs, xferRegs, errRegs
<1>3. PortsOK'
  BY DEF TypeOK, NumbersOK, PortsOK, States
<1>4. TransferCounted' /\ RequestMatchesState' /\ BusyHeld'
  BY DEF TypeOK, NumbersOK, PortsOK, TransferCounted, RequestMatchesState, BusyHeld, s_busy, TransferLength, ReadStates, WriteStates, ReadRequests,
         headRegs, xferRegs, Ack, NoRequest, States
<1> QED BY <1>1, <1>2, <1>3, <1>4 DEF TypeOK

LEMMA ReadAddressInv ==
  ASSUME Inv, NEW op, BusOp(op), ReadAddress(op), Sampled
  PROVE  Inv'
<1> USE SizeAssumption, BusType, RequestType DEF Inv, ReadAddress, Sampled, Dispatch, NoErrors
<1>1. NumbersOK'
  BY DEF TypeOK, NumbersOK, hostRegs, cmdRegs, headRegs, xferRegs
<1>2. FlagsOK'
  BY DEF TypeOK, FlagsOK, cmdRegs, xferRegs, errRegs
<1>3. PortsOK'
  BY DEF TypeOK, NumbersOK, PortsOK, States
<1>4. TransferCounted' /\ RequestMatchesState' /\ BusyHeld'
  BY DEF TypeOK, NumbersOK, PortsOK, TransferCounted, RequestMatchesState, BusyHeld, s_busy, TransferLength, ReadStates, WriteStates, ReadRequests,
         headRegs, xferRegs, Ack, NoRequest, States
<1> QED BY <1>1, <1>2, <1>3, <1>4 DEF TypeOK

LEMMA WriteSectorInv ==
  ASSUME Inv, NEW op, BusOp(op), WriteSector(op), Sampled
  PROVE  Inv'
<1> USE SizeAssumption, BusType, RequestType DEF Inv, WriteSector, Sampled, Dispatch, NoErrors
<1>1. NumbersOK'
  BY DEF TypeOK, NumbersOK, hostRegs, cmdRegs, headRegs, xferRegs
<1>2. FlagsOK'
  BY DEF TypeOK, FlagsOK, cmdRegs, xferRegs, errRegs
<1>3. PortsOK'
  BY DEF TypeOK, PortsOK, States, Ack, NoRequest
<1>4. TransferCounted' /\ RequestMatchesState' /\ BusyHeld'
  BY DEF TypeOK, NumbersOK, PortsOK, TransferCounted, RequestMatchesState, BusyHeld, s_busy, TransferLength, ReadStates, WriteStates, ReadRequests,
         headRegs, xferRegs, Ack, NoRequest, States
<1> QED BY <1>1, <1>2, <1>3, <1>4 DEF TypeOK

LEMMA TrackOperationInv ==
  ASSUME Inv, NEW op, BusOp(op), TrackOperation(op), Sampled
  PROVE  Inv'
<1> USE SizeAssumption, BusType, RequestType DEF Inv, TrackOperation, Sampled, Dispatch, BusErrors, NoErrors
<1>1. NumbersOK'
  BY DEF TypeOK, NumbersOK, hostRegs, cmdRegs, headRegs, xferRegs
<1>2. FlagsOK'
  BY DEF TypeOK, FlagsOK, cmdRegs, xferRegs, errRegs
<1>3. PortsOK'
  BY DEF TypeOK, PortsOK, States, Ack, NoRequest
<1>4. TransferCounted' /\ RequestMatchesState' /\ BusyHeld'
  BY DEF TypeOK, NumbersOK, PortsOK, TransferCounted, RequestMatchesState, BusyHeld, s_busy, TransferLength, ReadStates, WriteStates, ReadRequests,
         headRegs, xferRegs, Ack, NoRequest, States
<1> QED BY <1>1, <1>2, <1>3, <1>4 DEF TypeOK

LEMMA WaitCpuReadInv ==
  ASSUME Inv, NEW op, BusOp(op), WaitCpuRead(op), Sampled
  PROVE  Inv'
<1> USE SizeAssumption, BusType, RequestType DEF Inv, WaitCpuRead, Sampled, BusOnly
<1>1. NumbersOK'
  BY DEF TypeOK, NumbersOK, hostRegs, cmdRegs, headRegs, xferRegs
<1>2. FlagsOK'
  <2>0. s_crcerr' = ("CRC" \in iCPU_STATUS) \/ UNCHANGED s_crcerr
    BY DEF errRegs
  <2>1. s_crcerr' \in BOOLEAN
    BY ONLY <2>0, TypeOK, Assigned, Zenon DEF TypeOK, FlagsOK
  <2>2. s_ready' \in BOOLEAN /\ buff_wr' \in BOOLEAN
    BY Zenon
  <2> QED BY <2>1, <2>2 DEF TypeOK, FlagsOK, cmdRegs, xferRegs, errRegs
<1>3. PortsOK'
  BY DEF TypeOK, PortsOK, States, Ack, NoRequest
<1>4. TransferCounted' /\ RequestMatchesState' /\ BusyHeld'
  BY DEF TypeOK, NumbersOK, PortsOK, TransferCounted, RequestMatchesState, BusyHeld, s_busy, TransferLength, ReadStates, WriteStates, ReadRequests,
         headRegs, xferRegs, Ack, NoRequest, States
<1> QED BY <1>1, <1>2, <1>3, <1>4 DEF TypeOK

LEMMA Read1Inv ==
  ASSUME Inv, NEW op, BusOp(op), Read1(op), Sampled
  PROVE  Inv'
<1> USE SizeAssumption, BusType, RequestType DEF Inv, Read1, Sampled, BusOnly, wBuffAddrPlus1
<1>1. NumbersOK'
  BY DEF TypeOK, NumbersOK, TransferCounted, ReadStates, TransferLength, hostRegs, cmdRegs, headRegs, xferRegs
<1>2. FlagsOK'
  BY DEF TypeOK, FlagsOK, cmdRegs, xferRegs, errRegs
<1>3. PortsOK'
  BY DEF TypeOK, PortsOK, States, Ack, NoRequest
<1>4. TransferCounted' /\ RequestMatchesState' /\ BusyHeld'
  BY DEF TypeOK, NumbersOK, PortsOK, TransferCounted, RequestMatchesState, BusyHeld, s_busy, TransferLength, ReadStates, WriteStates, ReadRequests,
         headRegs, xferRegs, Ack, NoRequest, States
<1> QED BY <1>1, <1>2, <1>3, <1>4 DEF TypeOK

LEMMA Read2Inv ==
  ASSUME Inv, NEW op, BusOp(op), Read2(op), Sampled
  PROVE  Inv'
<1> USE SizeAssumption, BusType, RequestType DEF Inv, Read2, Sampled, BusOnly
<1>1. NumbersOK'
  BY DEF TypeOK, NumbersOK, hostRegs, cmdRegs, headRegs, xferRegs
<1>2. FlagsOK'
  BY DEF TypeOK, FlagsOK, cmdRegs, xferRegs, errRegs
<1>3. PortsOK'
  BY DEF TypeOK, PortsOK, States, Ack, NoRequest
<1>4. TransferCounted' /\ RequestMatchesState' /\ BusyHeld'
  BY DEF TypeOK, NumbersOK, PortsOK, TransferCounted, RequestMatchesState, BusyHeld, s_busy, TransferLength, ReadStates, WriteStates, ReadRequests,
         headRegs, xferRegs, Ack, NoRequest, States
<1> QED BY <1>1, <1>2, <1>3, <1>4 DEF TypeOK

LEMMA Read3Inv ==
  ASSUME Inv, NEW op, BusOp(op), NEW din \in Byte, Read3(op, din), Sampled
  PROVE  Inv'
<1> USE SizeAssumption, BusType, RequestType DEF Inv, Read3, Sampled, BusOnly
<1>1. NumbersOK'
  BY DEF TypeOK, NumbersOK, hostRegs, cmdRegs, headRegs, xferRegs
<1>2. FlagsOK'
  BY DEF TypeOK, FlagsOK, cmdRegs, xferRegs, errRegs
<1>3. PortsOK'
  BY DEF TypeOK, PortsOK, States, Ack, NoRequest
<1>4. TransferCounted' /\ RequestMatchesState' /\ BusyHeld'
  BY DEF TypeOK, NumbersOK, PortsOK, TransferCounted, RequestMatchesState, BusyHeld, s_busy, TransferLength, ReadStates, WriteStates, ReadRequests,
         headRegs, xferRegs, Ack, NoRequest, States
<1> QED BY <1>1, <1>2, <1>3, <1>4 DEF TypeOK

LEMMA ReadSectInv ==
  ASSUME Inv, NEW op, BusOp(op), ReadSect(op), Sampled
  PROVE  Inv'
<1> USE SizeAssumption, BusType, RequestType DEF Inv, ReadSect, Sampled, BusOnly, LastByte, bark, ByteTaken
<1>1. NumbersOK'
  BY DEF TypeOK, NumbersOK, hostRegs, cmdRegs, headRegs, xferRegs
<1>2. FlagsOK'
  BY DEF TypeOK, FlagsOK, cmdRegs, xferRegs, errRegs
<1>3. PortsOK'
  BY DEF TypeOK, PortsOK, States, Ack, NoRequest
<1>4. TransferCounted' /\ RequestMatchesState' /\ BusyHeld'
  BY DEF TypeOK, NumbersOK, PortsOK, TransferCounted, RequestMatchesState, BusyHeld, s_busy, TransferLength, ReadStates, WriteStates, ReadRequests,
         headRegs, xferRegs, Ack, NoRequest, States
<1> QED BY <1>1, <1>2, <1>3, <1>4 DEF TypeOK

LEMMA WriteSectInv ==
  ASSUME Inv, NEW op, BusOp(op), WriteSect(op), Sampled
  PROVE  Inv'
<1> USE SizeAssumption, BusType, RequestType DEF Inv, WriteSect, Sampled, BusOnly
<1>1. NumbersOK'
  BY DEF TypeOK, NumbersOK, hostRegs, cmdRegs, headRegs, xferRegs
<1>2. FlagsOK'
  BY DEF TypeOK, FlagsOK, cmdRegs, xferRegs, errRegs
<1>3. PortsOK'
  BY DEF TypeOK, PortsOK, States, Ack, NoRequest
<1>4. TransferCounted' /\ RequestMatchesState' /\ BusyHeld'
  BY DEF TypeOK, NumbersOK, PortsOK, TransferCounted, RequestMatchesState, BusyHeld, s_busy, TransferLength, ReadStates, WriteStates, ReadRequests,
         headRegs, xferRegs, Ack, NoRequest, States
<1> QED BY <1>1, <1>2, <1>3, <1>4 DEF TypeOK

LEMMA Write1Inv ==
  ASSUME Inv, NEW op, BusOp(op), Write1(op), Sampled
  PROVE  Inv'
<1> USE SizeAssumption, BusType, RequestType DEF Inv, Write1, Sampled, BusOnly
<1>1. NumbersOK'
  BY DEF TypeOK, NumbersOK, hostRegs, cmdRegs, headRegs, xferRegs
<1>2. FlagsOK'
  BY DEF TypeOK, FlagsOK, cmdRegs, xferRegs, errRegs
<1>3. PortsOK'
  BY DEF TypeOK, PortsOK, States, Ack, NoRequest
<1>4. TransferCounted' /\ RequestMatchesState' /\ BusyHeld'
  BY DEF TypeOK, NumbersOK, PortsOK, TransferCounted, RequestMatchesState, BusyHeld, s_busy, TransferLength, ReadStates, WriteStates, ReadRequests,
         headRegs, xferRegs, Ack, NoRequest, States
<1> QED BY <1>1, <1>2, <1>3, <1>4 DEF TypeOK

LEMMA Write2Inv ==
  ASSUME Inv, NEW op, BusOp(op), Write2(op), Sampled
  PROVE  Inv'
<1> USE SizeAssumption, BusType, RequestType DEF Inv, Write2, Sampled, BusOnly, LastByte, wBuffAddrPlus1
<1>1. NumbersOK'
  BY DEF TypeOK, NumbersOK, TransferCounted, WriteStates, hostRegs, cmdRegs, headRegs, xferRegs
<1>2. FlagsOK'
  BY DEF TypeOK, FlagsOK, cmdRegs, xferRegs, errRegs
<1>3. PortsOK'
  BY DEF TypeOK, NumbersOK, PortsOK, States
<1>4. TransferCounted' /\ RequestMatchesState' /\ BusyHeld'
  BY DEF TypeOK, NumbersOK, PortsOK, TransferCounted, RequestMatchesState, BusyHeld, s_busy, TransferLength, ReadStates, WriteStates, ReadRequests,
         headRegs, xferRegs, Ack, NoRequest, States
<1> QED BY <1>1, <1>2, <1>3, <1>4 DEF TypeOK

LEMMA WaitCpuWriteInv ==
  ASSUME Inv, NEW op, BusOp(op), WaitCpuWrite(op), Sampled
  PROVE  Inv'
<1> USE SizeAssumption, BusType, RequestType DEF Inv, WaitCpuWrite, Sampled, BusOnly
<1>1. NumbersOK'
  BY DEF TypeOK, NumbersOK, hostRegs, cmdRegs, headRegs, xferRegs
<1>2. FlagsOK'
  <2>0. s_wrfault' = ("CRC" \in iCPU_STATUS) \/ UNCHANGED s_wrfault
    BY DEF errRegs
  <2>1. s_wrfault' \in BOOLEAN
    BY ONLY <2>0, TypeOK, Assigned, Zenon DEF TypeOK, FlagsOK
  <2>2. s_ready' \in BOOLEAN /\ buff_wr' \in BOOLEAN
    BY Zenon
  <2> QED BY <2>1, <2>2 DEF TypeOK, FlagsOK, cmdRegs, xferRegs, errRegs
<1>3. PortsOK'
  BY DEF TypeOK, PortsOK, States, Ack, NoRequest
<1>4. TransferCounted' /\ RequestMatchesState' /\ BusyHeld'
  BY DEF TypeOK, NumbersOK, PortsOK, TransferCounted, RequestMatchesState, BusyHeld, s_busy, TransferLength, ReadStates, WriteStates, ReadRequests,
         headRegs, xferRegs, Ack, NoRequest, States
<1> QED BY <1>1, <1>2, <1>3, <1>4 DEF TypeOK

LEMMA WaitCpuInv ==
  ASSUME Inv, NEW op, BusOp(op), WaitCpu(op), Sampled
  PROVE  Inv'
<1> USE SizeAssumption, BusType, RequestType DEF Inv, WaitCpu, Sampled, BusOnly
<1>1. NumbersOK'
  BY DEF TypeOK, NumbersOK, hostRegs, cmdRegs, headRegs, xferRegs
<1>2. FlagsOK'
  BY DEF TypeOK, FlagsOK, cmdRegs, xferRegs, errRegs
<1>3. PortsOK'
  BY DEF TypeOK, PortsOK, States, Ack, NoRequest
<1>4. TransferCounted' /\ RequestMatchesState' /\ BusyHeld'
  BY DEF TypeOK, NumbersOK, PortsOK, TransferCounted, RequestMatchesState, BusyHeld, s_busy, TransferLength, ReadStates, WriteStates, ReadRequests,
         headRegs, xferRegs, Ack, NoRequest, States
<1> QED BY <1>1, <1>2, <1>3, <1>4 DEF TypeOK

LEMMA AbortInv ==
  ASSUME Inv, NEW op, BusOp(op), Abort(op), Sampled
  PROVE  Inv'
<1> USE SizeAssumption, BusType, RequestType DEF Inv, Abort, Sampled, BusOnly
<1>1. NumbersOK'
  BY DEF TypeOK, NumbersOK, hostRegs, cmdRegs, headRegs, xferRegs
<1>2. FlagsOK'
  BY DEF TypeOK, FlagsOK, cmdRegs, xferRegs, errRegs
<1>3. PortsOK'
  BY DEF TypeOK, PortsOK, States, Ack, NoRequest
<1>4. TransferCounted' /\ RequestMatchesState' /\ BusyHeld'
  BY DEF TypeOK, NumbersOK, PortsOK, TransferCounted, RequestMatchesState, BusyHeld, s_busy, TransferLength, ReadStates, WriteStates, ReadRequests,
         headRegs, xferRegs, Ack, NoRequest, States
<1> QED BY <1>1, <1>2, <1>3, <1>4 DEF TypeOK

LEMMA EndCommandInv ==
  ASSUME Inv, NEW op, BusOp(op), EndCommand(op), Sampled
  PROVE  Inv'
<1> USE SizeAssumption, BusType, RequestType DEF Inv, EndCommand, Sampled, BusOnly
<1>1. NumbersOK'
  BY DEF TypeOK, NumbersOK, hostRegs, cmdRegs, headRegs, xferRegs
<1>2. FlagsOK'
  BY DEF TypeOK, FlagsOK, cmdRegs, xferRegs, errRegs
<1>3. PortsOK'
  BY DEF TypeOK, PortsOK, States, Ack, NoRequest
<1>4. TransferCounted' /\ RequestMatchesState' /\ BusyHeld'
  BY DEF TypeOK, NumbersOK, PortsOK, TransferCounted, RequestMatchesState, BusyHeld, s_busy, TransferLength, ReadStates, WriteStates, ReadRequests,
         headRegs, xferRegs, Ack, NoRequest, States
<1> QED BY <1>1, <1>2, <1>3, <1>4 DEF TypeOK

LEMMA EndCommand2Inv ==
  ASSUME Inv, NEW op, BusOp(op), EndCommand2(op), Sampled
  PROVE  Inv'
<1> USE SizeAssumption, BusType, RequestType DEF Inv, EndCommand2, Sampled, BusOnly
<1>1. NumbersOK'
  BY DEF TypeOK, NumbersOK, hostRegs, cmdRegs, headRegs, xferRegs
<1>2. FlagsOK'
  BY DEF TypeOK, FlagsOK, cmdRegs, xferRegs, errRegs
<1>3. PortsOK'
  BY DEF TypeOK, PortsOK, States, Ack, NoRequest
<1>4. TransferCounted' /\ RequestMatchesState' /\ BusyHeld'
  BY DEF TypeOK, NumbersOK, PortsOK, TransferCounted, RequestMatchesState, BusyHeld, s_busy, TransferLength, ReadStates, WriteStates, ReadRequests,
         headRegs, xferRegs, Ack, NoRequest, States
<1> QED BY <1>1, <1>2, <1>3, <1>4 DEF TypeOK

-----------------------------------------------------------------------------
(* The theorems.                                                           *)

LEMMA InitInv == PowerUp => Inv
<1> SUFFICES ASSUME Init, iCPU_STATUS = {} PROVE Inv
  BY DEF PowerUp
<1>1. NumbersOK
  BY SizeAssumption DEF Init, NumbersOK
<1>2. FlagsOK
  BY DEF Init, FlagsOK
<1>3. PortsOK
  BY RequestType DEF Init, PortsOK, Ack, States, Commands, TypeI, StatusWords
<1>4. TransferCounted /\ RequestMatchesState /\ BusyHeld
  BY RequestType DEF Init, TransferCounted, RequestMatchesState, BusyHeld, ReadStates, WriteStates, Ack
<1> QED BY <1>1, <1>2, <1>3, <1>4 DEF Inv, TypeOK

LEMMA DeadInv == Inv /\ Dead /\ UNCHANGED iCPU_STATUS => Inv'
<1> SUFFICES ASSUME Inv, Dead, UNCHANGED iCPU_STATUS PROVE Inv'
  OBVIOUS
<1> USE RequestType DEF Inv, Dead, hostRegs, cmdRegs, headRegs, xferRegs
<1>1. NumbersOK' /\ FlagsOK'
  BY DEF TypeOK, NumbersOK, FlagsOK
<1>2. PortsOK'
  BY DEF TypeOK, PortsOK
<1>3. TransferCounted' /\ RequestMatchesState' /\ BusyHeld'
  BY DEF TransferCounted, RequestMatchesState, BusyHeld, s_busy, ReadStates, WriteStates
<1> QED BY <1>1, <1>2, <1>3 DEF TypeOK

LEMMA ResetInv == Inv /\ Reset /\ UNCHANGED iCPU_STATUS => Inv'
<1> SUFFICES ASSUME Inv, Reset, UNCHANGED iCPU_STATUS PROVE Inv'
  OBVIOUS
<1> USE RequestType, SizeAssumption DEF Inv, Reset, NoErrors
<1>1. NumbersOK'
  BY DEF TypeOK, NumbersOK
<1>2. FlagsOK'
  BY DEF TypeOK, FlagsOK
<1>3. PortsOK'
  BY DEF TypeOK, PortsOK, Ack, States
<1>4. TransferCounted' /\ RequestMatchesState' /\ BusyHeld'
  BY DEF TransferCounted, RequestMatchesState, BusyHeld, s_busy, ReadStates, WriteStates, Ack
<1> QED BY <1>1, <1>2, <1>3, <1>4 DEF TypeOK

\* The firmware writes nothing but its status port.
LEMMA FirmwareInv == Inv /\ Firmware => Inv'
<1> SUFFICES ASSUME Inv, Firmware PROVE Inv'
  OBVIOUS
<1> USE DEF Inv, Firmware, wdVars, hostRegs, cmdRegs, headRegs, xferRegs, errRegs
<1>1. NumbersOK' /\ FlagsOK'
  BY DEF TypeOK, NumbersOK, FlagsOK
<1>2. PortsOK'
  BY DEF TypeOK, PortsOK
<1>3. TransferCounted' /\ RequestMatchesState' /\ BusyHeld'
  BY DEF TransferCounted, RequestMatchesState, BusyHeld, s_busy, TransferLength
<1> QED BY <1>1, <1>2, <1>3 DEF TypeOK

\* A clock with any bus cycle and any byte from the buffer.
LEMMA TickInv ==
  ASSUME Inv, NEW op, BusOp(op), NEW dir \in BusDirs, NEW din \in Byte,
         Tick(op, dir, din), UNCHANGED iCPU_STATUS
  PROVE  Inv'
<1>1. CASE Dead
  BY <1>1, DeadInv
<1>2. CASE /\ Sampled
           /\ \/ Idle(op) \/ Restore(op) \/ Seek(op) \/ Step(op, dir)
              \/ ReadSector(op) \/ ReadAddress(op) \/ WriteSector(op) \/ TrackOperation(op)
              \/ WaitCpuRead(op) \/ Read1(op) \/ Read2(op) \/ Read3(op, din) \/ ReadSect(op)
              \/ WriteSect(op) \/ Write1(op) \/ Write2(op) \/ WaitCpuWrite(op)
              \/ WaitCpu(op) \/ Abort(op) \/ EndCommand(op) \/ EndCommand2(op)
  BY <1>2, IdleInv, RestoreInv, SeekInv, StepInv, ReadSectorInv, ReadAddressInv,
     WriteSectorInv, TrackOperationInv, WaitCpuReadInv, Read1Inv, Read2Inv, Read3Inv,
     ReadSectInv, WriteSectInv, Write1Inv, Write2Inv, WaitCpuWriteInv, WaitCpuInv,
     AbortInv, EndCommandInv, EndCommand2Inv
<1> QED BY <1>1, <1>2 DEF Tick, Sampled

LEMMA ClockInv == Inv /\ Clock => Inv'
BY TickInv, HostOpType, HostAssumption DEF Clock

LEMMA NextInv == Inv /\ [Next]_vars => Inv'
<1> SUFFICES ASSUME Inv, [Next]_vars PROVE Inv'
  OBVIOUS
<1>1. CASE Next
  BY <1>1, ClockInv, FirmwareInv, ResetInv DEF Next, ResetKey
<1>2. CASE UNCHANGED vars
  <2> USE <1>2 DEF Inv, vars, wdVars, hostRegs, cmdRegs, headRegs, xferRegs, errRegs
  <2>1. NumbersOK' /\ FlagsOK'
    BY DEF TypeOK, NumbersOK, FlagsOK
  <2>2. PortsOK'
    BY DEF TypeOK, PortsOK
  <2>3. TransferCounted' /\ RequestMatchesState' /\ BusyHeld'
    BY DEF TransferCounted, RequestMatchesState, BusyHeld, s_busy, TransferLength
  <2> QED BY <2>1, <2>2, <2>3 DEF TypeOK
<1> QED BY <1>1, <1>2

THEOREM Invariance == Spec => []Inv
<1>1. PowerUp => Inv
  BY InitInv
<1>2. Inv /\ [Next]_vars => Inv'
  BY NextInv
<1> QED BY <1>1, <1>2, PTL DEF Spec

\* Every register keeps its width: the wrapping counters of the transfer stay
\* inside the sector buffer.
THEOREM TypeCorrect == Spec => []TypeOK
BY Invariance, PTL DEF Inv

\* A transfer neither runs off the buffer nor stops short, for every sector size.
THEOREM TransfersAreCounted == Spec => []TransferCounted
BY Invariance, PTL DEF Inv

\* The firmware never sees a request that is not the controller's present business.
THEOREM RequestsMatch == Spec => []RequestMatchesState
BY Invariance, PTL DEF Inv

\* BUSY locks the registers for as long as they are in use.
THEOREM BusyIsHeld == Spec => []BusyHeld
BY Invariance, PTL DEF Inv

-----------------------------------------------------------------------------
(* What a step may never do.                                               *)

\* The request port changes only where the state machine says so.
LEMMA RequestChanges ==
  ASSUME Inv, Next
  PROVE  \/ UNCHANGED oCPU_REQUEST
         \/ oCPU_REQUEST'.op \in {"ACK", "FAIL"}
         \/ state \in {"READY", "WRITE_2"} /\ oCPU_REQUEST'.op \in WorkRequests
         \/ iCPU_STATUS = {} /\ state = "ENDCOMMAND2"
<1> USE RequestType DEF Inv, WorkRequests, ReadRequests
<1>1. CASE Clock
  <2> PICK op \in HostOps, dir \in BusDirs, din \in HostBytes : Tick(op, dir, din)
    BY <1>1 DEF Clock
  <2>1. wdstat_drive \in Bit /\ wdstat_side \in Bit
    BY DEF TypeOK, NumbersOK
  <2>2. CASE Dead
    BY <2>2 DEF Dead
  <2>3. CASE Restore(op) \/ Seek(op) \/ Step(op, dir)
    BY <2>3 DEF Restore, Seek, Step, SeekRequest, Dispatch
  <2>4. CASE ReadSector(op) \/ ReadAddress(op)
    BY <2>1, <2>4 DEF ReadSector, ReadAddress, Dispatch
  <2>5. CASE Write2(op)
    BY <2>1, <2>5 DEF Write2
  <2>6. CASE EndCommand(op) \/ EndCommand2(op)
    BY <2>6 DEF EndCommand, EndCommand2, Ack, CpuClear
  <2>7. CASE \/ Idle(op) \/ WriteSector(op) \/ TrackOperation(op)
             \/ WaitCpuRead(op) \/ Read1(op) \/ Read2(op) \/ Read3(op, din) \/ ReadSect(op)
             \/ WriteSect(op) \/ Write1(op) \/ WaitCpuWrite(op) \/ WaitCpu(op) \/ Abort(op)
    BY <2>7 DEF Idle, WriteSector, TrackOperation, WaitCpuRead, Read1, Read2, Read3, ReadSect,
                WriteSect, Write1, WaitCpuWrite, WaitCpu, Abort
  <2> QED BY <2>2, <2>3, <2>4, <2>5, <2>6, <2>7 DEF Tick
<1>2. CASE Firmware
  BY <1>2 DEF Firmware, wdVars
<1>3. CASE ResetKey
  BY <1>3 DEF ResetKey, Reset, Ack
<1> QED BY <1>1, <1>2, <1>3 DEF Next

\* Work is withdrawn only by an acknowledgement or the death of the controller,
\* and the acknowledgement only when the status port is clear.
THEOREM Handshake == Spec => FourPhase
<1> DEFINE Phase ==
      /\ oCPU_REQUEST.op \in WorkRequests /\ oCPU_REQUEST' # oCPU_REQUEST
           => oCPU_REQUEST'.op \in {"ACK", "FAIL"}
      /\ oCPU_REQUEST.op = "ACK" /\ oCPU_REQUEST'.op = "NONE" => iCPU_STATUS = {}
<1>1. Inv /\ [Next]_vars => [Phase]_vars
  <2> SUFFICES ASSUME Inv, Next PROVE Phase
    OBVIOUS
  <2>1. state \in {"READY", "WRITE_2"} => oCPU_REQUEST.op \in {"NONE", "ACK"}
    BY DEF Inv, RequestMatchesState, WriteStates
  <2>2. state = "ENDCOMMAND2" => oCPU_REQUEST.op = "ACK"
    BY DEF Inv, RequestMatchesState
  <2> QED BY RequestChanges, <2>1, <2>2 DEF WorkRequests, ReadRequests
<1>2. Spec => [][Phase]_vars
  BY <1>1, Invariance, PTL DEF Spec
<1> QED BY <1>2, PTL DEF FourPhase

\* While a read is outstanding the firmware may pick up the sector and the track
\* at any moment and find the ones the host asked for.
THEOREM ReadAddressIsStable == Spec => ReadAddressStable
<1> DEFINE Stable ==
      state = "WAIT_CPUREAD" /\ state' # "READY" =>
        wdstat_sector' \in {wdstat_sector, Diag} /\ disk_track' = disk_track
<1>1. Inv /\ [Next]_vars => [Stable]_vars
  <2> SUFFICES ASSUME Inv, Next, state = "WAIT_CPUREAD", state' # "READY"
               PROVE  wdstat_sector' \in {wdstat_sector, Diag} /\ disk_track' = disk_track
    OBVIOUS
  <2>1. CASE Clock
    <3> PICK op \in HostOps, dir \in BusDirs, din \in HostBytes : Tick(op, dir, din)
      BY <2>1 DEF Clock
    <3>1. WaitCpuRead(op)
      BY DEF Tick, Dead, Idle, Restore, Seek, Step, ReadSector, ReadAddress, WriteSector,
             TrackOperation, Dispatch, Read1, Read2, Read3, ReadSect, WriteSect, Write1, Write2,
             WaitCpuWrite, WaitCpu, Abort, EndCommand, EndCommand2
    <3>2. s_busy
      BY DEF Inv, BusyHeld
    <3> QED BY <3>1, <3>2 DEF WaitCpuRead, BusOnly, BusRegisters, BusSector, headRegs
  <2>2. CASE Firmware
    BY <2>2 DEF Firmware, wdVars, hostRegs, headRegs
  <2>3. CASE ResetKey
    BY <2>3 DEF ResetKey, Reset
  <2> QED BY <2>1, <2>2, <2>3 DEF Next
<1>2. Spec => [][Stable]_vars
  BY <1>1, Invariance, PTL DEF Spec
<1> QED BY <1>2, PTL DEF ReadAddressStable

=============================================================================
