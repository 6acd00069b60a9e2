------------------------------- MODULE Ports --------------------------------
(***************************************************************************)
(* Two devices of the Vector-06C's I/O ports: the floppy controller and    *)
(* the interval timer.  They share no register, so a program drives one of *)
(* them: whatever it did with the other would not change what it sees.     *)
(* The timer's bus is modelled clock by clock, the controller's host by    *)
(* its operations.                                                         *)
(***************************************************************************)
EXTENDS WD1793, Timer

VARIABLE device    \* what the program drives: "fdc" or "timer"

portVars == <<vars, timerVars, device>>

PortsInit == PowerUp /\ TimerInit /\ device \in {"fdc", "timer"}

DrivesFdc == device = "fdc" /\ Next /\ UNCHANGED <<timerVars, device>>

DrivesTimer == device = "timer" /\ TimerNext /\ UNCHANGED <<vars, device>>

PortsNext == DrivesFdc \/ DrivesTimer

PortsSpec == PortsInit /\ [][PortsNext]_portVars
=============================================================================
