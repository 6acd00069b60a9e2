------------------------------ MODULE MCPorts -------------------------------
(* The controller, its host and its firmware free to do anything, and the  *)
(* timer under programs of two routines.                                   *)
EXTENDS Ports

MCCommands == {"READ", "WRITE", "READADDR", "TRACK", "FORCEINT"}

Word3(u, m) == Out(WordPort, Control(u, 3, m))
LatchOf(u)  == Out(WordPort, Control(u, 0, 0))

\* Sets a mode and a count, the low byte first.
Load(u, m, n) == <<Word3(u, m), Out(Port(u), Lo(n)), Out(Port(u), Hi(n))>>

MCRoutines ==
  {Load(0, m, 5) : m \in {0, 2, 3, 4}} \cup {Load(0, 2, 0), Load(0, 3, 6)}
  \cup {<<LatchOf(0), In(Port(0)), In(Port(0))>>,
        \* two units' latches, read in the other order,
        <<LatchOf(0), LatchOf(1), In(Port(1)), In(Port(0)), In(Port(0))>>,
        \* half of a read or of a count, left to the next routine,
        <<In(Port(0))>>,
        <<Out(Port(0), 1)>>,
        \* counts of one byte
        <<Out(WordPort, Control(0, 1, 6)), Out(Port(0), 3)>>,
        <<Out(WordPort, Control(0, 2, 3)), Out(Port(0), 1), In(Port(0))>>}
=============================================================================
