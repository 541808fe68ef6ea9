----------------------------- MODULE MCDevices -----------------------------
(* Values of the constants of Devices that a configuration cannot express. *)
EXTENDS Devices

Frame(dest, own, type, size) == [dest |-> dest, own |-> own, type |-> type, size |-> size]

\* For us, for all, a broadcast of our own, one for somebody else, and one of
\* a type nobody takes.
MCFrames ==
  { Frame("us", FALSE, "ip", 60), Frame("all", FALSE, "arp", 61), Frame("all", TRUE, "arp", 60),
    Frame("other", FALSE, "ip", 60), Frame("us", FALSE, "else", 60) }

MCBlank == [b \in Blocks |-> [i \in Pos |-> 0]]
=============================================================================
