------------------------------ MODULE Devices ------------------------------
(***************************************************************************)
(* The parts of the virtual platform that share no state with one another, *)
(* each with its own environment: the DMA with a memory, an accelerator    *)
(* with a host, the flash controller, the Ethernet device, the sensors,    *)
(* the display, and the address map.  `subject` is the one under study in  *)
(* a behaviour; the others stay as they were constructed, so that the      *)
(* states of this module are the sum of theirs, not the product.           *)
(***************************************************************************)
EXTENDS DmaCopy, PeStream, Flash, Ethernet, Sensors, Display, MemoryMap

CONSTANT Blank   \* contents of the medium at first

VARIABLE subject

partVars == <<copyAllVars, streamVars, flashVars, ethVars, sensorVars, displayVars, mapVars>>
deviceVars == <<subject, partVars>>

Subjects == {"dma", "accelerator", "flash", "ethernet", "sensor", "display", "map"}

\* A part has no choice at its construction unless it is the subject.
Unless(s, fixed) == subject = s \/ fixed

DevicesInit ==
  /\ subject \in Subjects
  /\ MemInit /\ StreamInit /\ DisplayInit
  /\ FlashInit /\ dev = Blank
  /\ Unless("flash", medium = "none")
  /\ EthInit /\ Unless("ethernet", nic = "disabled" /\ ~born)
  /\ SensorInit /\ Unless("sensor", sensor = 1)
  /\ MapInit
  /\ Unless("map", ~dmi /\ \A s \in RamStarts, r \in RamSizes, m \in MramSizes :
                             ramStart <= s /\ ramSize <= r /\ mramSize <= m)

-----------------------------------------------------------------------------
(* One part moves, the others do not                                       *)

OnlyDma ==
  /\ subject = "dma"
  /\ UNCHANGED <<subject, streamVars, flashVars, ethVars, sensorVars, displayVars, mapVars>>
OnlyAccelerator ==
  /\ subject = "accelerator"
  /\ UNCHANGED <<subject, copyAllVars, flashVars, ethVars, sensorVars, displayVars, mapVars>>
OnlyFlashcontroller ==
  /\ subject = "flash"
  /\ UNCHANGED <<subject, copyAllVars, streamVars, ethVars, sensorVars, displayVars, mapVars>>
OnlyEthernetDevice ==
  /\ subject = "ethernet"
  /\ UNCHANGED <<subject, copyAllVars, streamVars, flashVars, sensorVars, displayVars, mapVars>>
OnlySimpleSensor ==
  /\ subject = "sensor"
  /\ UNCHANGED <<subject, copyAllVars, streamVars, flashVars, ethVars, displayVars, mapVars>>
OnlyDisplayDevice ==
  /\ subject = "display"
  /\ UNCHANGED <<subject, copyAllVars, streamVars, flashVars, ethVars, sensorVars, mapVars>>
OnlyBus ==
  /\ subject = "map"
  /\ UNCHANGED <<subject, copyAllVars, streamVars, flashVars, ethVars, sensorVars, displayVars>>

Dma == OnlyDma /\ MemNext
Accelerator == OnlyAccelerator /\ StreamNext
Flashcontroller == OnlyFlashcontroller /\ FlashNext
EthernetDevice == OnlyEthernetDevice /\ EthNext
SimpleSensor == OnlySimpleSensor /\ SensorNext
DisplayDevice == OnlyDisplayDevice /\ DisplayNext
Bus == OnlyBus /\ MapNext

DevicesNext ==
  \/ Dma \/ Accelerator \/ Flashcontroller \/ EthernetDevice
  \/ SimpleSensor \/ DisplayDevice \/ Bus

\* The threads of the devices run, the driver of the Ethernet device serves
\* its interrupts, and the host of the accelerator goes on.  What they do is
\* progress, so it is enough that one of them moves when one of them can.
Serve ==
  \/ OnlyDma /\ Thread
  \/ Accelerator
  \/ OnlyEthernetDevice /\ (Poll \/ EthDriver)

DevicesSpec == DevicesInit /\ [][DevicesNext]_deviceVars /\ WF_deviceVars(Serve)
=============================================================================
