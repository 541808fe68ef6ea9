------------------------------ MODULE Ethernet -----------------------------
(***************************************************************************)
(* EthernetDevice of vp/ethernet.h and vp/ethernet.cpp: a thread polls the *)
(* tap interface of the host and keeps one frame at a time for a driver    *)
(* behind registers.  The tap and the driver are outside the repository:   *)
(* frames of any kind arrive at any time, the host may refuse a write, and *)
(* the driver receives when it is interrupted and sends when it likes.     *)
(***************************************************************************)
EXTENDS Integers, Sequences, FiniteSets, FiniteSetsExt

CONSTANTS Frames,      \* records: dest, own, type and size of a frame
          MaxFrames,   \* frames that arrive (bounds the model)
          MaxSends,    \* frames that are sent (bounds the model)
          SendSizes,   \* sizes the driver asks for
          NoFrame      \* contents of the buffer before the first frame

ASSUME EthAssumption == MaxFrames \in Nat /\ MaxSends \in Nat /\ SendSizes \subseteq Nat

MinSize == 60   \* shorter frames are padded

VARIABLES nic,           \* "up", "disabled" (no interface given) or "aborted"
          born,          \* has_frame, which has no initialiser, as it was found
          tap,           \* frames the host holds for the device
          arrived,       \* history of tap
          hasFrame, recvBuf, receiveSize,
          ethIrq,        \* the interrupt the driver has not claimed yet
          driver,        \* "idle" or about to issue RECV_OPERATION
          delivered,     \* what RECV_OPERATION has put into memory
          sendSize, sends

ethVars == <<nic, born, tap, arrived, hasFrame, recvBuf, receiveSize, ethIrq, driver,
             delivered, sendSize, sends>>

EthInit ==
  /\ nic \in {"up", "disabled"}
  /\ born \in BOOLEAN /\ hasFrame = born
  /\ tap = <<>> /\ arrived = <<>> /\ delivered = <<>>
  /\ recvBuf = NoFrame /\ receiveSize = 0
  /\ ethIrq = FALSE /\ driver = "idle"
  /\ sendSize = 0 /\ sends = 0

FrameArrives(f) ==
  /\ Len(arrived) < MaxFrames
  /\ tap' = Append(tap, f) /\ arrived' = Append(arrived, f)
  /\ UNCHANGED <<nic, born, hasFrame, recvBuf, receiveSize, ethIrq, driver, delivered,
                 sendSize, sends>>

-----------------------------------------------------------------------------
(* The thread                                                              *)

\* Mutant of IsPacketForUs: a broadcast of our own is taken, too.
IsPacketForUsEcho(f) ==
  /\ f.dest \in {"us", "all"}
  /\ f.type \in {"ip", "arp"}

\* For our address or for all, not a broadcast of our own, and IP or ARP.
IsPacketForUs(f) ==
  /\ f.dest = "us" \/ (f.dest = "all" /\ ~f.own)
  /\ f.type \in {"ip", "arp"}

\* Mutant of Poll: a frame that waits for the driver is overwritten.
PollOverwrites ==
  /\ nic = "up" /\ tap # <<>>
  /\ LET ours == {k \in DOMAIN tap : IsPacketForUs(tap[k])}
         taken == IF ours = {} THEN Len(tap) ELSE Min(ours)
     IN  /\ recvBuf' = tap[taken]
         /\ tap' = SubSeq(tap, taken + 1, Len(tap))
         /\ hasFrame' = (ours # {})
         /\ receiveSize' = IF ours = {} THEN receiveSize ELSE tap[taken].size
         /\ ethIrq' = (ethIrq \/ ours # {})
  /\ UNCHANGED <<nic, born, arrived, driver, delivered, sendSize, sends>>

\* One round of run: unless a frame waits, frames are read until one is for
\* us or the host has none left, and the driver is told.
Poll ==
  /\ nic = "up" /\ ~hasFrame /\ tap # <<>>
  /\ LET ours == {k \in DOMAIN tap : IsPacketForUs(tap[k])}
         taken == IF ours = {} THEN Len(tap) ELSE Min(ours)
     IN  /\ recvBuf' = tap[taken]
         /\ tap' = SubSeq(tap, taken + 1, Len(tap))
         /\ hasFrame' = (ours # {})
         /\ receiveSize' = IF ours = {} THEN receiveSize ELSE tap[taken].size
         /\ ethIrq' = (ethIrq \/ ours # {})
  /\ UNCHANGED <<nic, born, arrived, driver, delivered, sendSize, sends>>

\* The same round, when the host reports anything but a frame or none: the
\* thread throws, and the simulation is over.
ReadFails ==
  /\ nic = "up" /\ ~hasFrame
  /\ nic' = "aborted"
  /\ UNCHANGED <<born, tap, arrived, hasFrame, recvBuf, receiveSize, ethIrq, driver,
                 delivered, sendSize, sends>>

-----------------------------------------------------------------------------
(* The driver and the registers                                            *)

ClaimFrame ==
  /\ ethIrq /\ driver = "idle"
  /\ ethIrq' = FALSE /\ driver' = "recv"
  /\ UNCHANGED <<nic, born, tap, arrived, hasFrame, recvBuf, receiveSize, delivered,
                 sendSize, sends>>

\* Mutant of Receive: the size stays, the frame does, too.
ReceiveKeeps ==
  /\ driver = "recv" /\ nic = "up" /\ hasFrame
  /\ delivered' = Append(delivered, [frame |-> recvBuf, size |-> receiveSize])
  /\ receiveSize' = 0 /\ driver' = "idle"
  /\ UNCHANGED <<nic, born, tap, arrived, hasFrame, recvBuf, ethIrq, sendSize, sends>>

\* RECV_OPERATION; without a frame the assertion fails.
Receive ==
  /\ driver = "recv" /\ nic = "up"
  /\ IF hasFrame
     THEN /\ delivered' = Append(delivered, [frame |-> recvBuf, size |-> receiveSize])
          /\ hasFrame' = FALSE /\ receiveSize' = 0
          /\ UNCHANGED nic
     ELSE nic' = "aborted" /\ UNCHANGED <<delivered, hasFrame, receiveSize>>
  /\ driver' = "idle"
  /\ UNCHANGED <<born, tap, arrived, recvBuf, ethIrq, sendSize, sends>>

\* SEND_OPERATION.  The frame must carry our address as its source and the
\* host must take it whole; the size register is left at the padded size.
Send(size, ours, whole) ==
  /\ driver = "idle" /\ nic = "up" /\ sends < MaxSends
  /\ sendSize' = IF size < MinSize THEN MinSize ELSE size
  /\ sends' = sends + 1
  /\ nic' = IF ours /\ whole THEN nic ELSE "aborted"
  /\ UNCHANGED <<born, tap, arrived, hasFrame, recvBuf, receiveSize, ethIrq, driver,
                 delivered>>

\* Any register of a device without an interface: an assertion fails.
TouchDisabled ==
  /\ nic = "disabled"
  /\ nic' = "aborted"
  /\ UNCHANGED <<born, tap, arrived, hasFrame, recvBuf, receiveSize, ethIrq, driver,
                 delivered, sendSize, sends>>

\* Any other value of the status register: an exception.
Unsupported ==
  /\ nic = "up" /\ driver = "idle"
  /\ nic' = "aborted"
  /\ UNCHANGED <<born, tap, arrived, hasFrame, recvBuf, receiveSize, ethIrq, driver,
                 delivered, sendSize, sends>>

EthDriver == ClaimFrame \/ Receive

EthNext ==
  \/ \E f \in Frames : FrameArrives(f)
  \/ Poll \/ ReadFails \/ EthDriver
  \/ \E s \in SendSizes \cup {sendSize}, ours, whole \in BOOLEAN : Send(s, ours, whole)
  \/ TouchDisabled \/ Unsupported

EthSpec == EthInit /\ [][EthNext]_ethVars

-----------------------------------------------------------------------------
(* Properties                                                              *)

\* What arrived for us, by position, and the how-manieth of them each is.
Ours == {j \in DOMAIN arrived : IsPacketForUs(arrived[j])}
Place(j) == Cardinality({i \in Ours : i <= j})

\* Whole frames, in the order of their arrival: what the driver gets is what
\* arrived for us, nothing left out, doubled or overwritten while it waits; and
\* the frame an interrupt announced is there when the driver comes for it, so
\* that assert(has_frame) never fails (ethernet.h:88-126, ethernet.cpp:311-340).
EthInOrder ==
  ~born =>
    /\ \A k \in DOMAIN delivered : \E j \in Ours :
         Place(j) = k /\ delivered[k] = [frame |-> arrived[j], size |-> arrived[j].size]
    /\ driver = "recv" /\ nic = "up" => hasFrame

\* Every frame for us is delivered in the end, provided has_frame happened to
\* be found FALSE: otherwise the thread never reads one (ethernet.h:61, 120).
EthDelivers ==
  (~born /\ Len(delivered) < Cardinality(Ours)) ~>
    (Len(delivered) = Cardinality(Ours) \/ nic # "up")
=============================================================================
