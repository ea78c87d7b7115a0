------------------------------- MODULE Parts --------------------------------
(* The parts that share no state with each other, each on its own: `part`    *)
(* says which one a behaviour is about, the others stay as they start.  Each *)
(* takes its constants and its variables from here, by name.                 *)
EXTENDS Integers, Sequences

CONSTANTS
  Users, Ops, NReg, MaxPayload,                         \* SpiBus
  Sensors, Readers, Pulses, PinsWork,                   \* Ranging
  Data, MaxSize, GrowPercent, Requests,                 \* Deque
  Seeds, Challenges, Weak, MaxFlips,                    \* Frames
  Percents, MaxEchoes,                                  \* Scaling
  Segments, Macs, MaxSteps,                             \* Addresses
  Pieces, Lengths, ArrayKinds, MaxItems, MaxText,       \* Strings
  MaxCalls

PartNames == {"SpiBus", "Ranging", "Deque", "Frames", "Scaling", "Addresses", "Strings"}

VARIABLES
  part,
  lock, scs, used, reg, obj, pc, op, answer, truth, met,                 \* SpiBus
  object, distance, holder, phase, sensor, behind, reader, dangling,     \* Ranging
  cb, heard, heap,                                                       \* Deque
  frame, sent, flipped, verdict, keyed,                                  \* Frames
  ordered, raw, reported, older, echoes,                                 \* Scaling
  value, meant, wide, steps,                                             \* Addresses
  dynamic, fixed, alike, items, calls                                    \* Strings

Bus == INSTANCE SpiBus
Sonar == INSTANCE Ranging
Ring == INSTANCE Deque
Wire == INSTANCE Frames
Scale == INSTANCE Scaling
Net == INSTANCE Addresses
Str == INSTANCE Strings

ASSUME AccessesFitTheChip == Bus!AccessesFit
ASSUME DequeSizesFit == Ring!SizesFit
ASSUME FramesAreBytes ==
  /\ Weak \subseteq (0..39) \X (0..7) /\ MaxFlips \in Nat
  /\ Seeds \subseteq Int /\ Challenges \subseteq [1..8 -> 0..255]
ASSUME PulsesAreDurations == Pulses \subseteq Nat
ASSUME PercentsAreNumbers == Percents \subseteq Int
ASSUME AddressesAreBytes == Segments \subseteq Int /\ Macs \subseteq [1..6 -> 0..255]
ASSUME PiecesAreTexts ==
  /\ Pieces \subseteq Seq(Int) /\ Lengths \subseteq Nat
  /\ ArrayKinds \subseteq DOMAIN Str!Kinds /\ MaxItems \in Nat

Init ==
  /\ part \in PartNames
  /\ Bus!Init /\ Sonar!Init /\ Ring!Init /\ Wire!Init /\ Scale!Init /\ Net!Init /\ Str!Init
  /\ part # "Addresses" => value.form = "bytes"

spiVars == <<lock, scs, used, reg, obj, pc, op, answer, truth, met>>
rangingVars == <<object, distance, holder, phase, sensor, behind, reader, dangling>>
dequeVars == <<cb, heard, heap>>
frameVars == <<frame, sent, flipped, verdict, keyed>>
scalingVars == <<ordered, raw, reported, older, echoes>>
addressVars == <<value, meant, wide, steps>>
stringVars == <<dynamic, fixed, alike, items, calls>>

Next ==
  \/ /\ part = "SpiBus" /\ Bus!Next
     /\ UNCHANGED <<part, rangingVars, dequeVars, frameVars, scalingVars, addressVars, stringVars>>
  \/ /\ part = "Ranging" /\ Sonar!Next
     /\ UNCHANGED <<part, spiVars, dequeVars, frameVars, scalingVars, addressVars, stringVars>>
  \/ /\ part = "Deque" /\ Ring!Next
     /\ UNCHANGED <<part, spiVars, rangingVars, frameVars, scalingVars, addressVars, stringVars>>
  \/ /\ part = "Frames" /\ Wire!Next
     /\ UNCHANGED <<part, spiVars, rangingVars, dequeVars, scalingVars, addressVars, stringVars>>
  \/ /\ part = "Scaling" /\ Scale!Next
     /\ UNCHANGED <<part, spiVars, rangingVars, dequeVars, frameVars, addressVars, stringVars>>
  \/ /\ part = "Addresses" /\ Net!Next
     /\ UNCHANGED <<part, spiVars, rangingVars, dequeVars, frameVars, scalingVars, stringVars>>
  \/ /\ part = "Strings" /\ Str!Next
     /\ UNCHANGED <<part, spiVars, rangingVars, dequeVars, frameVars, scalingVars, addressVars>>

vars == <<part, spiVars, rangingVars, dequeVars, frameVars, scalingVars, addressVars, stringVars>>
Spec == Init /\ [][Next]_vars

-----------------------------------------------------------------------------
(* A call reads the registers it asked for, or leaves its bytes there,       *)
(* unless a version read without the lock (EthernetW5500.c:405) or a late    *)
(* copy (EthernetW5500/Module.c:266) met it.                                 *)
AccessesAreWhole == Bus!AccessesAreWhole

(* A distance is the filter of samples of the sensor that was asked about    *)
(* (UltraSonic/Module.c:7).                                                  *)
AnswersAreMeasured == Sonar!AnswersAreMeasured

(* The circular buffer keeps the promises of Deque.h, through growing and    *)
(* failing mallocs, and its callbacks tell its size (Deque.c:10, 107).       *)
DequeImplements == Ring!DequeImplements

(* A frame is accepted by the reader for its type when no bit of it changed, *)
(* and only then (AppFrame.c:134).                                           *)
AcceptedIsWritten == Wire!AcceptedIsWritten

(* A speed drifts by at most one percent for each time that it is reported   *)
(* and commanded back, and never turns round (AppUtils.c:76).                *)
SpeedsAreKept == Scale!SpeedsAreKept

(* Whatever conversions are chained, the octets keep their order             *)
(* (Network.c:48-301).                                                       *)
AddressIsKept == Net!AddressIsKept

(* Both string libraries give the same text up to 63 characters, and arrays  *)
(* read back as written (CString64.c:126, CString.c:323).                    *)
StringsAgree == Str!StringsAgree
=============================================================================
