------------------------------- MODULE SpiBus -------------------------------
(* The registers of the W5500 behind SPI (EthernetW5500.c).  Every access    *)
(* builds its frame in the one object that all tasks share, under            *)
(* W5500_Lock, and drives the chip-select line SCS by hand.  Two things are  *)
(* done without the lock: W5500_GetModuleVersion, which Eth_Runtime calls    *)
(* whenever it wakes up, and the communication task's copy of a received     *)
(* payload out of the shared frame (Module.c:228, 266).                      *)
(*                                                                           *)
(* External: a transmission is carried out whole (the driver serialises      *)
(* them).  The chip takes the first one after SCS fell as a header with its  *)
(* data, and what follows before SCS rises as more data of that.             *)
EXTENDS Integers, Sequences

CONSTANTS
  Users,       \* tasks that call the register functions
  Ops,         \* the accesses they make: [nRW, mode, addr, data, copy]
  NReg,        \* registers of the chip
  MaxPayload   \* 1500, the longest payload

Version == "version"      \* the call of W5500_GetModuleVersion
Noise == 256              \* what is read while the chip does not answer
Tasks == Users \cup {Version}
FixedLength == [FDM1 |-> 1, FDM2 |-> 2, FDM4 |-> 4]

(* An access is one that the register functions make: it stays within the    *)
(* registers, its data has the length of its mode, and only a read leaves    *)
(* its answer in the shared frame for later.                                 *)
Fits(o) ==
  /\ o.nRW \in {"read", "write"}
  /\ o.mode \in {"VDM", "FDM1", "FDM2", "FDM4"}
  /\ o.addr \in Nat
  /\ Len(o.data) \in Nat /\ o.data \in [1..Len(o.data) -> Int]
  /\ o.addr + Len(o.data) <= NReg
  /\ o.mode = "VDM" => Len(o.data) \in 1..MaxPayload
  /\ o.mode # "VDM" => Len(o.data) = FixedLength[o.mode]
  /\ o.copy \in BOOLEAN
  /\ o.copy => o.nRW = "read"

AccessesFit ==
  /\ Ops # {} /\ \A o \in Ops : Fits(o)
  /\ NReg \in Nat \ {0} /\ MaxPayload \in Nat
  /\ Version \notin Users /\ "free" \notin Users

VARIABLES
  lock,    \* W5500_Lock: its holder, or "free"
  scs,     \* the chip-select line
  used,    \* a frame was transmitted since SCS fell: none, or its access
  reg,     \* the chip's registers
  obj,     \* Ptr->TxFrame and RxFrame
  pc, op,  \* what each task does next, and in which access
  answer,  \* what the call gives its caller
  truth,   \* the registers accessed, as the chip has them then
  met      \* a version read shared a selection with the call, or another
           \* call used the shared frame before this one's copy was made

vars == <<lock, scs, used, reg, obj, pc, op, answer, truth, met>>
bus == <<lock, scs, used, reg>>

Buffer == 1..NReg         \* as much of a frame's payload as an access can fill
Cells(a, n) == [i \in 1..n |-> reg[a + i - 1]]
NoOp == CHOOSE o \in Ops : TRUE

Init ==
  /\ lock = "free" /\ scs = 1 /\ used = <<>>
  /\ reg = [a \in 0..NReg - 1 |-> 0]
  /\ obj = [addr |-> 0, mode |-> "VDM", nRW |-> "read",
            tx |-> [i \in Buffer |-> 0], rx |-> [i \in Buffer |-> 0], length |-> 0]
  /\ pc = [t \in Tasks |-> "idle"]
  /\ op = [t \in Users |-> NoOp]
  /\ answer = [t \in Users |-> <<>>] /\ truth = [t \in Users |-> <<>>]
  /\ met = [t \in Users |-> FALSE]

Goto(t, step) == pc' = [pc EXCEPT ![t] = step]

TakeLock_forgotten(t, o) ==
  /\ pc[t] = "idle"
  /\ op' = [op EXCEPT ![t] = o]
  /\ Goto(t, "header")
  /\ UNCHANGED <<lock, scs, used, reg, obj, answer, truth, met>>

(* W5500_ReadByteReg .. W5500_WriteNByteReg: the lock, then the header.      *)
TakeLock(t, o) ==
  /\ pc[t] = "idle" /\ lock = "free"
  /\ lock' = t
  /\ op' = [op EXCEPT ![t] = o]
  /\ Goto(t, "header")
  /\ UNCHANGED <<scs, used, reg, obj, answer, truth, met>>

SetHeader(t) ==
  /\ pc[t] = "header"
  /\ obj' = [obj EXCEPT !.addr = op[t].addr, !.mode = "VDM", !.nRW = "read"]
  /\ Goto(t, "payload")
  /\ UNCHANGED <<bus, op, answer, truth, met>>

(* W5500_ReadByte .. W5500_WriteQuartByte: the mode, the length and, for a   *)
(* write, the bytes; longer payloads are cut at MaxPayload.                  *)
Cut(n) == IF n > MaxPayload THEN MaxPayload ELSE n

SetPayload(t) ==
  LET data == op[t].data
      n == IF op[t].mode = "VDM" THEN Cut(Len(data)) ELSE Len(data)
  IN  /\ pc[t] = "payload"
      /\ obj' = [obj EXCEPT !.mode = op[t].mode, !.length = n,
                            !.tx = [i \in Buffer |-> IF op[t].nRW = "write" /\ i <= n
                                                   THEN data[i] ELSE obj.tx[i]]]
      /\ Goto(t, "access")
      /\ UNCHANGED <<bus, op, answer, truth, met>>

(* W5500_AccessNByte: the length of the mode, both buffers prepared.         *)
FrameLength(o) ==
  IF o.mode = "VDM" THEN (IF o.length < 1 THEN 1 ELSE Cut(o.length)) ELSE FixedLength[o.mode]

PrepareFrame(t) ==
  LET n == FrameLength(obj) IN
  /\ pc[t] = "access"
  /\ obj' = [obj EXCEPT !.nRW = op[t].nRW, !.length = n,
                        !.rx = [i \in Buffer |-> IF i <= n THEN 0 ELSE @[i]],
                        !.tx = [i \in Buffer |-> IF op[t].nRW = "read" /\ i <= n THEN 0 ELSE @[i]]]
  /\ met' = [u \in Users |-> met[u] \/ (u # t /\ pc[u] = "copy")]
  /\ Goto(t, "select")
  /\ UNCHANGED <<bus, op, answer, truth>>

(* A version read shares a selection of the chip with other frames.          *)
Selecting == {t \in Tasks : pc[t] \in {"transmit", "deselect"}}
Meet(t) == IF t = Version THEN {u \in Users : u \in Selecting}
           ELSE IF Version \in Selecting THEN {t} ELSE {}

Select(t) ==
  /\ pc[t] = "select"
  /\ scs' = 0
  /\ used' = IF scs = 1 THEN <<>> ELSE used
  /\ met' = [u \in Users |-> met[u] \/ u \in Meet(t)]
  /\ Goto(t, "transmit")
  /\ UNCHANGED <<lock, reg, obj, op, answer, truth>>

(* What the chip does with a write: Put(f) of the frame at the start of a    *)
(* selection; a later frame of the same selection overwrites what follows    *)
(* the data of a variable-length write.                                      *)
Put(o) == [a \in DOMAIN reg |->
  IF o.nRW = "write" /\ a - o.addr \in 0..o.length - 1 THEN o.tx[a - o.addr + 1] ELSE reg[a]]
Spill(o) == [a \in DOMAIN reg |->
  IF o.nRW = "write" /\ o.mode = "VDM" /\ a = o.addr + o.length THEN Noise ELSE reg[a]]

Answers(o) == [i \in Buffer |-> IF i > o.length THEN o.rx[i]
                              ELSE IF scs = 0 /\ used = <<>> THEN reg[o.addr + i - 1] ELSE Noise]

Header(o) == [addr |-> o.addr, mode |-> o.mode, nRW |-> o.nRW, length |-> o.length]
VersionHeader == [addr |-> 0, mode |-> "FDM1", nRW |-> "read", length |-> 1]

Transmit(t) ==
  /\ pc[t] = "transmit" /\ t \in Users
  /\ reg' = IF scs = 1 THEN reg ELSE IF used = <<>> THEN Put(obj) ELSE Spill(used[1])
  /\ used' = IF scs = 0 /\ used = <<>> THEN <<Header(obj)>> ELSE used
  /\ obj' = [obj EXCEPT !.rx = IF obj.nRW = "read" THEN Answers(obj) ELSE @]
  /\ truth' = [truth EXCEPT ![t] = IF op[t].nRW = "read" THEN Cells(op[t].addr, Len(op[t].data))
                                   ELSE op[t].data]
  /\ answer' = [answer EXCEPT ![t] = IF op[t].nRW = "read" THEN <<>>
                 ELSE [i \in 1..Len(op[t].data) |-> reg'[op[t].addr + i - 1]]]
  /\ Goto(t, "deselect")
  /\ UNCHANGED <<lock, scs, op, met>>

Deselect(t) ==
  /\ pc[t] = "deselect"
  /\ scs' = 1
  /\ Goto(t, IF t = Version THEN "idle" ELSE "give")
  /\ UNCHANGED <<lock, used, reg, obj, op, answer, truth, met>>

(* The answer of a read is taken from the shared frame and the lock is       *)
(* given back; a payload read in place is copied out only later.             *)
Received(t) == [i \in 1..Len(op[t].data) |-> obj.rx[i]]

GiveLock(t) ==
  /\ pc[t] = "give"
  /\ lock' = "free"
  /\ answer' = IF op[t].nRW = "write" \/ op[t].copy THEN answer
               ELSE [answer EXCEPT ![t] = Received(t)]
  /\ Goto(t, IF op[t].copy THEN "copy" ELSE "done")
  /\ UNCHANGED <<scs, used, reg, obj, op, truth, met>>

RxedPacket_Push(t) ==
  /\ pc[t] = "copy"
  /\ answer' = [answer EXCEPT ![t] = Received(t)]
  /\ Goto(t, "done")
  /\ UNCHANGED <<bus, obj, op, truth, met>>

Return(t) ==
  /\ pc[t] = "done"
  /\ Goto(t, "idle")
  /\ answer' = [answer EXCEPT ![t] = <<>>] /\ truth' = [truth EXCEPT ![t] = <<>>]
  /\ op' = [op EXCEPT ![t] = NoOp] /\ met' = [met EXCEPT ![t] = FALSE]
  /\ UNCHANGED <<bus, obj>>

(* W5500_GetModuleVersion: a frame of its own, no lock.                      *)
GetModuleVersion ==
  /\ pc[Version] = "idle"
  /\ Goto(Version, "select")
  /\ UNCHANGED <<bus, obj, op, answer, truth, met>>

TransmitVersion ==
  /\ pc[Version] = "transmit"
  /\ reg' = IF scs = 0 /\ used # <<>> THEN Spill(used[1]) ELSE reg
  /\ used' = IF scs = 0 /\ used = <<>> THEN <<VersionHeader>> ELSE used
  /\ Goto(Version, "deselect")
  /\ UNCHANGED <<lock, scs, obj, op, answer, truth, met>>

Access(t) ==
  \/ SetHeader(t) \/ SetPayload(t) \/ PrepareFrame(t)
  \/ Transmit(t) \/ GiveLock(t) \/ RxedPacket_Push(t) \/ Return(t)

Next ==
  \/ \E t \in Users, o \in Ops : TakeLock(t, o)
  \/ \E t \in Users : Access(t)
  \/ \E t \in Tasks : Select(t) \/ Deselect(t)
  \/ GetModuleVersion \/ TransmitVersion

Spec == Init /\ [][Next]_vars

-----------------------------------------------------------------------------
(* Whatever the tasks' accesses interleave with (EthernetW5500.c:417-638), a *)
(* call reads the registers it asked for as they are in the chip, or leaves  *)
(* its bytes there, unless a version read selected the chip at the same time *)
(* (EthernetW5500.c:405) or the payload was still in the shared frame when   *)
(* another call reused it (Module.c:266).  Nothing else can spoil one.       *)
AccessesAreWhole == \A t \in Users : pc[t] = "done" /\ ~met[t] => answer[t] = truth[t]
=============================================================================
