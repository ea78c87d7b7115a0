---------------------------- MODULE PartsProofs ----------------------------
(* Proofs about the parts that need no more than the facts below: register   *)
(* accesses for any tasks, registers and payloads, ranging for any sensors,  *)
(* readers and echoes, speeds for any percentages and any number of echoes,  *)
(* addresses for any octets and any number of conversions.  BufferProofs has *)
(* those about the circular buffer, the strings and the frames.              *)
EXTENDS Parts, TLAPS, FiniteSetTheorems, SequenceTheorems

-----------------------------------------------------------------------------
(* SpiBus: the tasks between the lock and its release.                       *)
Holding == {"header", "payload", "access", "select", "transmit", "deselect", "give"}

SpiTyped ==
  /\ pc \in [Bus!Tasks -> Holding \cup {"idle", "copy", "done"}]
  /\ pc[Bus!Version] \in {"idle", "select", "transmit", "deselect"}
  /\ op \in [Users -> Ops]
  /\ met \in [Users -> BOOLEAN]
  /\ scs \in {0, 1}
  /\ reg \in [0..NReg - 1 -> Int]
  /\ obj.addr \in Nat /\ obj.length \in Nat
  /\ obj.tx \in [Bus!Buffer -> Int] /\ obj.rx \in [Bus!Buffer -> Int]
  /\ DOMAIN obj = {"addr", "mode", "nRW", "tx", "rx", "length"}
  /\ DOMAIN answer = Users /\ DOMAIN truth = Users

(* One task at a time uses the shared frame, but for late copies.            *)
Locked == \A t \in Users : pc[t] \in Holding <=> lock = t

(* While the chip is selected somebody is using it.                          *)
Selected == scs = 0 => Bus!Selecting # {}

(* The frame is the one that the holder of the lock builds, whoever else     *)
(* drives the chip-select line.                                              *)
Filled(t) ==
  LET o == op[t] IN
  /\ obj.addr = o.addr /\ obj.mode = o.mode /\ obj.length = Len(o.data)
  /\ o.nRW = "write" => \A i \in 1..Len(o.data) : obj.tx[i] = o.data[i]

Built ==
  \A t \in Users :
    /\ pc[t] = "payload" => obj.addr = op[t].addr
    /\ pc[t] \in {"access", "select", "transmit"} => Filled(t)
    /\ pc[t] \in {"select", "transmit"} => obj.nRW = op[t].nRW

(* A task that no version read has met has the chip to itself.               *)
Alone ==
  \A t \in Users :
    pc[t] = "transmit" /\ ~met[t] => scs = 0 /\ used = <<>> /\ Bus!Version \notin Bus!Selecting

(* From the transmission on, the frame holds what was read; from then, or    *)
(* from the copy on, the caller does.                                        *)
InFrame(t) == truth[t] = Bus!Received(t)

Answered ==
  \A t \in Users :
    /\ pc[t] \in {"deselect", "give", "copy"} /\ ~met[t] /\ op[t].nRW = "read" => InFrame(t)
    /\ pc[t] \in {"deselect", "give"} /\ ~met[t] /\ op[t].nRW = "write" => answer[t] = truth[t]
    /\ pc[t] = "copy" => op[t].nRW = "read"

(* The frame of a payload not copied yet is overwritten only by a call that  *)
(* has passed PrepareFrame, which notes it.                                  *)
NotReused ==
  \A t \in Users :
    pc[t] = "copy" /\ ~met[t] =>
      \A u \in Users : pc[u] \notin {"select", "transmit", "deselect", "give"}

SpiInv ==
  /\ SpiTyped /\ Locked /\ Selected /\ Built /\ Alone /\ Answered /\ NotReused
  /\ Bus!AccessesAreWhole

-----------------------------------------------------------------------------
USE DEF Bus!Tasks, Holding, Bus!Goto, Bus!bus, Bus!Buffer

LEMMA NoOpType == Bus!AccessesFit => Bus!NoOp \in Ops
  BY DEF Bus!AccessesFit, Bus!NoOp

LEMMA OpFits ==
  ASSUME Bus!AccessesFit, SpiTyped, NEW t \in Users
  PROVE  /\ op[t].nRW \in {"read", "write"} /\ op[t].addr \in Nat
         /\ Len(op[t].data) \in 0..NReg /\ op[t].data \in [1..Len(op[t].data) -> Int]
         /\ op[t].addr + Len(op[t].data) <= NReg
         /\ op[t].copy \in BOOLEAN /\ (op[t].copy => op[t].nRW = "read")
         /\ NReg \in Nat /\ t # Bus!Version /\ t # "free"
<1>1. Bus!Fits(op[t]) /\ NReg \in Nat \ {0} /\ Bus!Version \notin Users /\ "free" \notin Users
  BY DEF Bus!AccessesFit, SpiTyped
<1> QED BY <1>1 DEF Bus!Fits

(* W5500_SetTxPayload and W5500_AccessNByte leave the length as it is.       *)
LEMMA LengthKept ==
  ASSUME Bus!AccessesFit, SpiTyped, NEW t \in Users
  PROVE  /\ Len(op[t].data) = IF op[t].mode = "VDM" THEN Bus!Cut(Len(op[t].data)) ELSE Len(op[t].data)
         /\ obj.mode = op[t].mode /\ obj.length = Len(op[t].data) =>
              Bus!FrameLength(obj) = Len(op[t].data)
<1>1. Bus!Fits(op[t]) /\ MaxPayload \in Nat
  BY DEF Bus!AccessesFit, SpiTyped
<1>2. op[t].mode = "VDM" => Bus!Cut(Len(op[t].data)) = Len(op[t].data)
  BY <1>1 DEF Bus!Fits, Bus!Cut
<1> QED BY <1>1, <1>2 DEF Bus!Fits, Bus!FrameLength

LEMMA InitSpiInv == Bus!AccessesFit /\ Bus!Init => SpiInv
<1> SUFFICES ASSUME Bus!AccessesFit, Bus!Init PROVE SpiInv
  OBVIOUS
<1>1. NReg \in Nat /\ Bus!Version \notin Users /\ "free" \notin Users
  BY DEF Bus!AccessesFit
<1>2. SpiTyped
  BY <1>1, NoOpType DEF Bus!Init, SpiTyped
<1>3. Locked /\ Selected /\ Built /\ Alone /\ Answered /\ NotReused /\ Bus!AccessesAreWhole
  BY <1>1 DEF Bus!Init, Locked, Selected, Built, Alone, Answered, NotReused, Bus!AccessesAreWhole
<1> QED BY <1>2, <1>3 DEF SpiInv

LEMMA TakeLockKeeps ==
  ASSUME Bus!AccessesFit, SpiInv, NEW t \in Users, NEW o \in Ops, Bus!TakeLock(t, o) PROVE SpiInv'
<1>0. Bus!Version \notin Users /\ "free" \notin Users
  BY DEF Bus!AccessesFit
<1> USE <1>0 DEF SpiInv, Bus!TakeLock
<1>1. SpiTyped'
  BY DEF SpiTyped
<1>2. Locked' /\ Selected'
  BY DEF SpiTyped, Locked, Selected, Bus!Selecting
<1>3. Built' /\ Alone'
  BY DEF SpiTyped, Built, Alone, Filled, Bus!Selecting
<1>4. Answered' /\ NotReused' /\ Bus!AccessesAreWhole'
  BY DEF SpiTyped, Answered, NotReused, InFrame, Bus!Received, Bus!AccessesAreWhole
<1> QED BY <1>1, <1>2, <1>3, <1>4

LEMMA SetHeaderKeeps ==
  ASSUME Bus!AccessesFit, SpiInv, NEW t \in Users, Bus!SetHeader(t) PROVE SpiInv'
<1>0. Bus!Version \notin Users /\ "free" \notin Users
  BY DEF Bus!AccessesFit
<1> USE <1>0 DEF SpiInv, Bus!SetHeader
<1>a. /\ obj'.addr = op[t].addr /\ obj'.length = obj.length
      /\ obj'.tx = obj.tx /\ obj'.rx = obj.rx
      /\ DOMAIN obj' = DOMAIN obj
  BY DEF SpiTyped
<1>1. SpiTyped'
  BY <1>a, OpFits DEF SpiTyped
<1>2. Locked' /\ Selected'
  BY DEF SpiTyped, Locked, Selected, Bus!Selecting
<1>3. Built' /\ Alone'
  BY <1>a DEF SpiTyped, Built, Alone, Filled, Bus!Selecting, Locked
<1>4. Answered' /\ NotReused' /\ Bus!AccessesAreWhole'
  BY <1>a DEF SpiTyped, Answered, NotReused, InFrame, Bus!Received, Bus!AccessesAreWhole
<1> QED BY <1>1, <1>2, <1>3, <1>4

LEMMA SetPayloadKeeps ==
  ASSUME Bus!AccessesFit, SpiInv, NEW t \in Users, Bus!SetPayload(t) PROVE SpiInv'
<1>0. Bus!Version \notin Users /\ "free" \notin Users
  BY DEF Bus!AccessesFit
<1> USE <1>0 DEF SpiInv
<1> DEFINE n == Len(op[t].data)
           tx == [i \in Bus!Buffer |->
                    IF op[t].nRW = "write" /\ i <= n THEN op[t].data[i] ELSE obj.tx[i]]
<1>a. /\ pc[t] = "payload" /\ pc' = [pc EXCEPT ![t] = "access"]
      /\ obj' = [obj EXCEPT !.mode = op[t].mode, !.length = n, !.tx = tx]
      /\ UNCHANGED <<Bus!bus, op, answer, truth, met>>
  BY LengthKept DEF Bus!SetPayload
<1>b. /\ obj'.addr = obj.addr /\ obj'.length = n /\ obj'.mode = op[t].mode
      /\ obj'.tx = tx /\ obj'.rx = obj.rx
      /\ DOMAIN obj' = DOMAIN obj
  BY <1>a DEF SpiTyped
<1>c. tx \in [Bus!Buffer -> Int]
  BY OpFits DEF SpiTyped
<1>d. op[t].nRW = "write" => \A i \in 1..n : tx[i] = op[t].data[i]
  BY OpFits
<1> HIDE DEF n, tx
<1>1. SpiTyped'
  BY <1>a, <1>b, <1>c, OpFits DEF SpiTyped, n
<1>2. Locked' /\ Selected'
  BY <1>a DEF SpiTyped, Locked, Selected, Bus!Selecting
<1>3. Built' /\ Alone'
  BY <1>a, <1>b, <1>d DEF SpiTyped, Built, Alone, Filled, Bus!Selecting, Locked, n
<1>4. Answered' /\ NotReused' /\ Bus!AccessesAreWhole'
  BY <1>a, <1>b DEF SpiTyped, Answered, NotReused, InFrame, Bus!Received, Bus!AccessesAreWhole
<1> QED BY <1>1, <1>2, <1>3, <1>4

LEMMA PrepareFrameKeeps ==
  ASSUME Bus!AccessesFit, SpiInv, NEW t \in Users, Bus!PrepareFrame(t) PROVE SpiInv'
<1>0. Bus!Version \notin Users /\ "free" \notin Users
  BY DEF Bus!AccessesFit
<1> USE <1>0 DEF SpiInv
<1> DEFINE n == Len(op[t].data)
           rx == [i \in Bus!Buffer |-> IF i <= n THEN 0 ELSE obj.rx[i]]
           tx == [i \in Bus!Buffer |-> IF op[t].nRW = "read" /\ i <= n THEN 0 ELSE obj.tx[i]]
           meets == [u \in Users |-> met[u] \/ (u # t /\ pc[u] = "copy")]
<1>f. Filled(t) /\ pc[t] = "access"
  BY DEF Bus!PrepareFrame, Built
<1>a. /\ pc' = [pc EXCEPT ![t] = "select"]
      /\ obj' = [obj EXCEPT !.nRW = op[t].nRW, !.length = n, !.rx = rx, !.tx = tx]
      /\ met' = meets
      /\ UNCHANGED <<Bus!bus, op, answer, truth>>
  BY <1>f, LengthKept DEF Bus!PrepareFrame, Filled
<1>b. /\ obj'.addr = obj.addr /\ obj'.length = n /\ obj'.mode = obj.mode
      /\ obj'.nRW = op[t].nRW /\ obj'.tx = tx /\ obj'.rx = rx
      /\ DOMAIN obj' = DOMAIN obj
  BY <1>a DEF SpiTyped
<1>c. tx \in [Bus!Buffer -> Int] /\ rx \in [Bus!Buffer -> Int] /\ meets \in [Users -> BOOLEAN]
  BY OpFits DEF SpiTyped
<1>d. op[t].nRW = "write" => \A i \in 1..n : tx[i] = op[t].data[i]
  BY <1>f, OpFits DEF Filled
<1>e. \A u \in Users : (met[u] => meets[u]) /\ (u # t /\ pc[u] = "copy" => meets[u])
  OBVIOUS
<1> HIDE DEF n, tx, rx, meets
<1>1. SpiTyped'
  BY <1>a, <1>b, <1>c, OpFits DEF SpiTyped, n
<1>2. Locked' /\ Selected'
  BY <1>a, <1>f DEF SpiTyped, Locked, Selected, Bus!Selecting
<1>3. Built'
  BY <1>a, <1>b, <1>d, <1>f DEF SpiTyped, Built, Filled, Locked, n
<1>4. Alone'
  BY <1>a, <1>f DEF SpiTyped, Alone, Bus!Selecting, Locked
<1>5. \A u \in Users : pc[u] \in {"deselect", "give"} => u = t
  BY <1>f DEF Locked
<1>6. Answered'
  <2> SUFFICES ASSUME NEW u \in Users
               PROVE  /\ pc'[u] \in {"deselect", "give", "copy"} /\ ~met'[u] /\ op'[u].nRW = "read"
                           => InFrame(u)'
                      /\ pc'[u] \in {"deselect", "give"} /\ ~met'[u] /\ op'[u].nRW = "write"
                           => answer'[u] = truth'[u]
                      /\ pc'[u] = "copy" => op'[u].nRW = "read"
    BY DEF Answered
  <2>1. pc'[u] \notin {"deselect", "give"}
    BY <1>a, <1>5, <1>f DEF SpiTyped
  <2>2. pc'[u] = "copy" => met'[u] /\ op'[u].nRW = "read"
    BY <1>a, <1>e DEF SpiTyped, Answered
  <2> QED BY <2>1, <2>2
<1>7. NotReused' /\ Bus!AccessesAreWhole'
  BY <1>a, <1>e, <1>c DEF SpiTyped, NotReused, Bus!AccessesAreWhole
<1> QED BY <1>1, <1>2, <1>3, <1>4, <1>6, <1>7

(* A task selects the chip under the lock.  Either a version read has it     *)
(* selected, and has met this call, or the selection is a new one.           *)
LEMMA SelectKeeps ==
  ASSUME Bus!AccessesFit, SpiInv, NEW t \in Users, Bus!Select(t) PROVE SpiInv'
<1>0. Bus!Version \notin Users /\ "free" \notin Users /\ t # Bus!Version
  BY DEF Bus!AccessesFit
<1> USE <1>0 DEF SpiInv
<1> DEFINE meets == [u \in Users |-> met[u] \/ u \in Bus!Meet(t)]
<1>a. /\ pc[t] = "select" /\ pc' = [pc EXCEPT ![t] = "transmit"]
      /\ scs' = 0 /\ used' = (IF scs = 1 THEN <<>> ELSE used)
      /\ met' = meets
      /\ UNCHANGED <<lock, reg, obj, op, answer, truth>>
  BY DEF Bus!Select
<1>b. /\ meets \in [Users -> BOOLEAN]
      /\ \A u \in Users : met[u] => meets[u]
      /\ Bus!Version \in Bus!Selecting => meets[t]
      /\ \A u \in Users \ {t} : meets[u] = met[u]
  BY DEF Bus!Meet, SpiTyped
<1> HIDE DEF meets
<1>c. \A u \in Users \ {t} : pc[u] \notin Holding
  BY <1>a DEF Locked
<1>1. SpiTyped'
  BY <1>a, <1>b DEF SpiTyped
<1>2. Locked' /\ Selected'
  BY <1>a DEF SpiTyped, Locked, Selected, Bus!Selecting
<1>3. Built'
  BY <1>a, <1>c DEF SpiTyped, Built, Filled
<1>4. Alone'
  <2>1. ASSUME ~met'[t] PROVE scs' = 0 /\ used' = <<>> /\ Bus!Version \notin Bus!Selecting'
    <3>1. Bus!Version \notin Bus!Selecting
      BY <1>a, <1>b, <2>1
    <3>2. scs # 0
      BY <1>a, <1>c, <3>1 DEF Selected, Bus!Selecting
    <3> QED BY <1>a, <3>1, <3>2 DEF SpiTyped, Bus!Selecting
  <2>2. \A u \in Users \ {t} : pc'[u] # "transmit"
    BY <1>a, <1>c DEF SpiTyped
  <2> QED BY <2>1, <2>2 DEF Alone
<1>5. Answered' /\ NotReused' /\ Bus!AccessesAreWhole'
  BY <1>a, <1>b, <1>c DEF SpiTyped, Answered, NotReused, InFrame, Bus!Received, Bus!AccessesAreWhole
<1> QED BY <1>1, <1>2, <1>3, <1>4, <1>5

LEMMA PutType ==
  ASSUME Bus!AccessesFit, SpiInv, NEW t \in Users, pc[t] = "transmit"
  PROVE  /\ Bus!Put(obj) \in [0..NReg - 1 -> Int]
         /\ op[t].nRW = "write" => \A i \in 1..Len(op[t].data) :
              Bus!Put(obj)[op[t].addr + i - 1] = op[t].data[i]
         /\ op[t].nRW = "read" => Bus!Put(obj) = reg
<1>0. Filled(t) /\ obj.nRW = op[t].nRW
  BY DEF SpiInv, Built
<1>1. reg \in [0..NReg - 1 -> Int] /\ obj.tx \in [Bus!Buffer -> Int]
  BY DEF SpiInv, SpiTyped
<1> DEFINE n == Len(op[t].data)
           a == op[t].addr
<1>2. /\ n \in 0..NReg /\ a \in Nat /\ a + n <= NReg /\ NReg \in Nat
      /\ obj.addr = a /\ obj.length = n
      /\ op[t].nRW = "write" => \A i \in 1..n : obj.tx[i] = op[t].data[i]
  BY <1>0, OpFits DEF SpiInv, Filled
<1>3. Bus!Put(obj) = [r \in 0..NReg - 1 |->
        IF obj.nRW = "write" /\ r - a \in 0..n - 1 THEN obj.tx[r - a + 1] ELSE reg[r]]
  BY <1>1, <1>2 DEF Bus!Put
<1> HIDE DEF n, a
<1>4. ASSUME NEW r \in 0..NReg - 1, r - a \in 0..n - 1 PROVE r - a + 1 \in Bus!Buffer
  BY <1>2, <1>4
<1>5. Bus!Put(obj) \in [0..NReg - 1 -> Int]
  BY <1>1, <1>3, <1>4
<1>6. ASSUME op[t].nRW = "write", NEW i \in 1..n PROVE Bus!Put(obj)[a + i - 1] = op[t].data[i]
  <2>1. a + i - 1 \in 0..NReg - 1 /\ (a + i - 1) - a \in 0..n - 1 /\ (a + i - 1) - a + 1 = i
    BY <1>2
  <2> QED BY <1>0, <1>2, <1>3, <1>6, <2>1
<1>7. op[t].nRW = "read" => Bus!Put(obj) = reg
  BY <1>0, <1>1, <1>3
<1> QED BY <1>5, <1>6, <1>7 DEF n, a

LEMMA SpillType ==
  ASSUME Bus!AccessesFit, SpiTyped, NEW o PROVE Bus!Spill(o) \in [0..NReg - 1 -> Int]
  BY DEF SpiTyped, Bus!Spill, Bus!Noise

LEMMA AnswersType ==
  ASSUME Bus!AccessesFit, SpiInv, NEW t \in Users, pc[t] = "transmit"
  PROVE  /\ Bus!Answers(obj) \in [Bus!Buffer -> Int]
         /\ scs = 0 /\ used = <<>> => \A i \in 1..Len(op[t].data) :
              Bus!Answers(obj)[i] = reg[op[t].addr + i - 1]
<1>0. Filled(t)
  BY DEF SpiInv, Built
<1>1. reg \in [0..NReg - 1 -> Int] /\ obj.rx \in [Bus!Buffer -> Int]
  BY DEF SpiInv, SpiTyped
<1> DEFINE n == Len(op[t].data)
           a == op[t].addr
<1>2. n \in 0..NReg /\ a \in Nat /\ a + n <= NReg /\ NReg \in Nat /\ obj.addr = a /\ obj.length = n
  BY <1>0, OpFits DEF SpiInv, Filled
<1>3. Bus!Answers(obj) = [i \in Bus!Buffer |-> IF i > n THEN obj.rx[i]
                        ELSE IF scs = 0 /\ used = <<>> THEN reg[a + i - 1] ELSE Bus!Noise]
  BY <1>2 DEF Bus!Answers
<1> HIDE DEF n, a
<1>4. ASSUME NEW i \in Bus!Buffer, ~(i > n) PROVE a + i - 1 \in 0..NReg - 1
  BY <1>2, <1>4
<1>5. Bus!Answers(obj) \in [Bus!Buffer -> Int]
  <2>1. ASSUME NEW i \in Bus!Buffer, ~(i > n) PROVE reg[a + i - 1] \in Int
    BY <1>1, <1>4, <2>1
  <2>2. Bus!Noise \in Int
    BY DEF Bus!Noise
  <2> QED BY <1>1, <1>3, <2>1, <2>2
<1>6. ASSUME scs = 0, used = <<>>, NEW i \in 1..n PROVE Bus!Answers(obj)[i] = reg[a + i - 1]
  BY <1>2, <1>3, <1>6
<1> QED BY <1>5, <1>6 DEF n, a

LEMMA TransmitKeeps ==
  ASSUME Bus!AccessesFit, SpiInv, NEW t \in Users, Bus!Transmit(t) PROVE SpiInv'
<1>0. Bus!Version \notin Users /\ "free" \notin Users /\ t # Bus!Version /\ pc[t] = "transmit"
  BY DEF Bus!AccessesFit, Bus!Transmit
<1> USE <1>0 DEF SpiInv
<1> DEFINE n == Len(op[t].data)
           a == op[t].addr
           rx == IF obj.nRW = "read" THEN Bus!Answers(obj) ELSE obj.rx
           real == IF op[t].nRW = "read" THEN Bus!Cells(a, n) ELSE op[t].data
           got == IF op[t].nRW = "read" THEN <<>> ELSE [i \in 1..n |-> reg'[a + i - 1]]
<1>a. /\ pc' = [pc EXCEPT ![t] = "deselect"]
      /\ obj' = [obj EXCEPT !.rx = rx]
      /\ reg' = IF scs = 1 THEN reg ELSE IF used = <<>> THEN Bus!Put(obj) ELSE Bus!Spill(used[1])
      /\ truth' = [truth EXCEPT ![t] = real] /\ answer' = [answer EXCEPT ![t] = got]
      /\ UNCHANGED <<lock, scs, op, met>>
  BY DEF Bus!Transmit
<1>b. /\ obj'.addr = obj.addr /\ obj'.length = obj.length /\ obj'.mode = obj.mode
      /\ obj'.nRW = obj.nRW /\ obj'.tx = obj.tx /\ obj'.rx = rx
      /\ DOMAIN obj' = DOMAIN obj
  BY <1>a DEF SpiTyped
<1>c. reg' \in [0..NReg - 1 -> Int]
  BY <1>a, PutType, SpillType DEF SpiTyped
<1>d. rx \in [Bus!Buffer -> Int]
  BY AnswersType DEF SpiTyped
<1>e. \A u \in Users \ {t} : pc[u] \notin Holding
  BY DEF Locked
<1>f. obj.nRW = op[t].nRW
  BY DEF Built
<1>g. /\ truth'[t] = real /\ answer'[t] = got
      /\ \A u \in Users \ {t} : truth'[u] = truth[u] /\ answer'[u] = answer[u]
  BY <1>a DEF SpiTyped
<1>h. ASSUME ~met[t], op[t].nRW = "read" PROVE InFrame(t)'
  <2>1. scs = 0 /\ used = <<>>
    BY <1>h DEF Alone
  <2>2. \A i \in 1..n : obj'.rx[i] = reg[a + i - 1]
    BY <1>b, <1>f, <1>h, <2>1, AnswersType
  <2>3. truth'[t] = [i \in 1..n |-> reg[a + i - 1]]
    BY <1>g, <1>h DEF Bus!Cells
  <2> QED BY <1>a, <2>2, <2>3 DEF InFrame, Bus!Received
<1>i. ASSUME ~met[t], op[t].nRW = "write" PROVE answer'[t] = truth'[t]
  <2>1. scs = 0 /\ used = <<>>
    BY <1>i DEF Alone
  <2>2. reg' = Bus!Put(obj)
    BY <1>a, <2>1
  <2>3. \A i \in 1..n : reg'[a + i - 1] = op[t].data[i]
    BY <1>i, <2>2, PutType
  <2>4. answer'[t] = [i \in 1..n |-> op[t].data[i]] /\ truth'[t] = op[t].data
    BY <1>g, <1>i, <2>3
  <2> QED BY <2>4, OpFits
<1> HIDE DEF n, a, rx, real, got
<1>1. SpiTyped'
  BY <1>a, <1>b, <1>c, <1>d DEF SpiTyped
<1>2. Locked' /\ Selected'
  BY <1>a DEF SpiTyped, Locked, Selected, Bus!Selecting
<1>3. Built' /\ Alone'
  BY <1>a, <1>b, <1>e DEF SpiTyped, Built, Filled, Alone
<1>4. \A u \in Users : pc'[u] = "copy" => met'[u]
  BY <1>a, <1>e DEF SpiTyped, NotReused
<1>5. Answered'
  BY <1>a, <1>e, <1>f, <1>h, <1>i, <1>4 DEF SpiTyped, Answered
<1>6. NotReused' /\ Bus!AccessesAreWhole'
  BY <1>a, <1>e, <1>g, <1>4 DEF SpiTyped, NotReused, Bus!AccessesAreWhole
<1> QED BY <1>1, <1>2, <1>3, <1>5, <1>6

LEMMA DeselectKeeps ==
  ASSUME Bus!AccessesFit, SpiInv, NEW t \in Users, Bus!Deselect(t) PROVE SpiInv'
<1>0. Bus!Version \notin Users /\ "free" \notin Users /\ t # Bus!Version /\ pc[t] = "deselect"
  BY DEF Bus!AccessesFit, Bus!Deselect
<1> USE <1>0 DEF SpiInv
<1>a. /\ pc' = [pc EXCEPT ![t] = "give"] /\ scs' = 1
      /\ UNCHANGED <<lock, used, reg, obj, op, answer, truth, met>>
  BY DEF Bus!Deselect
<1>b. \A u \in Users \ {t} : pc[u] \notin Holding
  BY DEF Locked
<1>1. SpiTyped'
  BY <1>a DEF SpiTyped
<1>2. Locked' /\ Selected'
  BY <1>a DEF SpiTyped, Locked, Selected, Bus!Selecting
<1>3. Built' /\ Alone'
  BY <1>a, <1>b DEF SpiTyped, Built, Filled, Alone
<1>4. Answered'
  BY <1>a, <1>b DEF SpiTyped, Answered, InFrame, Bus!Received
<1>5. NotReused' /\ Bus!AccessesAreWhole'
  BY <1>a, <1>b DEF SpiTyped, NotReused, Bus!AccessesAreWhole
<1> QED BY <1>1, <1>2, <1>3, <1>4, <1>5

LEMMA GiveLockKeeps ==
  ASSUME Bus!AccessesFit, SpiInv, NEW t \in Users, Bus!GiveLock(t) PROVE SpiInv'
<1>0. Bus!Version \notin Users /\ "free" \notin Users /\ t # Bus!Version /\ pc[t] = "give"
  BY DEF Bus!AccessesFit, Bus!GiveLock
<1> USE <1>0 DEF SpiInv
<1>a. /\ pc' = [pc EXCEPT ![t] = IF op[t].copy THEN "copy" ELSE "done"] /\ lock' = "free"
      /\ answer' = IF op[t].nRW = "write" \/ op[t].copy THEN answer
                   ELSE [answer EXCEPT ![t] = Bus!Received(t)]
      /\ UNCHANGED <<scs, used, reg, obj, op, truth, met>>
  BY DEF Bus!GiveLock
<1>b. \A u \in Users \ {t} : pc[u] \notin Holding
  BY DEF Locked
<1>c. /\ op[t].nRW \in {"read", "write"} /\ op[t].copy \in BOOLEAN
      /\ op[t].copy => op[t].nRW = "read"
  BY OpFits
<1>d. \A u \in Users \ {t} : pc'[u] = pc[u] /\ answer'[u] = answer[u]
  BY <1>a DEF SpiTyped
<1>e. pc'[t] = IF op[t].copy THEN "copy" ELSE "done"
  BY <1>a DEF SpiTyped
<1>1. SpiTyped'
  BY <1>a DEF SpiTyped
<1>2. Locked' /\ Selected'
  <2>1. \A u \in Users : pc'[u] \notin Holding
    BY <1>b, <1>d, <1>e
  <2> QED BY <1>a, <2>1 DEF SpiTyped, Locked, Selected, Bus!Selecting
<1>3. Built' /\ Alone'
  BY <1>a, <1>b, <1>d, <1>e DEF SpiTyped, Built, Filled, Alone
<1>4. Answered'
  BY <1>a, <1>b, <1>c, <1>d, <1>e DEF SpiTyped, Answered, InFrame, Bus!Received
<1>5. NotReused'
  BY <1>a, <1>b, <1>d, <1>e DEF SpiTyped, NotReused
<1>6. ASSUME pc'[t] = "done", ~met'[t] PROVE answer'[t] = truth'[t]
  <2>1. ~op[t].copy /\ ~met[t]
    BY <1>a, <1>c, <1>e, <1>6
  <2>2. CASE op[t].nRW = "write"
    BY <1>a, <2>1, <2>2 DEF Answered
  <2>3. CASE op[t].nRW = "read"
    <3>1. answer'[t] = Bus!Received(t)
      BY <1>a, <2>1, <2>3 DEF SpiTyped
    <3> QED BY <1>a, <2>1, <2>3, <3>1 DEF Answered, InFrame
  <2> QED BY <1>c, <2>2, <2>3
<1>7. Bus!AccessesAreWhole'
  BY <1>a, <1>d, <1>6 DEF Bus!AccessesAreWhole
<1> QED BY <1>1, <1>2, <1>3, <1>4, <1>5, <1>7

LEMMA CopyKeeps ==
  ASSUME Bus!AccessesFit, SpiInv, NEW t \in Users, Bus!RxedPacket_Push(t) PROVE SpiInv'
<1>0. Bus!Version \notin Users /\ "free" \notin Users /\ t # Bus!Version /\ pc[t] = "copy"
  BY DEF Bus!AccessesFit, Bus!RxedPacket_Push
<1> USE <1>0 DEF SpiInv, Bus!RxedPacket_Push
<1>1. SpiTyped'
  BY DEF SpiTyped
<1>2. Locked' /\ Selected'
  BY DEF SpiTyped, Locked, Selected, Bus!Selecting
<1>3. Built' /\ Alone'
  BY DEF SpiTyped, Built, Filled, Alone, Bus!Selecting
<1>4. Answered' /\ NotReused'
  BY DEF SpiTyped, Answered, NotReused, InFrame, Bus!Received
<1>5. Bus!AccessesAreWhole'
  BY DEF SpiTyped, Answered, InFrame, Bus!AccessesAreWhole
<1> QED BY <1>1, <1>2, <1>3, <1>4, <1>5

LEMMA ReturnKeeps ==
  ASSUME Bus!AccessesFit, SpiInv, NEW t \in Users, Bus!Return(t) PROVE SpiInv'
<1>0. Bus!Version \notin Users /\ "free" \notin Users /\ t # Bus!Version /\ pc[t] = "done"
  BY DEF Bus!AccessesFit, Bus!Return
<1> USE <1>0 DEF SpiInv, Bus!Return
<1>1. SpiTyped'
  BY NoOpType DEF SpiTyped
<1>2. Locked' /\ Selected'
  BY DEF SpiTyped, Locked, Selected, Bus!Selecting
<1>3. Built' /\ Alone'
  BY DEF SpiTyped, Built, Filled, Alone, Bus!Selecting
<1>4. Answered' /\ NotReused'
  BY DEF SpiTyped, Answered, NotReused, InFrame, Bus!Received
<1>5. Bus!AccessesAreWhole'
  BY DEF SpiTyped, Bus!AccessesAreWhole
<1> QED BY <1>1, <1>2, <1>3, <1>4, <1>5

(* W5500_GetModuleVersion takes no lock; whom it meets, it notes.            *)
LEMMA VersionKeeps ==
  ASSUME Bus!AccessesFit, SpiInv,
         \/ Bus!GetModuleVersion \/ Bus!Select(Bus!Version)
         \/ Bus!TransmitVersion \/ Bus!Deselect(Bus!Version)
  PROVE  SpiInv'
<1>0. Bus!Version \notin Users /\ "free" \notin Users
  BY DEF Bus!AccessesFit
<1> USE <1>0 DEF SpiInv
<1>1. CASE Bus!GetModuleVersion
  BY <1>1 DEF Bus!GetModuleVersion, SpiTyped, Locked, Selected, Bus!Selecting, Built, Filled,
     Alone, Answered,
     NotReused, InFrame, Bus!Received, Bus!AccessesAreWhole
<1>2. CASE Bus!Select(Bus!Version)
  <2> DEFINE meets == [u \in Users |-> met[u] \/ u \in Bus!Meet(Bus!Version)]
  <2>1. /\ pc[Bus!Version] = "select" /\ pc' = [pc EXCEPT ![Bus!Version] = "transmit"]
        /\ scs' = 0 /\ met' = meets
        /\ UNCHANGED <<lock, reg, obj, op, answer, truth>>
    BY <1>2 DEF Bus!Select
  <2>2. /\ meets \in [Users -> BOOLEAN]
        /\ \A u \in Users : met[u] => meets[u]
        /\ \A u \in Users : pc[u] = "transmit" => meets[u]
    BY DEF Bus!Meet, Bus!Selecting, SpiTyped
  <2> HIDE DEF meets
  <2>3. SpiTyped'
    BY <2>1, <2>2 DEF SpiTyped
  <2>4. Locked' /\ Selected'
    BY <2>1 DEF SpiTyped, Locked, Selected, Bus!Selecting
  <2>5. Built' /\ Alone'
    BY <2>1, <2>2 DEF SpiTyped, Built, Filled, Alone
  <2>6. Answered' /\ NotReused' /\ Bus!AccessesAreWhole'
    BY <2>1, <2>2 DEF SpiTyped, Answered, NotReused, InFrame, Bus!Received, Bus!AccessesAreWhole
  <2> QED BY <2>3, <2>4, <2>5, <2>6
<1>3. CASE Bus!TransmitVersion
  <2>1. reg' \in [0..NReg - 1 -> Int]
    BY <1>3, SpillType DEF Bus!TransmitVersion, SpiTyped
  <2>2. SpiTyped'
    BY <1>3, <2>1 DEF Bus!TransmitVersion, SpiTyped
  <2>3. Locked' /\ Selected'
    BY <1>3 DEF Bus!TransmitVersion, SpiTyped, Locked, Selected, Bus!Selecting
  <2>4. Built' /\ Alone'
    BY <1>3 DEF Bus!TransmitVersion, SpiTyped, Built, Filled, Alone, Bus!Selecting
  <2>5. Answered' /\ NotReused' /\ Bus!AccessesAreWhole'
    BY <1>3 DEF Bus!TransmitVersion, SpiTyped, Answered, NotReused, InFrame, Bus!Received,
       Bus!AccessesAreWhole
  <2> QED BY <2>2, <2>3, <2>4, <2>5
<1>4. CASE Bus!Deselect(Bus!Version)
  <2>1. \A u \in Users : pc[u] = "transmit" => met[u]
    BY <1>4 DEF Bus!Deselect, Alone, Bus!Selecting
  <2>2. SpiTyped' /\ Locked' /\ Selected'
    BY <1>4 DEF Bus!Deselect, SpiTyped, Locked, Selected, Bus!Selecting
  <2>3. Built' /\ Alone'
    BY <1>4, <2>1 DEF Bus!Deselect, SpiTyped, Built, Filled, Alone
  <2>4. Answered' /\ NotReused' /\ Bus!AccessesAreWhole'
    BY <1>4 DEF Bus!Deselect, SpiTyped, Answered, NotReused, InFrame, Bus!Received,
       Bus!AccessesAreWhole
  <2> QED BY <2>2, <2>3, <2>4
<1> QED BY <1>1, <1>2, <1>3, <1>4

LEMMA NextSpiInv == Bus!AccessesFit /\ SpiInv /\ [Bus!Next]_Bus!vars => SpiInv'
<1>1. SpiInv /\ UNCHANGED Bus!vars => SpiInv'
  BY DEF Bus!vars, SpiInv, SpiTyped, Locked, Selected, Bus!Selecting, Built, Filled, Alone,
     Answered, NotReused,
     InFrame, Bus!Received, Bus!AccessesAreWhole
<1> QED BY <1>1, TakeLockKeeps, SetHeaderKeeps, SetPayloadKeeps, PrepareFrameKeeps, SelectKeeps,
           TransmitKeeps, DeselectKeeps, GiveLockKeeps, CopyKeeps, ReturnKeeps, VersionKeeps
        DEF Bus!Next, Bus!Access



-----------------------------------------------------------------------------
(* Who may find the object, and when what it holds was measured.             *)
RangingTyped ==
  /\ DOMAIN distance = Sensors /\ DOMAIN behind = Sensors /\ DOMAIN reader = Readers
  /\ \A r \in Readers : DOMAIN reader[r] = {"step", "index", "dist", "fair"}

Lifetime ==
  /\ phase \in {"create", "init", "pins", "delete", "sample", "ended"}
  /\ phase = "create" => object = "none"
  /\ phase \in {"init", "pins", "delete"} => object = "new"
  /\ phase = "sample" => object = "ready"
  /\ phase = "ended" => object \in {"none", "deleted"}

(* Until the distances are set to 0xFFFF they are the 0 of cleared memory.   *)
Stored ==
  \A i \in Sensors :
    /\ phase \in {"create", "init"} => behind[i] = <<>>
    /\ Sonar!Fair(distance[i], behind[i]) \/ (distance[i] = 0 /\ phase \notin {"pins", "sample"})

InUse ==
  \A r \in Readers : reader[r].step \in {"take", "read"} =>
    reader[r].index \in Sensors /\ (dangling \/ object \in {"new", "ready"})

RangingInv == RangingTyped /\ Lifetime /\ Stored /\ InUse /\ Sonar!AnswersAreMeasured

-----------------------------------------------------------------------------
(* The filter.                                                               *)
LEMMA OneAtLeast ==
  ASSUME NEW T, IsFiniteSet(T), NEW S \in SUBSET T, NEW i \in S
  PROVE  IsFiniteSet(S) /\ Cardinality(S) \in Nat /\ Cardinality(S) >= 1
<1>1. IsFiniteSet(S)
  BY FS_Subset
<1>2. Cardinality(S) \in Nat /\ Cardinality(S) # 0
  BY <1>1, FS_CardinalityType, FS_EmptySet
<1> QED BY <1>1, <1>2

LEMMA TwoAtLeast ==
  ASSUME NEW T, IsFiniteSet(T), NEW S \in SUBSET T, NEW i \in S, NEW j \in S, i # j
  PROVE  Cardinality(S) \in Nat /\ Cardinality(S) >= 2
<1>1. IsFiniteSet(S) /\ Cardinality(S) \in Nat
  BY OneAtLeast
<1>2. Cardinality(S \ {i}) = Cardinality(S) - 1
  BY <1>1, FS_RemoveElement
<1>3. Cardinality(S \ {i}) >= 1 /\ Cardinality(S \ {i}) \in Nat
  <2>1. S \ {i} \in SUBSET T /\ j \in S \ {i}
    OBVIOUS
  <2> QED BY <2>1, OneAtLeast
<1> QED BY <1>1, <1>2, <1>3

LEMMA SonarCounts == \A U : Sonar!Cardinality(U) = Cardinality(U)
  BY DEF Sonar!Cardinality, Cardinality

(* How many of the samples a value lies above, and below.                    *)
LEMMA FairOf ==
  ASSUME NEW s, NEW v, Len(s) \in 1..3, DOMAIN s = 1..Len(s),
         \/ Len(s) \in 1..2 /\ \E i, j \in 1..Len(s) : s[i] <= v /\ s[j] >= v
         \/ /\ \E i, j \in 1..Len(s) : i # j /\ s[i] <= v /\ s[j] <= v
            /\ \E i, j \in 1..Len(s) : i # j /\ s[i] >= v /\ s[j] >= v
  PROVE  Sonar!Fair(v, s)
<1> DEFINE Below == {i \in DOMAIN s : s[i] <= v}
           Above == {i \in DOMAIN s : s[i] >= v}
<1>1. s # <<>>
  BY EmptySeq
<1>2. IsFiniteSet(DOMAIN s) /\ Below \in SUBSET DOMAIN s /\ Above \in SUBSET DOMAIN s
  <2>1. IsFiniteSet(1..Len(s))
    BY FS_Interval
  <2> QED BY <2>1
<1>3. \A i \in 1..Len(s) : (i \in Below <=> s[i] <= v) /\ (i \in Above <=> s[i] >= v)
  OBVIOUS
<1>4. Sonar!Fair(v, s) <=> 2 * Cardinality(Below) >= Len(s) /\ 2 * Cardinality(Above) >= Len(s)
  BY <1>1, SonarCounts DEF Sonar!Fair
<1> HIDE DEF Below, Above
<1>5. Len(s) \in 1..3
  OBVIOUS
<1>6. CASE Len(s) \in 1..2 /\ \E i, j \in 1..Len(s) : s[i] <= v /\ s[j] >= v
  <2>1. PICK i \in 1..Len(s), j \in 1..Len(s) : i \in Below /\ j \in Above
    BY <1>3, <1>6
  <2>2. /\ Cardinality(Below) \in Nat /\ Cardinality(Below) >= 1
        /\ Cardinality(Above) \in Nat /\ Cardinality(Above) >= 1
    BY <1>2, <2>1, OneAtLeast
  <2>3. 2 * Cardinality(Below) >= Len(s) /\ 2 * Cardinality(Above) >= Len(s)
    <3>1. Len(s) \in Int /\ Len(s) <= 2
      BY <1>6
    <3> QED BY ONLY <2>2, <3>1
  <2> QED BY <1>4, <2>3
<1>7. CASE /\ \E i, j \in 1..Len(s) : i # j /\ s[i] <= v /\ s[j] <= v
           /\ \E i, j \in 1..Len(s) : i # j /\ s[i] >= v /\ s[j] >= v
  <2>1. PICK i \in 1..Len(s), j \in 1..Len(s) : i # j /\ i \in Below /\ j \in Below
    BY <1>3, <1>7
  <2>2. PICK k \in 1..Len(s), l \in 1..Len(s) : k # l /\ k \in Above /\ l \in Above
    BY <1>3, <1>7
  <2>3. Cardinality(Below) \in Nat /\ Cardinality(Below) >= 2
    BY <1>2, <2>1, TwoAtLeast
  <2>4. Cardinality(Above) \in Nat /\ Cardinality(Above) >= 2
    BY <1>2, <2>2, TwoAtLeast
  <2>5. 2 * Cardinality(Below) >= Len(s) /\ 2 * Cardinality(Above) >= Len(s)
    <3>1. Len(s) \in Int /\ Len(s) <= 3
      BY <1>5
    <3> QED BY ONLY <2>3, <2>4, <3>1
  <2> QED BY <1>4, <2>5
<1> QED BY <1>6, <1>7

Distances == {d \in Nat : d < Sonar!Invalid}

LEMMA InvalidType == Sonar!Invalid \in Nat
  BY DEF Sonar!Invalid

(* The mean of two distances lies between them, the median has one on either *)
(* side, and neither is saturated.                                           *)
LEMMA NotSaturated ==
  ASSUME NEW d \in Distances PROVE Sonar!Saturated(d) = d
  BY DEF Distances, Sonar!Saturated, Sonar!Invalid

LEMMA MeanIsFair ==
  ASSUME NEW a \in Distances, NEW b \in Distances, NEW v, v = Sonar!Saturated((a + b) \div 2)
  PROVE  (a <= v \/ b <= v) /\ (a >= v \/ b >= v)
<1>1. a \in Nat /\ a < Sonar!Invalid /\ b \in Nat /\ b < Sonar!Invalid
  BY DEF Distances
<1>2. PICK m \in Int : m = (a + b) \div 2
  BY <1>1
<1>3. m \in Distances
  BY <1>1, <1>2, InvalidType DEF Distances
<1>4. v = m
  BY <1>2, <1>3, NotSaturated
<1> QED BY <1>1, <1>2, <1>4

LEMMA MedianIsFair ==
  ASSUME NEW a \in Distances, NEW b \in Distances, NEW c \in Distances, NEW v,
         v = Sonar!Saturated(IF Sonar!Between(a, b, c) THEN a
                             ELSE IF Sonar!Between(b, a, c) THEN b ELSE c)
  PROVE  /\ (a <= v /\ b <= v) \/ (a <= v /\ c <= v) \/ (b <= v /\ c <= v)
         /\ (a >= v /\ b >= v) \/ (a >= v /\ c >= v) \/ (b >= v /\ c >= v)
<1>1. a \in Int /\ b \in Int /\ c \in Int
  BY DEF Distances
<1>2. v = IF Sonar!Between(a, b, c) THEN a ELSE IF Sonar!Between(b, a, c) THEN b ELSE c
  BY NotSaturated
<1> QED BY <1>1, <1>2 DEF Sonar!Between

(* Of no, one, two or three samples.                                         *)
LEMMA FilteredIsFair ==
  ASSUME NEW s \in Seq(Distances), Len(s) \in 0..3 PROVE Sonar!Fair(Sonar!Filtered(s), s)
<1>1. DOMAIN s = 1..Len(s) /\ \A i \in 1..Len(s) : s[i] \in Distances
  BY LenProperties, ElementOfSeq
<1>2. CASE Len(s) = 0
  <2>1. s = <<>>
    BY <1>2, EmptySeq
  <2> QED BY <1>2, <2>1 DEF Sonar!Fair, Sonar!Filtered
<1>3. CASE Len(s) = 1
  <2>1. 1 \in 1..Len(s) /\ Len(s) \in 1..2 /\ Len(s) \in 1..3
    BY <1>3
  <2>2. s[1] \in Distances
    BY <1>1, <2>1
  <2>3. PICK v : v = Sonar!Filtered(s)
    OBVIOUS
  <2>4. v = Sonar!Saturated(s[1])
    BY <1>3, <2>3 DEF Sonar!Filtered
  <2>5. s[1] <= v /\ s[1] >= v
    BY <2>2, <2>4, NotSaturated DEF Distances
  <2>6. \E i, j \in 1..Len(s) : s[i] <= v /\ s[j] >= v
    BY <2>1, <2>5
  <2> QED BY <1>1, <2>1, <2>3, <2>6, FairOf
<1>4. CASE Len(s) = 2
  <2>1. 1 \in 1..Len(s) /\ 2 \in 1..Len(s) /\ Len(s) \in 1..2 /\ Len(s) \in 1..3
    BY <1>4
  <2>2. s[1] \in Distances /\ s[2] \in Distances
    BY <1>1, <2>1
  <2>3. PICK v : v = Sonar!Filtered(s)
    OBVIOUS
  <2>4. v = Sonar!Saturated((s[1] + s[2]) \div 2)
    BY <1>4, <2>3 DEF Sonar!Filtered
  <2>5. (s[1] <= v \/ s[2] <= v) /\ (s[1] >= v \/ s[2] >= v)
    BY <2>2, <2>4, MeanIsFair
  <2>6. \E i, j \in 1..Len(s) : s[i] <= v /\ s[j] >= v
    BY <2>1, <2>5
  <2> QED BY <1>1, <2>1, <2>3, <2>6, FairOf
<1>5. CASE Len(s) = 3
  <2>1. 1 \in 1..Len(s) /\ 2 \in 1..Len(s) /\ 3 \in 1..Len(s) /\ Len(s) \in 1..3
    BY <1>5
  <2>2. s[1] \in Distances /\ s[2] \in Distances /\ s[3] \in Distances
    BY <1>1, <2>1
  <2>3. PICK v : v = Sonar!Filtered(s)
    OBVIOUS
  <2>4. v = Sonar!Saturated(IF Sonar!Between(s[1], s[2], s[3]) THEN s[1]
                      ELSE IF Sonar!Between(s[2], s[1], s[3]) THEN s[2] ELSE s[3])
    BY <1>5, <2>3 DEF Sonar!Filtered, Sonar!Median
  <2>5. /\ (s[1] <= v /\ s[2] <= v) \/ (s[1] <= v /\ s[3] <= v) \/ (s[2] <= v /\ s[3] <= v)
        /\ (s[1] >= v /\ s[2] >= v) \/ (s[1] >= v /\ s[3] >= v) \/ (s[2] >= v /\ s[3] >= v)
    BY <2>2, <2>4, MedianIsFair
  <2>6. /\ \E i, j \in 1..Len(s) : i # j /\ s[i] <= v /\ s[j] <= v
        /\ \E i, j \in 1..Len(s) : i # j /\ s[i] >= v /\ s[j] >= v
    BY <2>1, <2>5
  <2> QED BY <1>1, <2>1, <2>3, <2>6, FairOf
<1> QED BY <1>2, <1>3, <1>4, <1>5

(* Three readings give three samples at most, none above 4123 mm.            *)
LEMMA SampleType ==
  ASSUME NEW p \in Nat PROVE Sonar!Sample(p) \in Seq(Distances) /\ Len(Sonar!Sample(p)) \in 0..1
<1>1. CASE p <= Sonar!EchoTimeout
  <2>1. Sonar!Millimetres(p) \in Distances
    BY <1>1 DEF Sonar!Millimetres, Sonar!EchoTimeout, Distances, Sonar!Invalid
  <2> HIDE DEF Sonar!Millimetres
  <2>2. Sonar!Sample(p) = <<Sonar!Millimetres(p)>>
    BY <1>1 DEF Sonar!Sample
  <2> QED BY <2>1, <2>2
<1>2. CASE ~(p <= Sonar!EchoTimeout)
  BY <1>2, EmptySeq DEF Sonar!Sample
<1> QED BY <1>1, <1>2

LEMMA UpToThree == \A i, j, k \in 0..1 : i + j + k \in 0..3
  OBVIOUS

LEMMA ValidSamples ==
  ASSUME Pulses \subseteq Nat, NEW readings \in Sonar!Readings
  PROVE  Sonar!Valid(readings) \in Seq(Distances) /\ Len(Sonar!Valid(readings)) \in 0..3
<1> DEFINE a == Sonar!Sample(readings[1])
           b == Sonar!Sample(readings[2])
           c == Sonar!Sample(readings[3])
<1>1. readings[1] \in Nat /\ readings[2] \in Nat /\ readings[3] \in Nat
  <2>1. Pulses \cup {Sonar!NoEcho} \subseteq Nat
    BY DEF Sonar!NoEcho, Sonar!EchoTimeout
  <2>2. readings \in [{1, 2, 3} -> Pulses \cup {Sonar!NoEcho}]
    <3>1. 1..3 = {1, 2, 3}
      OBVIOUS
    <3> QED BY <3>1 DEF Sonar!Readings
  <2>3. \A k \in {1, 2, 3} : readings[k] \in Nat
    BY <2>1, <2>2
  <2> QED BY <2>3
<1>2. /\ a \in Seq(Distances) /\ b \in Seq(Distances) /\ c \in Seq(Distances)
      /\ Len(a) \in 0..1 /\ Len(b) \in 0..1 /\ Len(c) \in 0..1
  BY <1>1, SampleType
<1> HIDE DEF a, b, c
<1>3. a \o b \in Seq(Distances) /\ Len(a \o b) = Len(a) + Len(b)
  BY <1>2, ConcatProperties
<1>4. (a \o b) \o c \in Seq(Distances) /\ Len((a \o b) \o c) = Len(a) + Len(b) + Len(c)
  BY <1>2, <1>3, ConcatProperties
<1>5. Sonar!Valid(readings) = (a \o b) \o c
  BY DEF Sonar!Valid, a, b, c
<1>6. Len(a) + Len(b) + Len(c) \in 0..3
  BY <1>2, UpToThree
<1> QED BY <1>4, <1>5, <1>6

-----------------------------------------------------------------------------
LEMMA InitRangingInv == Sonar!Init => RangingInv
  BY DEF Sonar!Init, Sonar!Idle, RangingInv, RangingTyped, Lifetime, Stored, InUse,
     Sonar!AnswersAreMeasured

LEMMA NextRangingInv ==
  ASSUME Pulses \subseteq Nat, RangingInv, [Sonar!Next]_Sonar!vars PROVE RangingInv'
<1> USE DEF RangingInv
<1>1. CASE UNCHANGED Sonar!vars
  BY <1>1 DEF Sonar!vars, RangingTyped, Lifetime, Stored, InUse, Sonar!AnswersAreMeasured
<1>2. CASE Sonar!CreateDefault
  BY <1>2 DEF Sonar!CreateDefault, RangingTyped, Lifetime, Stored, InUse, Sonar!AnswersAreMeasured
<1>3. CASE Sonar!InitDistances
  <2>1. Stored'
    BY <1>3 DEF Sonar!InitDistances, Stored, Sonar!Fair
  <2> QED BY <1>3, <2>1 DEF Sonar!InitDistances, RangingTyped, Lifetime, InUse,
             Sonar!AnswersAreMeasured
<1>4. CASE Sonar!InitTimeout
  BY <1>4 DEF Sonar!InitTimeout, RangingTyped, Lifetime, Stored, InUse, Sonar!AnswersAreMeasured
<1>5. CASE Sonar!HCSR04_InitPins
  BY <1>5 DEF Sonar!HCSR04_InitPins, RangingTyped, Lifetime, Stored, InUse, Sonar!AnswersAreMeasured
<1>6. CASE Sonar!Delete
  BY <1>6 DEF Sonar!Delete, RangingTyped, Lifetime, Stored, InUse, Sonar!AnswersAreMeasured
<1>7. CASE Sonar!WriteDistance
  <2>1. PICK readings \in Sonar!Readings :
          /\ distance' = [distance EXCEPT ![sensor] = Sonar!Filtered(Sonar!Valid(readings))]
          /\ behind' = [behind EXCEPT ![sensor] = Sonar!Valid(readings)]
    BY <1>7 DEF Sonar!WriteDistance
  <2>2. Sonar!Fair(Sonar!Filtered(Sonar!Valid(readings)), Sonar!Valid(readings))
    BY ValidSamples, FilteredIsFair
  <2>3. phase = "sample" /\ UNCHANGED <<object, phase, reader, dangling>>
    BY <1>7 DEF Sonar!WriteDistance
  <2>4. \A i \in Sensors : Sonar!Fair(distance'[i], behind'[i])
    BY <2>1, <2>2, <2>3 DEF RangingTyped, Stored
  <2>5. Stored'
    BY <2>3, <2>4 DEF Stored
  <2> QED BY <2>1, <2>3, <2>5 DEF RangingTyped, Lifetime, InUse, Sonar!AnswersAreMeasured
<1>8. CASE Sonar!WriteTimeout
  BY <1>8 DEF Sonar!WriteTimeout, RangingTyped, Lifetime, Stored, InUse, Sonar!AnswersAreMeasured
<1>9. ASSUME NEW r \in Readers, Sonar!GetLatestDistanceMm(r) PROVE RangingInv'
  BY <1>9 DEF Sonar!GetLatestDistanceMm, RangingTyped, Lifetime, Stored, InUse,
     Sonar!AnswersAreMeasured
<1>10. ASSUME NEW r \in Readers, Sonar!TakeLock(r) PROVE RangingInv'
  BY <1>10 DEF Sonar!TakeLock, Sonar!Step, RangingTyped, Lifetime, Stored, InUse,
     Sonar!AnswersAreMeasured
<1>11. ASSUME NEW r \in Readers, Sonar!TakeTimeout(r) PROVE RangingInv'
  BY <1>11 DEF Sonar!TakeTimeout, Sonar!Step, RangingTyped, Lifetime, Stored, InUse,
     Sonar!AnswersAreMeasured
(* A deletion before leaves no reader here, or nobody goes further.          *)
<1>12. ASSUME NEW r \in Readers, ~dangling, Sonar!ReadDistance(r) PROVE RangingInv'
  <2> DEFINE i == reader[r].index
  <2>1. i \in Sensors /\ object \in {"new", "ready"}
    BY <1>12 DEF Sonar!ReadDistance, InUse
  <2>2. Sonar!Fair(distance[i], behind[i]) \/ (object = "new" /\ distance[i] = 0)
    BY <2>1 DEF Stored, Lifetime
  <2>3. /\ reader'[r].fair /\ reader'[r].step = "answered"
        /\ DOMAIN reader'[r] = {"step", "index", "dist", "fair"}
        /\ \A q \in Readers \ {r} : reader'[q] = reader[q]
        /\ DOMAIN reader' = Readers
    BY <1>12, <2>2 DEF Sonar!ReadDistance, RangingTyped
  <2>4. UNCHANGED <<object, distance, phase, sensor, behind, dangling>>
    BY <1>12 DEF Sonar!ReadDistance
  <2> QED BY <2>3, <2>4 DEF RangingTyped, Lifetime, Stored, InUse, Sonar!AnswersAreMeasured
<1>13. ASSUME NEW r \in Readers, Sonar!Use(r) PROVE RangingInv'
  BY <1>13 DEF Sonar!Use, Sonar!Idle, RangingTyped, Lifetime, Stored, InUse,
     Sonar!AnswersAreMeasured
<1> QED BY <1>1, <1>2, <1>3, <1>4, <1>5, <1>6, <1>7, <1>8, <1>9, <1>10, <1>11, <1>12, <1>13 DEF
           Sonar!Next

-----------------------------------------------------------------------------
(* What is lost when x hundredths of the 724 steps become steps and back.    *)
LEMMA StepsOfPercent ==
  ASSUME NEW x \in Int, 0 <= x, x <= 100
  PROVE  LET q == (x * 724) \div 100  y == (q * 100) \div 724 IN
         /\ q \in Int /\ 0 <= q /\ q <= 724 /\ (x > 0 => q > 0) /\ (x < 100 => q < 724)
         /\ y \in Int /\ (y = x \/ y = x - 1) /\ 0 <= y
<1> DEFINE q == (x * 724) \div 100
           y == (q * 100) \div 724
<1>1. q \in Int /\ 100 * q <= x * 724 /\ x * 724 < 100 * q + 100
  OBVIOUS
<1> HIDE DEF q
<1>2. y \in Int /\ 724 * y <= q * 100 /\ q * 100 < 724 * y + 724
  BY <1>1
<1> HIDE DEF y
<1>3. /\ 0 <= q /\ q <= 724 /\ (x > 0 => q > 0) /\ (x < 100 => q < 724)
      /\ (y = x \/ y = x - 1) /\ 0 <= y
  BY <1>1, <1>2
<1> QED BY <1>1, <1>2, <1>3 DEF q, y

LEMMA PercentForward ==
  ASSUME NEW p \in Int, p > 0
  PROVE  LET x == IF p >= 100 THEN 100 ELSE p IN
         Scale!ConvertPercent2Raw(p) = 300 + (x * 724) \div 100
<1> DEFINE x == IF p >= 100 THEN 100 ELSE p
<1>1. x \in Int /\ 0 <= x /\ x <= 100
  OBVIOUS
<1>2. PICK q \in Int : q = (x * 724) \div 100 /\ 0 <= q /\ q <= 724
  BY <1>1, StepsOfPercent
<1>3. Scale!Quotient(x * 724, 100) = q
  BY <1>1, <1>2 DEF Scale!Quotient
<1>4. Scale!Within(0, 100, p) = x
  BY DEF Scale!Within
<1>5. Scale!Within(300, 1024, q + 300) = q + 300
  BY <1>2 DEF Scale!Within
<1> HIDE DEF x
<1>6. Scale!LinearScale(<<0, 100>>, <<300, 1024>>, 0, 0, p) = q + 300
  BY <1>1, <1>2, <1>3, <1>4, <1>5 DEF Scale!LinearScale
<1> QED BY <1>2, <1>6 DEF x, Scale!ConvertPercent2Raw

LEMMA PercentBackward ==
  ASSUME NEW p \in Int, p < 0
  PROVE  LET x == IF p <= -100 THEN -100 ELSE p IN
         Scale!ConvertPercent2Raw(p) = ((x + 100) * 724) \div 100 - 1024
<1> DEFINE x == IF p <= -100 THEN -100 ELSE p
<1>1. x + 100 \in Int /\ 0 <= x + 100 /\ x + 100 < 100
  OBVIOUS
<1>2. PICK q \in Int : q = ((x + 100) * 724) \div 100 /\ 0 <= q /\ q < 724
  BY <1>1, StepsOfPercent
<1>3. Scale!Quotient((x - (-100)) * 724, 100) = q
  BY <1>1, <1>2 DEF Scale!Quotient
<1>4. Scale!Within(-100, 0, p) = x
  BY DEF Scale!Within
<1>5. Scale!Within(-1024, -300, q + (-1024)) = q - 1024
  BY <1>2 DEF Scale!Within
<1> HIDE DEF x
<1>6. Scale!LinearScale(<<-100, 0>>, <<-1024, -300>>, 0, 0, p) = q - 1024
  BY <1>1, <1>2, <1>3, <1>4, <1>5 DEF Scale!LinearScale
<1> QED BY <1>2, <1>6 DEF x, Scale!ConvertPercent2Raw

LEMMA RawForward ==
  ASSUME NEW q \in Int, 0 < q, q <= 724, NEW y \in Int, y = (q * 100) \div 724
  PROVE  Scale!ConvertRaw2Percent(300 + q) = y
<1>1. 724 * y <= q * 100 /\ q * 100 < 724 * y + 724
  OBVIOUS
<1>2. 0 <= y /\ y <= 100
  BY <1>1
<1>3. Scale!Quotient((300 + q - 300) * 100, 724) = y
  BY DEF Scale!Quotient
<1>4. Scale!Within(300, 1024, 300 + q) = 300 + q /\ Scale!Within(0, 100, y) = y
  BY <1>2 DEF Scale!Within
<1>5. Scale!LinearScale(<<300, 1024>>, <<0, 100>>, 0, 0, 300 + q) = y
  BY <1>3, <1>4 DEF Scale!LinearScale
<1> QED BY <1>5 DEF Scale!ConvertRaw2Percent

LEMMA RawBackward ==
  ASSUME NEW q \in Int, 0 <= q, q < 724, NEW y \in Int, y = (q * 100) \div 724
  PROVE  Scale!ConvertRaw2Percent(q - 1024) = y - 100
<1>1. 724 * y <= q * 100 /\ q * 100 < 724 * y + 724
  OBVIOUS
<1>2. 0 <= y /\ y <= 100
  BY <1>1
<1>3. Scale!Quotient((q - 1024 - (-1024)) * 100, 724) = y
  BY DEF Scale!Quotient
<1>4. Scale!Within(-1024, -300, q - 1024) = q - 1024 /\ Scale!Within(-100, 0, y - 100) = y - 100
  BY <1>2 DEF Scale!Within
<1>5. Scale!LinearScale(<<-1024, -300>>, <<-100, 0>>, 0, 0, q - 1024) = y - 100
  BY <1>2, <1>3, <1>4 DEF Scale!LinearScale
<1> QED BY <1>5 DEF Scale!ConvertRaw2Percent

(* A speed commanded and reported.                                           *)
LEMMA ThereAndBack ==
  ASSUME NEW p \in Int
  PROVE  LET v == Scale!ConvertPercent2Raw(p)
             r == Scale!ConvertRaw2Percent(v)
             c == Scale!Within(-100, 100, p)
         IN  /\ v \in Int /\ r \in Int /\ (r = c \/ r = c - 1) /\ -100 <= r
             /\ p = 0 => v = 0 /\ r = 0
             /\ p > 0 => 300 < v /\ v <= 1024 /\ 0 <= r
             /\ p < 0 => -1024 <= v /\ v < -300 /\ r < 0
<1> DEFINE v == Scale!ConvertPercent2Raw(p)
           r == Scale!ConvertRaw2Percent(v)
           c == Scale!Within(-100, 100, p)
<1>1. CASE p = 0
  <2>1. v = 0 /\ c = 0
    BY <1>1 DEF Scale!ConvertPercent2Raw, Scale!Within
  <2>2. r = 0
    BY <2>1 DEF Scale!ConvertRaw2Percent
  <2> QED BY <1>1, <2>1, <2>2
<1>2. CASE p > 0
  <2>1. c \in Int /\ 0 < c /\ c <= 100 /\ c = IF p >= 100 THEN 100 ELSE p
    BY <1>2 DEF Scale!Within
  <2> HIDE DEF c
  <2>2. PICK q \in Int, y \in Int :
          /\ q = (c * 724) \div 100 /\ 0 < q /\ q <= 724
          /\ y = (q * 100) \div 724 /\ (y = c \/ y = c - 1) /\ 0 <= y
    BY <2>1, StepsOfPercent
  <2>3. v = 300 + q
    BY <1>2, <2>1, <2>2, PercentForward
  <2> HIDE DEF v
  <2>4. r = y
    BY <2>2, <2>3, RawForward
  <2> QED BY <1>2, <2>2, <2>3, <2>4 DEF v, c
<1>3. CASE p < 0
  <2>1. c \in Int /\ -100 <= c /\ c < 0 /\ c = IF p <= -100 THEN -100 ELSE p
    BY <1>3 DEF Scale!Within
  <2> HIDE DEF c
  <2>2. PICK q \in Int, y \in Int :
          /\ q = ((c + 100) * 724) \div 100 /\ 0 <= q /\ q < 724
          /\ y = (q * 100) \div 724 /\ (y = c + 100 \/ y = c + 100 - 1) /\ 0 <= y
    BY <2>1, StepsOfPercent
  <2>3. v = q - 1024
    BY <1>3, <2>1, <2>2, PercentBackward
  <2> HIDE DEF v
  <2>4. r = y - 100
    BY <2>2, <2>3, RawBackward
  <2> HIDE DEF r
  <2>5. r \in Int /\ (r = c \/ r = c - 1) /\ -100 <= r /\ r < 0
    BY <2>1, <2>2, <2>4
  <2>6. v \in Int /\ -1024 <= v /\ v < -300
    BY <2>2, <2>3
  <2> QED BY <1>3, <2>5, <2>6 DEF v, c, r
<1> QED BY <1>1, <1>2, <1>3

(* The older converters.                                                     *)
LEMMA OlderThereAndBack ==
  ASSUME NEW p \in Int
  PROVE  LET r == Scale!ConvertRawToPercent(Scale!ConvertPercentToRaw(p)) IN
         r \in Int /\ r - Scale!Within(-100, 100, p) \in -1..1
<1> DEFINE v == Scale!ConvertPercentToRaw(p)
           r == Scale!ConvertRawToPercent(v)
           c == Scale!Within(-100, 100, p)
<1>1. CASE p = 0
  BY <1>1 DEF Scale!ConvertPercentToRaw, Scale!ConvertRawToPercent, Scale!Within
<1>2. CASE p > 0
  <2>1. c \in Int /\ 0 < c /\ c <= 100 /\ c = Scale!Least(p, 100)
    BY <1>2 DEF Scale!Within, Scale!Least
  <2> HIDE DEF c
  <2>2. PICK q \in Int, y \in Int :
          /\ q = (c * 724) \div 100 /\ 0 < q /\ q <= 724
          /\ y = (q * 100) \div 724 /\ (y = c \/ y = c - 1)
    BY <2>1, StepsOfPercent
  <2>3. v = 300 + q
    BY <1>2, <2>1, <2>2 DEF Scale!ConvertPercentToRaw
  <2> HIDE DEF v
  <2>4. r = y
    BY <2>2, <2>3 DEF Scale!ConvertRawToPercent, Scale!Least
  <2> QED BY <2>1, <2>2, <2>4 DEF v, c
<1>3. CASE p < 0
  <2>1. -c \in Int /\ 0 < -c /\ -c <= 100 /\ -c = Scale!Least(-p, 100) /\ c \in Int
    BY <1>3 DEF Scale!Within, Scale!Least
  <2> HIDE DEF c
  <2>2. PICK q \in Int, y \in Int :
          /\ q = ((-c) * 724) \div 100 /\ 0 < q /\ q <= 724
          /\ y = (q * 100) \div 724 /\ (y = -c \/ y = (-c) - 1)
    BY <2>1, StepsOfPercent
  <2>3. v = -(300 + q)
    BY <1>3, <2>1, <2>2 DEF Scale!ConvertPercentToRaw
  <2> HIDE DEF v
  <2>4. r = -y
    BY <2>2, <2>3 DEF Scale!ConvertRawToPercent, Scale!Least
  <2> QED BY <2>1, <2>2, <2>4 DEF v, c
<1> QED BY <1>1, <1>2, <1>3

-----------------------------------------------------------------------------
LEMMA DriftStarts ==
  ASSUME NEW c \in Int, NEW r \in Int, NEW e \in Nat, e = 0, r = c \/ r = c - 1
  PROVE  r - c \in -(e + 1)..e + 1
  OBVIOUS

LEMMA DriftGrows ==
  ASSUME NEW c \in Int, NEW p \in Int, NEW r \in Int, NEW e \in Nat,
         r = p \/ r = p - 1, p - c \in -(e + 1)..e + 1
  PROVE  r - c \in -(e + 1 + 1)..e + 1 + 1
  OBVIOUS

LEMMA SignsAgree ==
  ASSUME NEW c \in Int, NEW r \in Int, NEW v \in Int,
         c = 0 => v = 0 /\ r = 0, c > 0 => v >= 0 /\ r >= 0, c < 0 => v <= 0 /\ r <= 0,
         v = 0 \/ (300 <= v /\ v <= 1024) \/ (-1024 <= v /\ v <= -300)
  PROVE  /\ Scale!Sign(r) \in {0, Scale!Sign(c)} /\ Scale!Sign(v) \in {0, Scale!Sign(c)}
         /\ Scale!Sign(v) # 0 <=> v # 0
         /\ Scale!Sign(v) # 0 => v \in -1024..-300 \cup 300..1024
<1>1. /\ Scale!Sign(r) = IF r > 0 THEN 1 ELSE IF r < 0 THEN -1 ELSE 0
      /\ Scale!Sign(v) = IF v > 0 THEN 1 ELSE IF v < 0 THEN -1 ELSE 0
      /\ Scale!Sign(c) = IF c > 0 THEN 1 ELSE IF c < 0 THEN -1 ELSE 0
  BY DEF Scale!Sign
<1>2. Scale!Sign(v) # 0 <=> v # 0
  BY <1>1
<1>3. v # 0 => v \in -1024..-300 \cup 300..1024
  OBVIOUS
<1>4. Scale!Sign(r) \in {0, Scale!Sign(c)}
  BY <1>1
<1>5. Scale!Sign(v) \in {0, Scale!Sign(c)}
  BY <1>1
<1> QED BY <1>2, <1>3, <1>4, <1>5

SpeedsInv ==
  /\ ordered \in Int /\ raw \in Int /\ reported \in Int /\ echoes \in Nat
  /\ -100 <= reported /\ reported <= Scale!Commanded
  /\ Scale!SpeedsAreKept

LEMMA InitSpeedsInv == Scale!Init => SpeedsInv
  BY DEF Scale!Init, SpeedsInv, Scale!SpeedsAreKept, Scale!Commanded, Scale!Within, Scale!Sign

LEMMA EngineControlKeeps == ASSUME Percents \subseteq Int, Scale!EngineControl PROVE SpeedsInv'
<1>1. PICK p \in Percents : ordered' = p /\ Scale!Obey(p)
  BY DEF Scale!EngineControl
<1> DEFINE c == Scale!Within(-100, 100, p)
<1>2. p \in Int /\ echoes' = 0 /\ ordered' = p /\ Scale!Commanded' = c
  BY <1>1 DEF Scale!EngineControl, Scale!Commanded
<1>3. /\ c \in Int /\ c <= 100 /\ (p = 0 => c = 0) /\ (p > 0 => c > 0) /\ (p < 0 => c < 0)
  BY <1>2 DEF Scale!Within
<1>4. /\ raw' \in Int /\ reported' \in Int
      /\ (reported' = c \/ reported' = c - 1) /\ -100 <= reported'
      /\ p = 0 => raw' = 0 /\ reported' = 0
      /\ p > 0 => 300 < raw' /\ raw' <= 1024 /\ 0 <= reported'
      /\ p < 0 => -1024 <= raw' /\ raw' < -300 /\ reported' < 0
  BY <1>1, <1>2, ThereAndBack DEF Scale!Obey
<1>5. older' \in Int /\ older' - c \in -1..1
  BY <1>1, <1>2, OlderThereAndBack DEF Scale!Obey
<1> HIDE DEF c
<1>6. Scale!SpeedsAreKept'
  <2>1. reported' - Scale!Commanded' \in -(echoes' + 1)..echoes' + 1
    BY <1>2, <1>3, <1>4, DriftStarts
  <2>2. /\ Scale!Sign(reported') \in {0, Scale!Sign(c)} /\ Scale!Sign(raw') \in {0, Scale!Sign(c)}
        /\ Scale!Sign(raw') # 0 <=> raw' # 0
        /\ Scale!Sign(raw') # 0 => raw' \in -1024..-300 \cup 300..1024
    BY <1>2, <1>3, <1>4, SignsAgree
  <2>3. raw' # 0 <=> c # 0
    <3>1. CASE p = 0
      BY <3>1, <1>3, <1>4
    <3>2. CASE p > 0
      BY <3>2, <1>2, <1>3, <1>4
    <3>3. CASE p < 0
      BY <3>3, <1>2, <1>3, <1>4
    <3> QED BY <1>2, <3>1, <3>2, <3>3
  <2> QED BY <1>2, <1>5, <2>1, <2>2, <2>3 DEF Scale!SpeedsAreKept
<1> QED BY <1>2, <1>3, <1>4, <1>6 DEF SpeedsInv

LEMMA EchoKeeps == ASSUME SpeedsInv, Scale!Echo PROVE SpeedsInv'
<1> DEFINE p == reported
           c == Scale!Commanded
<1>1. /\ p \in Int /\ -100 <= p /\ echoes \in Nat /\ echoes' = echoes + 1 /\ Scale!Obey(p)
      /\ ordered' = ordered /\ ordered \in Int
  BY DEF SpeedsInv, Scale!Echo
<1>2. c' = c /\ c \in Int /\ c <= 100
  BY <1>1 DEF Scale!Commanded, Scale!Within
<1>3. /\ p - c \in -(echoes + 1)..echoes + 1 /\ p <= c
      /\ (c = 0 => p = 0) /\ (c > 0 => p >= 0) /\ (c < 0 => p <= 0)
  BY <1>1, <1>2 DEF SpeedsInv, Scale!SpeedsAreKept, Scale!Sign
<1>4. Scale!Within(-100, 100, p) = p
  BY <1>1, <1>2, <1>3 DEF Scale!Within
<1>5. /\ raw' \in Int /\ reported' \in Int
      /\ (reported' = p \/ reported' = p - 1) /\ -100 <= reported'
      /\ p = 0 => raw' = 0 /\ reported' = 0
      /\ p > 0 => 300 < raw' /\ raw' <= 1024 /\ 0 <= reported'
      /\ p < 0 => -1024 <= raw' /\ raw' < -300 /\ reported' < 0
  BY <1>1, <1>4, ThereAndBack DEF Scale!Obey
<1> HIDE DEF p, c
<1>6. Scale!SpeedsAreKept'
  <2>1. reported' - c \in -(echoes' + 1)..echoes' + 1
    BY <1>1, <1>2, <1>3, <1>5, DriftGrows
  <2>2. /\ c = 0 => raw' = 0 /\ reported' = 0
        /\ c > 0 => raw' >= 0 /\ reported' >= 0
        /\ c < 0 => raw' <= 0 /\ reported' <= 0
    <3>1. CASE p = 0
      BY <3>1, <1>5
    <3>2. CASE p > 0
      BY <3>2, <1>1, <1>2, <1>3, <1>5
    <3>3. CASE p < 0
      BY <3>3, <1>1, <1>2, <1>3, <1>5
    <3> QED BY <1>1, <3>1, <3>2, <3>3
  <2>3. raw' = 0 \/ (300 <= raw' /\ raw' <= 1024) \/ (-1024 <= raw' /\ raw' <= -300)
    BY <1>1, <1>5
  <2>4. /\ Scale!Sign(reported') \in {0, Scale!Sign(c)} /\ Scale!Sign(raw') \in {0, Scale!Sign(c)}
        /\ Scale!Sign(raw') # 0 => raw' \in -1024..-300 \cup 300..1024
    BY <1>2, <1>5, <2>2, <2>3, SignsAgree
  <2> QED BY <1>1, <1>2, <2>1, <2>4 DEF Scale!SpeedsAreKept, c
<1> QED BY <1>1, <1>2, <1>3, <1>5, <1>6 DEF SpeedsInv, c

LEMMA NextSpeedsInv ==
  ASSUME Percents \subseteq Int, SpeedsInv, [Scale!Next]_Scale!scalingVars PROVE SpeedsInv'
<1>1. CASE UNCHANGED Scale!scalingVars
  BY <1>1 DEF Scale!scalingVars, SpeedsInv, Scale!SpeedsAreKept, Scale!Commanded
<1> QED BY <1>1, EngineControlKeeps, EchoKeeps DEF Scale!Next

-----------------------------------------------------------------------------
(* The octets in the form that the value has; those of an integer are its    *)
(* lowest.                                                                   *)
AddressTyped ==
  /\ meant \in Seq(0..255) /\ Len(meant) \in {4, 6}
  /\ value.octets \in Seq(Int) /\ value.turned \in BOOLEAN

InText ==
  /\ value.form = "text" /\ ~value.turned /\ Len(meant) = 4 /\ Len(value.octets) = 4
  /\ \A i \in 1..4 : Net!Octet(value.octets[i]) = meant[i]
InBytes ==
  /\ value.form = "bytes" /\ Len(value.octets) = Len(meant)
  /\ \A i \in 1..Len(meant) :
       value.octets[i] = meant[IF value.turned THEN Len(meant) + 1 - i ELSE i]
InInt ==
  /\ value.form = "int" /\ ~value.turned
  /\ Len(value.octets) = (IF wide THEN 8 ELSE 4) /\ Len(meant) <= Len(value.octets)
  /\ \A i \in 1..Len(meant) : value.octets[Len(value.octets) - Len(meant) + i] = meant[i]

AddressInv == AddressTyped /\ (InText \/ InBytes \/ InInt)

LEMMA OctetOfByte == \A x \in 0..255 : Net!Octet(x) = x
BY DEF Net!Octet

LEMMA OctetType == \A x \in Int : Net!Octet(x) \in 0..255
BY DEF Net!Octet

LEMMA FunctionIsSequence ==
  ASSUME NEW n \in Nat, NEW T, NEW f \in [1..n -> T]
  PROVE  f \in Seq(T) /\ Len(f) = n
OBVIOUS

LEMMA SequenceIsFunction ==
  ASSUME NEW T, NEW f \in Seq(T)
  PROVE  f \in [1..Len(f) -> T]
OBVIOUS

LEMMA LowIs ==
  ASSUME NEW s \in Seq(Int), NEW m \in Nat \ {0}, m <= Len(s)
  PROVE  LET low == SubSeq(s, Len(s) + 1 - m, Len(s)) IN
         low \in Seq(Int) /\ Len(low) = m /\ \A i \in 1..m : low[i] = s[Len(s) - m + i]
<1>1. \A i \in Len(s) + 1 - m..Len(s) : i \in 1..Len(s)
  OBVIOUS
<1>2. Len(s) - (Len(s) + 1 - m) + 1 = m /\ \A i \in 1..m : (Len(s) + 1 - m) + i - 1 = Len(s) - m + i
  OBVIOUS
<1> QED BY <1>1, <1>2, SubSeqProperties

LEMMA PaddedIs ==
  ASSUME NEW s \in Seq(Int), NEW n \in Nat
  PROVE  LET padded == Net!Zeros(n) \o s IN
         padded \in Seq(Int) /\ Len(padded) = n + Len(s) /\ \A i \in 1..Len(s) : padded[n + i] = s[i]
<1>1. Net!Zeros(n) \in [1..n -> Int]
  BY DEF Net!Zeros
<1>2. PICK zeros \in Seq(Int) : zeros = Net!Zeros(n) /\ Len(zeros) = n
  BY <1>1, FunctionIsSequence
<1>3. /\ zeros \o s \in Seq(Int) /\ Len(zeros \o s) = Len(zeros) + Len(s)
      /\ \A i \in 1..Len(zeros) + Len(s) :
           (zeros \o s)[i] = IF i <= Len(zeros) THEN zeros[i] ELSE s[i - Len(zeros)]
  BY ConcatProperties
<1>4. \A i \in 1..Len(s) : n + i \in 1..n + Len(s) /\ ~(n + i <= n) /\ n + i - n = i
  OBVIOUS
<1> QED BY <1>2, <1>3, <1>4

LEMMA ReversedIs ==
  ASSUME NEW s \in Seq(Int), Len(s) = 8
  PROVE  LET bytes == SubSeq(Net!Reverse(s), 1, 6) IN
         bytes \in Seq(Int) /\ Len(bytes) = 6 /\ \A i \in 1..6 : bytes[i] = s[9 - i]
<1>1. \A i \in 1..8 : 8 - i + 1 = 9 - i /\ 9 - i \in 1..8
  OBVIOUS
<1>2. Net!Reverse(s) = [i \in 1..8 |-> s[8 - i + 1]]
  BY DEF Net!Reverse
<1>3. PICK t : t = [i \in 1..8 |-> s[8 - i + 1]]
  OBVIOUS
<1>a. t \in [1..8 -> Int]
  <2>1. s \in [1..8 -> Int]
    BY SequenceIsFunction
  <2> QED BY <2>1, <1>1, <1>3
<1>b. \A i \in 1..8 : t[i] = s[9 - i]
  BY <1>1, <1>3
<1>4. t \in Seq(Int) /\ Len(t) = 8
  BY <1>a, FunctionIsSequence
<1>5. SubSeq(t, 1, 6) \in Seq(Int) /\ Len(SubSeq(t, 1, 6)) = 6 /\ \A i \in 1..6 : SubSeq(t, 1, 6)[i] = t[i]
  <2>1. PICK n \in Nat : n = 6
    OBVIOUS
  <2>2. t \in Seq(Int) /\ 1 \in 1..Len(t) + 1 /\ n \in 0..Len(t) /\ 1 <= n + 1 /\ n - 1 + 1 = n
    BY <1>4, <2>1
  <2>3. PICK front : front = SubSeq(t, 1, n)
    OBVIOUS
  <2>4. front = [i \in 1..n |-> t[1 + i - 1]]
    BY <2>2, <2>3
  <2>5. \A i \in 1..n : 1 + i - 1 = i /\ i \in 1..Len(t)
    BY <2>2
  <2>6. front \in [1..n -> Int]
    BY <2>2, <2>4, <2>5, ElementOfSeq
  <2>7. front \in Seq(Int) /\ Len(front) = n
    BY <2>6, FunctionIsSequence
  <2>8. \A i \in 1..n : front[i] = t[i]
    BY <2>4, <2>5
  <2> QED BY <2>1, <2>3, <2>7, <2>8
<1> QED BY <1>2, <1>3, <1>b, <1>5

(* One octet more, from below.                                               *)
LEMMA ShiftIs ==
  ASSUME NEW s \in Seq(Int), Len(s) > 0, NEW b \in Int
  PROVE  LET up == Tail(s) \o <<b>> IN
         /\ up \in Seq(Int) /\ Len(up) = Len(s) /\ up[Len(s)] = b
         /\ \A i \in 1..Len(s) - 1 : up[i] = s[i + 1]
<1>1. Tail(s) \in Seq(Int) /\ Len(Tail(s)) = Len(s) - 1 /\ \A i \in 1..Len(s) - 1 : Tail(s)[i] = s[i + 1]
  BY HeadTailProperties, EmptySeq
<1>2. <<b>> \in Seq(Int) /\ Len(<<b>>) = 1 /\ <<b>>[1] = b
  OBVIOUS
<1>3. \A i \in 1..Len(s) - 1 : i <= Len(s) - 1 /\ i \in 1..(Len(s) - 1) + 1
  OBVIOUS
<1> QED BY <1>1, <1>2, <1>3, ConcatProperties

LEMMA LittleEndianIs ==
  ASSUME NEW s \in Seq(Int), NEW size \in {4, 8}, Len(s) \in {4, 6}, Len(s) <= size
  PROVE  LET int == Net!LittleEndian(s, size) IN
         /\ int \in Seq(Int) /\ Len(int) = size
         /\ \A i \in 1..Len(s) : int[size - Len(s) + i] = s[Len(s) + 1 - i]
<1> DEFINE int == Net!LittleEndian(s, size)
<1>1. \A i \in 1..size : size + 1 - i <= Len(s) => size + 1 - i \in 1..Len(s)
  OBVIOUS
<1>2. /\ int \in [1..size -> Int]
      /\ \A i \in 1..size : int[i] = IF size + 1 - i <= Len(s) THEN s[size + 1 - i] ELSE 0
  BY <1>1 DEF Net!LittleEndian
<1>3. int \in Seq(Int) /\ Len(int) = size
  BY <1>2
<1> HIDE DEF int
<1>4. \A i \in 1..Len(s) : /\ size - Len(s) + i \in 1..size
                           /\ size + 1 - (size - Len(s) + i) = Len(s) + 1 - i
                           /\ Len(s) + 1 - i <= Len(s)
  OBVIOUS
<1> QED BY <1>2, <1>3, <1>4 DEF int

LEMMA BigEndianIs ==
  ASSUME NEW s \in Seq(Int), NEW size \in {4, 8}, Len(s) \in {4, 6}, Len(s) <= size
  PROVE  LET int == Net!BigEndian(s, size) IN
         /\ int \in Seq(Int) /\ Len(int) = size
         /\ \A i \in 1..Len(s) : int[size - Len(s) + i] = s[i]
<1> DEFINE n == IF Len(s) > size THEN size ELSE Len(s)
           Step(f) == [i \in 0..n |-> IF i = 0 THEN Net!Zeros(size) ELSE Tail(f[i - 1]) \o <<s[i]>>]
           result == CHOOSE f : f = Step(f)
           Row(i) == [k \in 1..size |-> IF k + i > size THEN s[k + i - size] ELSE 0]
           rows == [i \in 0..n |-> Row(i)]
<1>1. Net!BigEndian(s, size) = result[n]
  BY DEF Net!BigEndian
<1>2. n = Len(s) /\ n \in 4..6 /\ size \in Nat /\ n <= size
  OBVIOUS
<1> HIDE DEF n
<1>3. ASSUME NEW i \in 0..n
      PROVE  /\ Row(i) \in Seq(Int) /\ Len(Row(i)) = size
             /\ \A k \in 1..size : Row(i)[k] = IF k + i > size THEN s[k + i - size] ELSE 0
  <2>1. \A k \in 1..size : k + i > size => k + i - size \in 1..Len(s)
    BY <1>2
  <2>2. Row(i) \in [1..size -> Int]
    BY <2>1
  <2> HIDE DEF Row
  <2>3. Row(i) \in Seq(Int) /\ Len(Row(i)) = size
    BY <1>2, <2>2, FunctionIsSequence
  <2> QED BY <2>3 DEF Row
<1>4. Net!Zeros(size) = Row(0)
  BY <1>2 DEF Net!Zeros
<1> HIDE DEF Row
<1>5. ASSUME NEW i \in 1..n PROVE Tail(Row(i - 1)) \o <<s[i]>> = Row(i)
  <2>1. PICK before, after \in Seq(Int) :
          /\ before = Row(i - 1) /\ Len(before) = size
          /\ \A k \in 1..size : before[k] = IF k + (i - 1) > size THEN s[k + (i - 1) - size] ELSE 0
          /\ after = Row(i) /\ Len(after) = size
          /\ \A k \in 1..size : after[k] = IF k + i > size THEN s[k + i - size] ELSE 0
    BY <1>2, <1>3
  <2>2. s[i] \in Int /\ Len(before) > 0
    BY <1>2, <2>1
  <2>3. PICK up \in Seq(Int) :
          /\ up = Tail(before) \o <<s[i]>> /\ Len(up) = Len(before) /\ up[Len(before)] = s[i]
          /\ \A k \in 1..Len(before) - 1 : up[k] = before[k + 1]
    BY <2>2, ShiftIs
  <2>4. Len(up) = size /\ up[size] = s[i] /\ \A k \in 1..size - 1 : up[k] = before[k + 1]
    BY <2>1, <2>3
  <2>5. \A k \in 1..size : up[k] = after[k]
    <3>1. ASSUME NEW k \in 1..size - 1 PROVE up[k] = after[k]
      <4>1. k + 1 \in 1..size /\ k \in 1..size /\ (k + 1) + (i - 1) = k + i
        BY <1>2
      <4>2. before[k + 1] = IF k + i > size THEN s[k + i - size] ELSE 0
        BY <2>1, <4>1
      <4>3. after[k] = IF k + i > size THEN s[k + i - size] ELSE 0
        BY <2>1, <4>1
      <4> QED BY <2>4, <4>2, <4>3
    <3>2. up[size] = after[size]
      BY <1>2, <2>1, <2>4
    <3>3. \A k \in 1..size : k \in 1..size - 1 \/ k = size
      BY <1>2
    <3> QED BY <3>1, <3>2, <3>3
  <2>6. up = after
    BY <2>1, <2>4, <2>5, SeqEqual
  <2> QED BY <2>1, <2>3, <2>6
<1>6. rows = Step(rows)
  <2>1. ASSUME NEW i \in 0..n
        PROVE  Row(i) = IF i = 0 THEN Net!Zeros(size) ELSE Tail(rows[i - 1]) \o <<s[i]>>
    <3>1. CASE i = 0
      BY <3>1, <1>4
    <3>2. CASE i # 0
      <4>1. i \in 1..n /\ i - 1 \in 0..n
        BY <3>2, <1>2
      <4> QED BY <3>2, <4>1, <1>5
    <3> QED BY <3>1, <3>2
  <2> QED BY <2>1
<1>7. result = Step(result)
  BY <1>6
<1> HIDE DEF rows, result
<1>8. result[0] = Row(0) /\ \A i \in 1..n : result[i] = Tail(result[i - 1]) \o <<s[i]>>
  <2>1. /\ Step(result)[0] = Net!Zeros(size)
        /\ \A i \in 1..n : Step(result)[i] = Tail(result[i - 1]) \o <<s[i]>>
    BY <1>2
  <2> HIDE DEF Step
  <2> QED BY <1>4, <1>7, <2>1
<1>9. \A i \in 1..n : result[i - 1] = Row(i - 1) => result[i] = Row(i)
  BY <1>5, <1>8
<1>10. result[n] = Row(n)
  <2>1. result[1] = Row(1) /\ result[2] = Row(2) /\ result[3] = Row(3) /\ result[4] = Row(4)
    <3>1. 1 \in 1..n /\ 2 \in 1..n /\ 3 \in 1..n /\ 4 \in 1..n
      BY <1>2
    <3>2. 1 - 1 = 0 /\ 2 - 1 = 1 /\ 3 - 1 = 2 /\ 4 - 1 = 3
      OBVIOUS
    <3> QED BY <1>8, <1>9, <3>1, <3>2
  <2>2. CASE n >= 5
    <3>1. 5 \in 1..n /\ 5 - 1 = 4
      BY <2>2, <1>2
    <3>2. result[5] = Row(5)
      BY <1>9, <2>1, <3>1
    <3>3. n = 6 => result[6] = Row(6)
      <4>1. n = 6 => 6 \in 1..n /\ 6 - 1 = 5
        OBVIOUS
      <4> QED BY <1>9, <3>2, <4>1
    <3>4. n = 5 \/ n = 6
      BY <2>2, <1>2
    <3> QED BY <3>2, <3>3, <3>4
  <2>3. n = 4 \/ n >= 5
    BY <1>2
  <2> QED BY <2>1, <2>2, <2>3
<1>11. n \in 0..n /\ \A i \in 1..n : /\ size - n + i \in 1..size /\ size - n + i + n > size
                                    /\ size - n + i + n - size = i
  BY <1>2
<1>12. Row(n) \in Seq(Int) /\ Len(Row(n)) = size /\ \A i \in 1..n : Row(n)[size - n + i] = s[i]
  BY <1>3, <1>11
<1> QED BY <1>1, <1>2, <1>10, <1>12

-----------------------------------------------------------------------------
LEMMA MeantType ==
  ASSUME AddressInv
  PROVE  /\ meant \in Seq(0..255) /\ Len(meant) \in Nat \ {0} /\ meant \in [1..Len(meant) -> 0..255]
         /\ Len(meant) <= Len(value.octets) /\ value.octets \in Seq(Int)
         /\ \A i \in 1..Len(meant) : meant[i] \in 0..255 /\ Net!Octet(meant[i]) = meant[i]
<1>1. meant \in Seq(0..255) /\ value.octets \in Seq(Int) /\ (Len(meant) = 4 \/ Len(meant) = 6)
  BY DEF AddressInv, AddressTyped
<1>2. Len(meant) <= Len(value.octets)
  <2>1. CASE InText
    BY <1>1, <2>1 DEF InText
  <2>2. CASE InBytes
    BY <1>1, <2>2 DEF InBytes
  <2>3. CASE InInt
    BY <1>1, <2>3 DEF InInt
  <2> QED BY <2>1, <2>2, <2>3 DEF AddressInv
<1>3. meant \in [1..Len(meant) -> 0..255]
  BY <1>1, SequenceIsFunction
<1>4. \A i \in 1..Len(meant) : meant[i] \in 0..255 /\ Net!Octet(meant[i]) = meant[i]
  BY <1>3, OctetOfByte
<1>5. Len(meant) \in Nat \ {0}
  <2>1. Len(meant) = 4 \/ Len(meant) = 6
    BY <1>1
  <2> QED BY <2>1
<1> QED BY <1>1, <1>2, <1>3, <1>4, <1>5

LEMMA LowOfValue ==
  ASSUME AddressInv
  PROVE  /\ Net!Low \in Seq(Int) /\ Len(Net!Low) = Len(meant)
         /\ \A i \in 1..Len(meant) : Net!Low[i] = value.octets[Len(value.octets) - Len(meant) + i]
<1>1. PICK octets \in Seq(Int) : octets = value.octets
  BY MeantType
<1>2. PICK m \in Nat \ {0} : m = Len(meant) /\ m <= Len(octets)
  BY <1>1, MeantType
<1>3. Net!Low = SubSeq(octets, Len(octets) + 1 - m, Len(octets))
  BY <1>1, <1>2 DEF Net!Low
<1> QED BY <1>1, <1>2, <1>3, LowIs

LEMMA AddressInvImplies == AddressInv => Net!AddressIsKept
<1> SUFFICES ASSUME AddressInv PROVE Net!AddressIsKept
  OBVIOUS
<1>1. PICK m \in Nat \ {0}, low \in Seq(Int) :
        /\ m = Len(meant) /\ low = Net!Low /\ Len(low) = m
        /\ \A i \in 1..m : low[i] = value.octets[Len(value.octets) - m + i]
  <2>1. Net!Low \in Seq(Int) /\ Len(meant) \in Nat \ {0}
    BY LowOfValue, MeantType
  <2> QED BY <2>1, LowOfValue
<1>2. meant \in [1..m -> 0..255]
  BY <1>1, MeantType
<1>3. PICK octets : octets = [i \in DOMAIN low |-> Net!Octet(low[i])]
  OBVIOUS
<1>4. DOMAIN octets = 1..m /\ \A i \in 1..m : octets[i] = Net!Octet(low[i])
  BY <1>1, <1>3
<1>5. \A i \in 1..m : i = m - m + i /\ m + 1 - i \in 1..m /\ m - (m + 1 - i) + 1 = i
  BY <1>1
<1>6. \A i \in 1..m : meant[i] \in 0..255 /\ Net!Octet(meant[i]) = meant[i]
  BY <1>1, MeantType
<1>7. \A i \in 1..m : octets[i] = meant[IF value.turned THEN m + 1 - i ELSE i]
  <2>1. CASE InText
    BY <2>1, <1>1, <1>4, <1>5 DEF InText
  <2>2. CASE InBytes
    <3>1. \A i \in 1..m : low[i] = meant[IF value.turned THEN m + 1 - i ELSE i]
      BY <2>2, <1>1, <1>5 DEF InBytes
    <3> QED BY <3>1, <1>4, <1>5, <1>6
  <2>3. CASE InInt
    BY <2>3, <1>1, <1>4, <1>5, <1>6 DEF InInt
  <2> QED BY <2>1, <2>2, <2>3 DEF AddressInv
<1>8. CASE ~value.turned
  <2>1. octets = meant
    BY <1>2, <1>3, <1>4, <1>7, <1>8
  <2> QED BY <1>1, <1>3, <1>8, <2>1 DEF Net!AddressIsKept, AddressInv, InText, InBytes, InInt
<1>9. CASE value.turned
  <2>1. octets \in Seq(Int) /\ Len(octets) = m
    <3>1. octets \in [1..m -> Int]
      <4>1. low \in [1..m -> Int]
        BY <1>1, SequenceIsFunction
      <4>2. DOMAIN low = 1..m /\ \A i \in 1..m : Net!Octet(low[i]) \in Int
        BY <4>1, OctetType
      <4> QED BY <1>3, <4>2
    <3> QED BY <3>1, FunctionIsSequence
  <2>2. Net!Reverse(octets) = [i \in 1..m |-> octets[m - i + 1]]
    BY <2>1 DEF Net!Reverse
  <2>3. \A i \in 1..m : octets[m - i + 1] = meant[i]
    <3>1. \A i \in 1..m : m - i + 1 \in 1..m /\ m + 1 - (m - i + 1) = i
      BY <1>1
    <3> QED BY <1>7, <1>9, <3>1
  <2>4. Net!Reverse(octets) = meant
    BY <1>2, <2>2, <2>3
  <2> QED BY <1>1, <1>3, <1>9, <2>4 DEF Net!AddressIsKept, AddressInv, InText, InBytes, InInt
<1> QED BY <1>8, <1>9 DEF AddressInv, AddressTyped

LEMMA InitAddressInv ==
  ASSUME Segments \subseteq Int, Macs \subseteq [1..6 -> 0..255], Net!Init
  PROVE  AddressInv
<1>1. CASE value \in [form : {"text"}, octets : [1..4 -> Segments], turned : {FALSE}]
  <2>1. PICK octets \in [1..4 -> Int] : octets = value.octets
    BY <1>1
  <2>2. octets \in Seq(Int) /\ Len(octets) = 4
    BY FunctionIsSequence
  <2>3. meant = [i \in 1..4 |-> Net!Octet(octets[i])]
    BY <2>1 DEF Net!Init
  <2>4. PICK n \in Nat : n = 4
    OBVIOUS
  <2>a. meant \in [1..n -> 0..255]
    BY <2>3, <2>4, OctetType
  <2>b. meant \in Seq(0..255) /\ Len(meant) = n
    BY <2>a, FunctionIsSequence
  <2>5. meant \in Seq(0..255) /\ Len(meant) = 4
    BY <2>4, <2>b
  <2>6. AddressTyped
    BY <1>1, <2>1, <2>2, <2>5 DEF AddressTyped
  <2>7. InText
    BY <1>1, <2>1, <2>2, <2>3, <2>5 DEF InText
  <2> QED BY <2>6, <2>7 DEF AddressInv
<1>2. CASE value \in [form : {"bytes"}, octets : Macs, turned : {FALSE}]
  <2>1. PICK octets \in [1..6 -> 0..255] : octets = value.octets
    BY <1>2
  <2>2. octets \in Seq(0..255) /\ octets \in Seq(Int) /\ Len(octets) = 6
    <3>1. octets \in [1..6 -> Int]
      OBVIOUS
    <3> QED BY <3>1, FunctionIsSequence
  <2>3. meant = [i \in 1..6 |-> Net!Octet(octets[i])]
    BY <2>1 DEF Net!Init
  <2>4. meant = octets
    BY <2>3, OctetOfByte
  <2>5. AddressTyped /\ InBytes
    BY <1>2, <2>1, <2>2, <2>4 DEF AddressTyped, InBytes
  <2> QED BY <2>5 DEF AddressInv
<1> QED BY <1>1, <1>2 DEF Net!Init

(* A conversion has only to put the octets in their places.                  *)
LEMMA BecomeText ==
  ASSUME AddressInv, NEW octets \in Seq(Int), Net!Become("text", octets, FALSE),
         Len(meant) = 4, Len(octets) = 4, \A i \in 1..4 : octets[i] = meant[i]
  PROVE  AddressInv'
<1>1. \A i \in 1..4 : Net!Octet(octets[i]) = meant[i]
  BY MeantType
<1>2. value' = [form |-> "text", octets |-> octets, turned |-> FALSE] /\ meant' = meant
  BY DEF Net!Become
<1> QED BY <1>1, <1>2 DEF AddressInv, AddressTyped, InText, Net!Octet

LEMMA BecomeBytes ==
  ASSUME AddressInv, NEW octets \in Seq(Int), NEW turned \in BOOLEAN,
         Net!Become("bytes", octets, turned), Len(octets) = Len(meant),
         \A i \in 1..Len(meant) : octets[i] = meant[IF turned THEN Len(meant) + 1 - i ELSE i]
  PROVE  AddressInv'
<1>1. value' = [form |-> "bytes", octets |-> octets, turned |-> turned] /\ meant' = meant
  BY DEF Net!Become
<1> QED BY <1>1 DEF AddressInv, AddressTyped, InBytes

LEMMA BecomeInt ==
  ASSUME AddressInv, NEW octets \in Seq(Int), Net!Become("int", octets, FALSE),
         NEW m \in Nat, Len(meant) = m, NEW size \in Nat, Len(octets) = size, m <= size,
         size = IF wide' THEN 8 ELSE 4,
         \A i \in 1..m : octets[size - m + i] = meant[i]
  PROVE  AddressInv'
<1>1. value' = [form |-> "int", octets |-> octets, turned |-> FALSE] /\ meant' = meant
  BY DEF Net!Become
<1>2. InInt'
  BY <1>1 DEF InInt
<1> QED BY <1>1, <1>2 DEF AddressInv, AddressTyped

(* From text: what the casts leave of the four numbers.                      *)
LEMMA TextIs ==
  ASSUME AddressInv, value.form = "text"
  PROVE  LET octets == [i \in 1..4 |-> Net!Octet(value.octets[i])] IN
         Len(meant) = 4 /\ octets \in Seq(Int) /\ Len(octets) = 4 /\ \A i \in 1..4 : octets[i] = meant[i]
<1>1. Len(meant) = 4 /\ \A i \in 1..4 : Net!Octet(value.octets[i]) = meant[i] /\ meant[i] \in Int
  <2>1. InText
    BY DEF AddressInv, InText, InBytes, InInt
  <2>2. Len(meant) = 4 /\ \A i \in 1..4 : Net!Octet(value.octets[i]) = meant[i]
    BY <2>1 DEF InText
  <2>3. \A i \in 1..4 : meant[i] \in 0..255
    BY <2>2, MeantType
  <2> QED BY <2>2, <2>3
<1>2. PICK octets : octets = [i \in 1..4 |-> Net!Octet(value.octets[i])]
  OBVIOUS
<1>3. octets \in [1..4 -> Int]
  BY <1>1, <1>2
<1>4. octets \in Seq(Int) /\ Len(octets) = 4
  BY <1>3, FunctionIsSequence
<1>5. \A i \in 1..4 : octets[i] = meant[i]
  BY <1>1, <1>2
<1> QED BY <1>1, <1>2, <1>4, <1>5

LEMMA BytesAre ==
  ASSUME AddressInv, value.form = "bytes"
  PROVE  /\ Len(value.octets) = Len(meant) /\ Len(meant) \in {4, 6}
         /\ \A i \in 1..Len(meant) :
              value.octets[i] = meant[IF value.turned THEN Len(meant) + 1 - i ELSE i]
<1>1. InBytes
  BY DEF AddressInv, InText, InBytes, InInt
<1> QED BY <1>1 DEF InBytes, AddressInv, AddressTyped

LEMMA IntIs ==
  ASSUME AddressInv, value.form = "int"
  PROVE  /\ ~value.turned /\ Len(value.octets) = (IF wide THEN 8 ELSE 4)
         /\ Len(meant) <= Len(value.octets)
         /\ \A i \in 1..Len(meant) : value.octets[Len(value.octets) - Len(meant) + i] = meant[i]
<1>1. InInt
  BY DEF AddressInv, InText, InBytes, InInt
<1> QED BY <1>1 DEF InInt

LEMMA FromTextKeeps ==
  ASSUME AddressInv,
         \/ Net!ConvertIPv4AddressToByteArr
         \/ Net!ConvertIPv4AddressToUInt32
         \/ Net!ConvertIPv4AddressToUInt64
  PROVE  AddressInv'
<1>1. value.form = "text"
  BY DEF Net!ConvertIPv4AddressToByteArr, Net!ConvertIPv4AddressToUInt32, Net!ConvertIPv4AddressToUInt64
<1>2. PICK octets \in Seq(Int) :
        /\ octets = [i \in 1..4 |-> Net!Octet(value.octets[i])]
        /\ Len(meant) = 4 /\ Len(octets) = 4 /\ \A i \in 1..4 : octets[i] = meant[i]
  BY <1>1, TextIs
<1>3. CASE Net!ConvertIPv4AddressToByteArr
  <2>1. Net!Become("bytes", octets, FALSE)
    BY <1>2, <1>3 DEF Net!ConvertIPv4AddressToByteArr
  <2> QED BY <1>2, <2>1, BecomeBytes
<1>4. CASE Net!ConvertIPv4AddressToUInt32
  <2>1. Net!Become("int", octets, FALSE) /\ wide' = FALSE
    BY <1>2, <1>4 DEF Net!ConvertIPv4AddressToUInt32
  <2>2. PICK m, size \in Nat : m = 4 /\ size = 4
    OBVIOUS
  <2>3. Len(meant) = m /\ Len(octets) = size /\ m <= size /\ size = IF wide' THEN 8 ELSE 4
    BY <1>2, <2>1, <2>2
  <2>4. \A i \in 1..m : octets[size - m + i] = meant[i]
    BY <1>2, <2>1, <2>2
  <2> QED BY <2>1, <2>3, <2>4, BecomeInt
<1>5. CASE Net!ConvertIPv4AddressToUInt64
  <2>1. PICK padded \in Seq(Int) :
          /\ padded = Net!Zeros(4) \o octets /\ Len(padded) = 4 + Len(octets)
          /\ \A i \in 1..Len(octets) : padded[4 + i] = octets[i]
    BY PaddedIs
  <2>2. Net!Become("int", padded, FALSE) /\ wide' = TRUE
    BY <1>2, <1>5, <2>1 DEF Net!ConvertIPv4AddressToUInt64
  <2>3. PICK m, size \in Nat : m = 4 /\ size = 8
    OBVIOUS
  <2>4. Len(meant) = m /\ Len(padded) = size /\ m <= size /\ size = IF wide' THEN 8 ELSE 4
    BY <1>2, <2>1, <2>2, <2>3
  <2>5. \A i \in 1..m : padded[size - m + i] = meant[i]
    <3>1. \A i \in 1..m : size - m + i = 4 + i /\ i \in 1..4
      BY <2>3
    <3> QED BY <1>2, <2>1, <2>2, <3>1
  <2> QED BY <2>2, <2>4, <2>5, BecomeInt
<1> QED BY <1>3, <1>4, <1>5

LEMMA FromBytesKeeps ==
  ASSUME AddressInv,
         Net!ConvertByteArr2IPvToAddress \/ Net!IPv4ToUint32 \/ Net!MACToUint64
  PROVE  AddressInv'
<1>1. value.form = "bytes" /\ ~value.turned
  BY DEF Net!ConvertByteArr2IPvToAddress, Net!IPv4ToUint32, Net!MACToUint64
<1>2. PICK octets \in Seq(Int) :
        octets = value.octets /\ Len(octets) = Len(meant) /\ \A i \in 1..Len(meant) : octets[i] = meant[i]
  BY <1>1, BytesAre, MeantType
<1>3. CASE Net!ConvertByteArr2IPvToAddress
  <2>1. Net!Become("text", octets, FALSE) /\ Len(meant) = 4
    BY <1>2, <1>3 DEF Net!ConvertByteArr2IPvToAddress
  <2> QED BY <1>2, <2>1, BecomeText
<1>4. CASE Net!IPv4ToUint32
  <2>1. Len(octets) = 4 /\ Len(meant) = 4
    BY <1>2, <1>4 DEF Net!IPv4ToUint32
  <2>2. octets = [i \in 1..4 |-> octets[i]]
    BY <2>1
  <2>3. Net!Become("int", octets, FALSE) /\ wide' = FALSE
    BY <1>2, <1>4, <2>2 DEF Net!IPv4ToUint32
  <2>4. PICK m, size \in Nat : m = 4 /\ size = 4
    OBVIOUS
  <2>5. Len(meant) = m /\ Len(octets) = size /\ m <= size /\ size = IF wide' THEN 8 ELSE 4
    BY <1>2, <2>1, <2>3, <2>4
  <2>6. \A i \in 1..m : octets[size - m + i] = meant[i]
    BY <1>2, <2>1, <2>3, <2>4
  <2> QED BY <2>3, <2>5, <2>6, BecomeInt
<1>5. CASE Net!MACToUint64
  <2>1. Len(octets) = 6 /\ Len(meant) = 6
    BY <1>2, <1>5 DEF Net!MACToUint64
  <2>2. PICK padded \in Seq(Int) :
          /\ padded = Net!Zeros(2) \o octets /\ Len(padded) = 2 + Len(octets)
          /\ \A i \in 1..Len(octets) : padded[2 + i] = octets[i]
    BY PaddedIs
  <2>3. Net!Become("int", padded, FALSE) /\ wide' = TRUE
    BY <1>2, <1>5, <2>2 DEF Net!MACToUint64
  <2>4. PICK m, size \in Nat : m = 6 /\ size = 8
    OBVIOUS
  <2>5. Len(meant) = m /\ Len(padded) = size /\ m <= size /\ size = IF wide' THEN 8 ELSE 4
    BY <1>2, <2>1, <2>2, <2>3, <2>4
  <2>6. \A i \in 1..m : padded[size - m + i] = meant[i]
    <3>1. \A i \in 1..m : size - m + i = 2 + i /\ i \in 1..6
      BY <2>4
    <3> QED BY <1>2, <2>1, <2>2, <3>1
  <2> QED BY <2>3, <2>5, <2>6, BecomeInt
<1> QED BY <1>3, <1>4, <1>5

LEMMA FromIntKeeps ==
  ASSUME AddressInv, Net!ConvertUIntToIPv4Address \/ Net!WriteMAC
  PROVE  AddressInv'
<1>1. value.form = "int"
  BY DEF Net!ConvertUIntToIPv4Address, Net!WriteMAC
<1>2. CASE Net!ConvertUIntToIPv4Address
  <2>1. PICK low \in Seq(Int) : low = Net!Low /\ Len(low) = Len(meant) /\ \A i \in 1..Len(meant) : low[i] = meant[i]
    BY <1>1, LowOfValue, IntIs
  <2>2. Net!Become("text", low, FALSE) /\ Len(meant) = 4
    BY <1>2, <2>1 DEF Net!ConvertUIntToIPv4Address
  <2> QED BY <2>1, <2>2, BecomeText
<1>3. CASE Net!WriteMAC
  <2>1. Len(meant) = 6 /\ Len(value.octets) = 8 /\ value.octets \in Seq(Int)
        /\ \A i \in 1..6 : value.octets[2 + i] = meant[i]
    <3>1. Len(meant) = 6
      BY <1>3 DEF Net!WriteMAC
    <3>2. Len(value.octets) = 8
      <4>1. PICK n \in {4, 8} : n = Len(value.octets)
        BY <1>1, IntIs
      <4>2. 6 <= n
        BY <1>1, <3>1, <4>1, IntIs
      <4>3. n = 8
        BY <4>2
      <4> QED BY <4>1, <4>3
    <3>3. \A i \in 1..6 : 8 - 6 + i = 2 + i
      OBVIOUS
    <3> QED BY <1>1, <3>1, <3>2, <3>3, IntIs, MeantType
  <2>2. PICK octets \in Seq(Int) : octets = value.octets
    BY <2>1
  <2>3. PICK bytes \in Seq(Int) :
          bytes = SubSeq(Net!Reverse(octets), 1, 6) /\ Len(bytes) = 6 /\ \A i \in 1..6 : bytes[i] = octets[9 - i]
    BY <2>1, <2>2, ReversedIs
  <2>4. \A i \in 1..6 : 7 - i \in 1..6 /\ 2 + (7 - i) = 9 - i /\ 6 + 1 - i = 7 - i
    OBVIOUS
  <2>5. \A i \in 1..6 : bytes[i] = meant[7 - i]
    <3>1. \A i \in 1..6 : octets[9 - i] = meant[7 - i]
      BY <2>1, <2>2, <2>4
    <3> QED BY <2>3, <3>1
  <2>6. Net!Become("bytes", bytes, TRUE)
    BY <1>3, <2>2, <2>3 DEF Net!WriteMAC
  <2>7. PICK m \in Nat : m = 6
    OBVIOUS
  <2>8. Len(meant) = m /\ Len(bytes) = Len(meant) /\ Len(meant) \in {4, 6}
    BY <2>1, <2>3, <2>7
  <2>9. \A i \in 1..Len(meant) : bytes[i] = meant[IF TRUE THEN Len(meant) + 1 - i ELSE i]
    <3>1. \A i \in 1..m : i \in 1..6 /\ m + 1 - i = 7 - i
      BY <2>7
    <3> QED BY <2>5, <2>8, <3>1
  <2> QED BY <2>6, <2>8, <2>9, BecomeBytes
<1> QED BY <1>2, <1>3

LEMMA ConvertByteArrayToIntKeeps == ASSUME AddressInv, Net!ConvertByteArrayToInt PROVE AddressInv'
<1>1. value.form = "bytes"
  BY DEF Net!ConvertByteArrayToInt
<1>2. PICK octets \in Seq(Int) :
        /\ octets = value.octets /\ Len(octets) = Len(meant) /\ Len(octets) \in {4, 6}
        /\ \A i \in 1..Len(meant) :
             octets[i] = meant[IF value.turned THEN Len(meant) + 1 - i ELSE i]
  BY <1>1, BytesAre, MeantType
<1>3. PICK size \in {4, 8} :
        /\ Len(octets) <= size
        /\ Net!Become("int", IF value.turned THEN Net!LittleEndian(octets, size)
                             ELSE Net!BigEndian(octets, size), FALSE)
        /\ wide' = (size = 8)
  BY <1>2 DEF Net!ConvertByteArrayToInt
<1>4. CASE ~value.turned
  <2>1. PICK int \in Seq(Int) :
          /\ int = Net!BigEndian(octets, size) /\ Len(int) = size
          /\ \A i \in 1..Len(octets) : int[size - Len(octets) + i] = octets[i]
    BY <1>2, <1>3, BigEndianIs
  <2>2. Net!Become("int", int, FALSE)
    BY <1>3, <1>4, <2>1
  <2>3. \A i \in 1..Len(meant) : int[size - Len(meant) + i] = meant[i]
    BY <1>2, <1>4, <2>1
  <2>4. size = IF wide' THEN 8 ELSE 4
    BY <1>3
  <2>5. size \in Nat /\ Len(meant) \in Nat /\ Len(meant) <= size
    BY <1>2, <1>3, MeantType
  <2> QED BY <2>1, <2>2, <2>3, <2>4, <2>5, BecomeInt
<1>5. CASE value.turned
  <2>1. PICK int \in Seq(Int) :
          /\ int = Net!LittleEndian(octets, size) /\ Len(int) = size
          /\ \A i \in 1..Len(octets) : int[size - Len(octets) + i] = octets[Len(octets) + 1 - i]
    BY <1>2, <1>3, LittleEndianIs
  <2>2. Net!Become("int", int, FALSE)
    BY <1>3, <1>5, <2>1
  <2>3. \A i \in 1..Len(meant) : int[size - Len(meant) + i] = meant[i]
    <3>1. \A i \in 1..Len(octets) : /\ Len(octets) + 1 - i \in 1..Len(octets)
                                    /\ Len(octets) + 1 - (Len(octets) + 1 - i) = i
      BY <1>2
    <3> QED BY <1>2, <1>5, <2>1, <3>1
  <2>4. size = IF wide' THEN 8 ELSE 4
    BY <1>3
  <2>5. size \in Nat /\ Len(meant) \in Nat /\ Len(meant) <= size
    BY <1>2, <1>3, MeantType
  <2> QED BY <2>1, <2>2, <2>3, <2>4, <2>5, BecomeInt
<1> QED BY <1>4, <1>5 DEF AddressInv, AddressTyped

LEMMA ReverseByteEndianKeeps == ASSUME AddressInv, Net!ReverseByteEndian PROVE AddressInv'
<1>1. value.form = "bytes" /\ value.turned \in BOOLEAN
  BY DEF Net!ReverseByteEndian, AddressInv, AddressTyped
<1>2. PICK octets \in Seq(Int), m \in Nat :
        /\ octets = value.octets /\ m = Len(meant) /\ Len(octets) = m
        /\ \A i \in 1..m : octets[i] = meant[IF value.turned THEN m + 1 - i ELSE i]
  BY <1>1, BytesAre, MeantType
<1>3. \A i \in 1..m : m + 1 - i \in 1..m /\ m + 1 - (m + 1 - i) = i
  BY <1>2
<1>4. PICK back : back = [i \in 1..m |-> octets[m + 1 - i]]
  OBVIOUS
<1>5. back \in Seq(Int) /\ Len(back) = m
  <2>1. octets \in [1..m -> Int]
    BY <1>2, SequenceIsFunction
  <2>2. back \in [1..m -> Int]
    BY <1>3, <1>4, <2>1
  <2> QED BY <2>2, FunctionIsSequence
<1>6. \A i \in 1..m : back[i] = meant[IF ~value.turned THEN m + 1 - i ELSE i]
  BY <1>2, <1>3, <1>4
<1>7. Net!Become("bytes", back, ~value.turned)
  BY <1>2, <1>4 DEF Net!ReverseByteEndian
<1> QED BY <1>1, <1>2, <1>5, <1>6, <1>7, BecomeBytes

LEMMA NextAddressInv ==
  ASSUME AddressInv, [Net!Next]_Net!addressVars PROVE AddressInv'
<1>1. CASE UNCHANGED Net!addressVars
  BY <1>1 DEF Net!addressVars, AddressInv, AddressTyped, InText, InBytes, InInt
<1> QED BY <1>1, FromTextKeeps, FromBytesKeeps, FromIntKeeps, ConvertByteArrayToIntKeeps,
           ReverseByteEndianKeeps DEF Net!Next

-----------------------------------------------------------------------------
(* One part moves at a time; the others stay.                                *)
LEMMA PartSteps ==
  ASSUME [Next]_vars
  PROVE  /\ [Bus!Next]_Bus!vars
         /\ [Sonar!Next]_Sonar!vars
         /\ [Scale!Next]_Scale!scalingVars
         /\ [Net!Next]_Net!addressVars
<1>1. spiVars' = spiVars <=> UNCHANGED Bus!vars
  BY DEF spiVars, Bus!vars, Bus!bus
<1>2. rangingVars' = rangingVars <=> UNCHANGED Sonar!vars
  BY DEF rangingVars, Sonar!vars
<1>3. scalingVars' = scalingVars <=> UNCHANGED Scale!scalingVars
  BY DEF scalingVars, Scale!scalingVars
<1>4. addressVars' = addressVars <=> UNCHANGED Net!addressVars
  BY DEF addressVars, Net!addressVars
<1> QED BY <1>1, <1>2, <1>3, <1>4 DEF Next, vars

(* Whatever accesses of whatever length the tasks interleave, a call that no *)
(* version read and no later call has met reads the registers as they are in *)
(* the chip, or leaves its bytes there (EthernetW5500.c:405).                *)
THEOREM UnmetAccessesAreWhole == Spec => []AccessesAreWhole
<1>1. Init => SpiInv
  BY AccessesFitTheChip, InitSpiInv DEF Init
<1>2. SpiInv /\ [Next]_vars => SpiInv'
  BY AccessesFitTheChip, NextSpiInv, PartSteps
<1>3. SpiInv => AccessesAreWhole
  BY DEF SpiInv, AccessesAreWhole
<1> QED BY <1>1, <1>2, <1>3, PTL DEF Spec

(* However measurements, reads, lock timeouts and the deletion interleave:   *)
(* what a reader is given is a fair filter of the samples of the sensor that *)
(* it asked about, or 0xFFFF for none, or the 0 that also says there is no   *)
(* distance yet (UltraSonic/Module.c:7).                                     *)
THEOREM ReadersGetMeasurements == Spec => []AnswersAreMeasured
<1>1. Init => RangingInv
  BY InitRangingInv DEF Init
<1>2. RangingInv /\ [Next]_vars => RangingInv'
  BY PulsesAreDurations, NextRangingInv, PartSteps
<1>3. RangingInv => AnswersAreMeasured
  BY DEF RangingInv, AnswersAreMeasured
<1> QED BY <1>1, <1>2, <1>3, PTL DEF Spec

(* Whatever percentage a frame commands, out of range too, and however often *)
(* the report is commanded back: the speed drifts by at most one percent a   *)
(* round and never turns round, and the motor is either stopped or outside   *)
(* its dead band (AppUtils.c:76).                                            *)
THEOREM SpeedsDriftSlowly == Spec => []SpeedsAreKept
<1>1. Init => SpeedsInv
  BY InitSpeedsInv DEF Init
<1>2. SpeedsInv /\ [Next]_vars => SpeedsInv'
  BY PercentsAreNumbers, NextSpeedsInv, PartSteps
<1>3. SpeedsInv => SpeedsAreKept
  BY DEF SpeedsInv, SpeedsAreKept
<1> QED BY <1>1, <1>2, <1>3, PTL DEF Spec

(* Whatever the text, the MAC address and the conversions, in any number:    *)
(* the octets stay those meant, in their order, reversed only where          *)
(* ReverseByteEndian or the chip's copy of the MAC has them so               *)
(* (Network.c:52-301).  The chip's copy always is: Module.c:374-375 writes   *)
(* it reversed, and nothing turns it back.                                   *)
THEOREM ConversionsKeepAddresses == Spec => []AddressIsKept
<1>1. Init => AddressInv
  BY AddressesAreBytes, InitAddressInv DEF Init
<1>2. AddressInv /\ [Next]_vars => AddressInv'
  BY NextAddressInv, PartSteps
<1>3. AddressInv => AddressIsKept
  BY AddressInvImplies DEF AddressIsKept
<1> QED BY <1>1, <1>2, <1>3, PTL DEF Spec
=============================================================================
