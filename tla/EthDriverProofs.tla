--------------------------- MODULE EthDriverProofs ---------------------------
(***************************************************************************)
(* Proofs about EthDriver for any number of senders, any size of the pools *)
(* and of the chip's buffer, any number of attempts and of datagrams.      *)
(***************************************************************************)
EXTENDS EthDriver, TLAPS

\* The communication task reads SIR, or acknowledges what it has read of it,
\* before it can sleep.
WillClear == cpc \in {"readSIR", "read", "ack", "clear"}

\* The RECV bit never stays set unnoticed: its edge is on its way to the task,
\* or the task is on its way to the bit.
RecvNoticed == recv => irq \/ cnote \/ WillClear

\* The RECV bit is set only while the chip holds a datagram, except between
\* the RECV command and the write to Sn_IR.
RecvMeansData ==
  /\ recv /\ cpc # "clear" => chip > 0
  /\ cpc = "read" => chip > 0

\* The communication task drains TxPool before it can sleep.
WillDrain == cpc \notin {"count", "sleep"}

\* Whoever pushed into TxPool while the task may miss it has yet to notify it.
TxNoticed ==
  tx > 0 =>
    \/ cnote \/ irq \/ WillDrain
    \/ mpc = "notify"
    \/ \E s \in Senders : spc[s] = "notify"

EthInv == TypeOK /\ RecvNoticed /\ RecvMeansData /\ TxNoticed /\ RxNotStranded
-----------------------------------------------------------------------------
LEMMA Sizes ==
  /\ RxSlots \in Nat /\ RxSlots > 0
  /\ TxSlots \in Nat /\ TxSlots > 0
  /\ ChipSlots \in Nat /\ ChipSlots > 0
  /\ MaxAttempt \in Nat /\ MaxArrivals \in Nat
  BY EthConstants

USE Sizes DEF chipVars, commVars, mainVars

LEMMA InitEthInv == Init => EthInv
<1> SUFFICES ASSUME Init PROVE EthInv
  OBVIOUS
<1>1. TypeOK
  <2>1. \A n \in {MaxArrivals, ChipSlots, RxSlots, TxSlots, MaxAttempt} : 0 \in 0 .. n
    OBVIOUS
  <2> QED BY <2>1 DEF Init, TypeOK
<1>2. RecvNoticed /\ RecvMeansData /\ TxNoticed /\ RxNotStranded
  BY DEF Init, RecvNoticed, RecvMeansData, TxNoticed, RxNotStranded, WillDrain
<1> QED BY <1>1, <1>2 DEF EthInv

LEMMA ChipKeeps == EthInv /\ (Arrive \/ Chip) => EthInv'
<1> SUFFICES ASSUME EthInv, Arrive \/ Chip PROVE EthInv'
  OBVIOUS
<1> USE DEF EthInv, TypeOK, RecvNoticed, RecvMeansData, TxNoticed,
            RxNotStranded, WillClear, WillDrain
<1>1. CASE Arrive
  <2>1. TypeOK'
    BY <1>1 DEF Arrive
  <2>2. RecvNoticed'
    BY <1>1 DEF Arrive
  <2>3. RecvMeansData'
    BY <1>1 DEF Arrive
  <2>4. TxNoticed'
    BY <1>1 DEF Arrive
  <2>5. RxNotStranded'
    BY <1>1 DEF Arrive
  <2> QED BY <2>1, <2>2, <2>3, <2>4, <2>5
<1>2. CASE ChipSent
  <2>1. TypeOK'
    BY <1>2 DEF ChipSent
  <2>2. RecvNoticed' /\ RecvMeansData'
    BY <1>2 DEF ChipSent
  <2>3. TxNoticed'
    BY <1>2 DEF ChipSent
  <2>4. RxNotStranded'
    BY <1>2 DEF ChipSent
  <2> QED BY <2>1, <2>2, <2>3, <2>4
<1>3. CASE Isr
  <2>1. TypeOK'
    BY <1>3 DEF Isr
  <2>2. RecvNoticed' /\ RecvMeansData'
    BY <1>3 DEF Isr
  <2>3. TxNoticed'
    BY <1>3 DEF Isr
  <2>4. RxNotStranded'
    BY <1>3 DEF Isr
  <2> QED BY <2>1, <2>2, <2>3, <2>4
<1> QED BY <1>1, <1>2, <1>3 DEF Chip

LEMMA CommKeeps == EthInv /\ Comm => EthInv'
<1> SUFFICES ASSUME EthInv, Comm PROVE EthInv'
  OBVIOUS
<1> USE DEF EthInv, TypeOK, RecvNoticed, RecvMeansData, TxNoticed,
            RxNotStranded, WillClear, WillDrain
<1>1. CASE Wake
  <2>1. TypeOK'
    <3>1. att' \in 0 .. MaxAttempt
      BY <1>1 DEF Wake
    <3> QED BY <1>1, <3>1 DEF Wake
  <2>2. RecvNoticed'
    BY <1>1 DEF Wake
  <2>3. RecvMeansData'
    BY <1>1 DEF Wake
  <2>4. TxNoticed'
    BY <1>1 DEF Wake
  <2>5. RxNotStranded'
    BY <1>1 DEF Wake
  <2> QED BY <2>1, <2>2, <2>3, <2>4, <2>5
<1>2. CASE ReadSIR
  BY <1>2 DEF ReadSIR
<1>3. CASE Read
  BY <1>3 DEF Read, RxFull
<1>4. CASE Ack
  BY <1>4 DEF Ack
<1>5. CASE Clear
  BY <1>5 DEF Clear
<1>6. CASE Again
  BY <1>6 DEF Again
<1>7. CASE TakeTx \/ DrainedTx
  BY <1>7 DEF TakeTx, DrainedTx
<1>8. CASE NoLink \/ Send \/ SendAgain \/ SendEnd
  BY <1>8 DEF NoLink, Send, SendAgain, SendEnd
<1>9. CASE Count
  <2>1. TypeOK'
    <3>1. mnote' \in BOOLEAN
      BY <1>9 DEF Count
    <3> QED BY <1>9, <3>1 DEF Count
  <2>2. RecvNoticed'
    BY <1>9 DEF Count
  <2>3. RecvMeansData'
    BY <1>9 DEF Count
  <2>4. TxNoticed'
    BY <1>9 DEF Count
  <2>5. RxNotStranded'
    <3>1. CASE rx = 0
      BY <1>9, <3>1 DEF Count
    <3>2. CASE rx > 0
      <4>1. mnote'
        BY <1>9, <3>2 DEF Count
      <4> QED BY <4>1
    <3> QED BY <3>1, <3>2
  <2> QED BY <2>1, <2>2, <2>3, <2>4, <2>5
<1> QED BY <1>1, <1>2, <1>3, <1>4, <1>5, <1>6, <1>7, <1>8, <1>9 DEF Comm

LEMMA MainKeeps == EthInv /\ Main => EthInv'
<1> SUFFICES ASSUME EthInv, Main PROVE EthInv'
  OBVIOUS
<1> USE DEF EthInv, TypeOK, RecvNoticed, RecvMeansData, TxNoticed,
            RxNotStranded, WillClear, WillDrain
<1>1. CASE TakeRx
  BY <1>1 DEF TakeRx
<1>2. CASE Reply
  BY <1>2 DEF Reply, TxFull
<1>3. CASE ReplyNotify
  BY <1>3 DEF ReplyNotify
<1>4. CASE NoReply \/ ReleaseRx
  BY <1>4 DEF NoReply, ReleaseRx
<1>5. CASE DrainedRx \/ WakeMain
  <2>1. TypeOK'
    <3>1. CASE DrainedRx
      BY <3>1 DEF DrainedRx
    <3>2. CASE WakeMain
      BY <3>2 DEF WakeMain
    <3> QED BY <1>5, <3>1, <3>2
  <2>2. RecvNoticed'
    BY <1>5 DEF DrainedRx, WakeMain
  <2>3. RecvMeansData'
    BY <1>5 DEF DrainedRx, WakeMain
  <2>4. TxNoticed'
    BY <1>5 DEF DrainedRx, WakeMain
  <2>5. RxNotStranded'
    BY <1>5 DEF DrainedRx, WakeMain
  <2> QED BY <2>1, <2>2, <2>3, <2>4, <2>5
<1> QED BY <1>1, <1>2, <1>3, <1>4, <1>5 DEF Main

LEMMA SenderKeeps ==
  ASSUME EthInv, NEW s \in Senders, Push(s) \/ Notify(s) PROVE EthInv'
<1> USE DEF EthInv, TypeOK, RecvNoticed, RecvMeansData, TxNoticed,
            RxNotStranded, WillClear, WillDrain
<1>1. CASE Push(s)
  <2>1. tx' \in 0 .. TxSlots /\ spc'[s] = "notify"
    BY <1>1 DEF Push, TxFull
  <2> QED BY <1>1, <2>1 DEF Push
<1>2. CASE Notify(s)
  BY <1>2 DEF Notify
<1> QED BY <1>1, <1>2

LEMMA NextEthInv == EthInv /\ [Next]_vars => EthInv'
<1>1. EthInv /\ UNCHANGED vars => EthInv'
  BY DEF vars, EthInv, TypeOK, RecvNoticed, RecvMeansData, TxNoticed,
         RxNotStranded, WillClear, WillDrain
<1> QED BY <1>1, ChipKeeps, CommKeeps, MainKeeps, SenderKeeps DEF Next

LEMMA EthInvariant == Spec => []EthInv
  BY InitEthInv, NextEthInv, PTL DEF Spec
-----------------------------------------------------------------------------
(* Every variable of the Ethernet path keeps its type; in particular neither *)
(* pool nor the chip's buffer ever holds more than it has room for.          *)
THEOREM EthTypeCorrect == Spec => []TypeOK
  BY EthInvariant, PTL DEF EthInv

(* W5500_TaskComm_GetPacket never falls asleep with INT low, although its    *)
(* ISR sees only edges and Sn_IR is cleared long after SIR was read.         *)
THEOREM ReceptionGoesOn == Spec => []InterruptSeen
<1>1. EthInv => InterruptSeen
  BY DEF EthInv, RecvNoticed, InterruptSeen, CommAsleep, WillClear
<1> QED BY <1>1, EthInvariant, PTL

(* However the pushes of the senders and of Eth_Runtime's replies fall       *)
(* between the last look into TxPool and the sleep, nothing is left there.   *)
THEOREM SendersAreServed == Spec => []TxNotStranded
<1>1. EthInv => TxNotStranded
  BY DEF EthInv, TypeOK, TxNoticed, TxNotStranded, CommAsleep, WillDrain
<1> QED BY <1>1, EthInvariant, PTL

(* Eth_Runtime never sleeps on a received packet that no notification is on  *)
(* its way for, whatever it was doing when the last one was given.           *)
THEOREM ReceivedIsTold == Spec => []RxNotStranded
  BY EthInvariant, PTL DEF EthInv

(* A datagram is read out of the chip only if there is one.                  *)
THEOREM ReadsAreReal == Spec => []NoGhostRead
<1>1. EthInv => NoGhostRead
  BY DEF EthInv, RecvMeansData, NoGhostRead
<1> QED BY <1>1, EthInvariant, PTL
=============================================================================
