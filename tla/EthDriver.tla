------------------------------ MODULE EthDriver ------------------------------
(***************************************************************************)
(* The Ethernet path of the ECU once it has started                        *)
(* (components/AppComm/EthernetW5500/Module.c):                            *)
(*                                                                         *)
(*   W5500 chip     queues the datagrams it receives for socket 1, raises  *)
(*                  the RECV bit and pulls the INT pin; sends on command;  *)
(*   ISR            on a falling edge of INT, notifies the next task;      *)
(*   W5500_TaskComm_GetPacket                                              *)
(*                  reads datagrams from the chip into RxPool, drains      *)
(*                  TxPool into the chip, then notifies Eth_Runtime;       *)
(*   Eth_Runtime    drains RxPool, each packet through the callback, which *)
(*                  may reply through TxPool;                              *)
(*   Senders        the tasks that call Eth_SendUDPPacket.                 *)
(*                                                                         *)
(* The tasks meet in the two pools and in the task notifications.  A pool  *)
(* is here the number of its READY packets: PacketPool shows that its      *)
(* users see it change one whole packet at a time, and that with one       *)
(* producer and one consumer (RxPool) an answer "empty" or "full" is true. *)
(***************************************************************************)
EXTENDS Integers

CONSTANTS
  Senders,      \* tasks that send datagrams
  RxSlots,      \* slots of RxPool
  TxSlots,      \* slots of TxPool
  ChipSlots,    \* datagrams that fit in the chip's receive buffer
  MaxAttempt,   \* further reads of SIR once it is clear
  MaxArrivals   \* bound: datagrams the network delivers to the chip

ASSUME EthConstants ==
  /\ {RxSlots, TxSlots, ChipSlots} \subseteq Nat \ {0}
  /\ {MaxAttempt, MaxArrivals} \subseteq Nat

VARIABLES
  arrived,  \* datagrams delivered so far
  chip,     \* datagrams in the chip's receive buffer
  recv,     \* Sn_IR(RECV) of socket 1; it is SIR, and INT is low while it is set
  txcmd,    \* what the chip shows of the SEND command
  irq,      \* an edge of INT the ISR has not served
  rx, tx,   \* READY packets in RxPool, TxPool
  cpc, seen, att,   \* W5500_TaskComm_GetPacket, its SIR and its Attempt
  cnote,    \* its notification value is not zero
  mpc,      \* Eth_Runtime
  mnote,    \* its notification value is not zero
  spc       \* spc[s]: sender s

chipVars == <<arrived, chip, recv, txcmd, irq>>
commVars == <<cpc, seen, att>>
mainVars == <<mpc>>
vars == <<chipVars, rx, tx, commVars, cnote, mainVars, mnote, spc>>

Init ==
  /\ arrived = 0 /\ chip = 0 /\ recv = FALSE /\ txcmd = "idle" /\ irq = FALSE
  /\ rx = 0 /\ tx = 0
  /\ cpc = "sleep" /\ seen = FALSE /\ att = 0 /\ cnote = FALSE
  /\ mpc = "drain" /\ mnote = FALSE
  /\ spc = [s \in Senders |-> "idle"]

\* A packet being read keeps its slot.
RxFull == rx + (IF mpc = "drain" \/ mpc = "sleep" THEN 0 ELSE 1) >= RxSlots
TxFull == tx + (IF cpc \in {"send", "wait"} THEN 1 ELSE 0) >= TxSlots

-----------------------------------------------------------------------------
(* The chip and the ISR.                                                   *)

\* The RECV bit is set; INT falls only if it was clear.
Arrive ==
  /\ arrived < MaxArrivals /\ chip < ChipSlots
  /\ arrived' = arrived + 1
  /\ chip' = chip + 1
  /\ recv' = TRUE
  /\ irq'  = (irq \/ ~recv)
  /\ UNCHANGED <<txcmd, rx, tx, commVars, cnote, mainVars, mnote, spc>>

ChipSent ==
  /\ txcmd = "sending"
  /\ txcmd' \in {"sent", "timeout"}
  /\ UNCHANGED <<arrived, chip, recv, irq, rx, tx, commVars, cnote, mainVars,
                 mnote, spc>>

\* W5500_IsrHandler.
Isr ==
  /\ irq
  /\ irq' = FALSE
  /\ cnote' = TRUE
  /\ UNCHANGED <<arrived, chip, recv, txcmd, rx, tx, commVars, mainVars, mnote,
                 spc>>

-----------------------------------------------------------------------------
(* W5500_TaskComm_GetPacket.                                               *)

Wake ==
  /\ cpc = "sleep" /\ cnote
  /\ cnote' = FALSE
  /\ att' = 0
  /\ cpc' = "readSIR"
  /\ UNCHANGED <<chipVars, rx, tx, seen, mainVars, mnote, spc>>

\* Only this task clears RECV: Sn_IR, read right after SIR, says the same.
ReadSIR ==
  /\ cpc = "readSIR"
  /\ seen' = recv
  /\ cpc' = IF recv THEN "read" ELSE "again"
  /\ UNCHANGED <<chipVars, rx, tx, att, cnote, mainVars, mnote, spc>>

\* One datagram is read and pushed; if RxPool is full, or the datagram is
\* empty, it is gone.
Read ==
  /\ cpc = "read"
  /\ rx' \in {rx} \cup (IF RxFull THEN {} ELSE {rx + 1})
  /\ cpc' = "ack"
  /\ UNCHANGED <<chipVars, tx, seen, att, cnote, mainVars, mnote, spc>>

\* Sn_RX_RD moves past it: the RECV command frees its room in the chip.
Ack ==
  /\ cpc = "ack"
  /\ chip' = IF chip = 0 THEN 0 ELSE chip - 1
  /\ cpc' = "clear"
  /\ UNCHANGED <<arrived, recv, txcmd, irq, rx, tx, seen, att, cnote, mainVars,
                 mnote, spc>>

\* Mutant: the RECV bit is not cleared.
Clear_keeps ==
  /\ cpc = "clear"
  /\ cpc' = "again"
  /\ UNCHANGED <<chipVars, rx, tx, seen, att, cnote, mainVars, mnote, spc>>

\* Sn_IR = 0xFF: every bit is cleared, whatever arrived since it was read.
Clear ==
  /\ cpc = "clear"
  /\ recv' = FALSE
  /\ cpc' = "again"
  /\ UNCHANGED <<arrived, chip, txcmd, irq, rx, tx, seen, att, cnote, mainVars,
                 mnote, spc>>

\* Mutant: one attempt too many.
Again_offByOne ==
  /\ cpc = "again"
  /\ IF seen \/ att <= MaxAttempt
     THEN /\ cpc' = "readSIR"
          /\ att' = IF seen THEN att ELSE att + 1
     ELSE cpc' = "drain" /\ att' = att
  /\ UNCHANGED <<chipVars, rx, tx, seen, cnote, mainVars, mnote, spc>>

\* while (SIR || (Attempt++ < MaxAttempt))
Again ==
  /\ cpc = "again"
  /\ IF seen \/ att < MaxAttempt
     THEN /\ cpc' = "readSIR"
          /\ att' = IF seen THEN att ELSE att + 1
     ELSE cpc' = "drain" /\ att' = att
  /\ UNCHANGED <<chipVars, rx, tx, seen, cnote, mainVars, mnote, spc>>

TakeTx ==
  /\ cpc = "drain" /\ tx > 0
  /\ tx' = tx - 1
  /\ cpc' = "send"
  /\ UNCHANGED <<chipVars, rx, seen, att, cnote, mainVars, mnote, spc>>

DrainedTx ==
  /\ cpc = "drain" /\ tx = 0
  /\ cpc' = "count"
  /\ UNCHANGED <<chipVars, rx, tx, seen, att, cnote, mainVars, mnote, spc>>

\* W5500_TaskComm_SocketNSendUDP: without a link the packet is dropped, else
\* the SEND command is issued and waited for.  Two waits without a bound come
\* first, for the command register and for room in the chip (Module.c:141-149):
\* they are part of the step, which assumes that they end.
NoLink ==
  /\ cpc = "send"
  /\ cpc' = "drain"
  /\ UNCHANGED <<chipVars, rx, tx, seen, att, cnote, mainVars, mnote, spc>>

Send ==
  /\ cpc = "send"
  /\ txcmd' = "sending"
  /\ cpc' = "wait"
  /\ UNCHANGED <<arrived, chip, recv, irq, rx, tx, seen, att, cnote, mainVars,
                 mnote, spc>>

\* SEND_OK, but Sn_TX_RD did not follow: the command is issued again.
SendAgain ==
  /\ cpc = "wait" /\ txcmd = "sent"
  /\ txcmd' = "sending"
  /\ UNCHANGED <<arrived, chip, recv, irq, rx, tx, commVars, cnote, mainVars,
                 mnote, spc>>

\* Mutant: one packet is sent per wake-up.
SendEnd_one ==
  /\ cpc = "wait" /\ txcmd \in {"sent", "timeout"}
  /\ txcmd' = "idle"
  /\ cpc' = "count"
  /\ UNCHANGED <<arrived, chip, recv, irq, rx, tx, seen, att, cnote, mainVars,
                 mnote, spc>>

SendEnd ==
  /\ cpc = "wait" /\ txcmd \in {"sent", "timeout"}
  /\ txcmd' = "idle"
  /\ cpc' = "drain"
  /\ UNCHANGED <<arrived, chip, recv, irq, rx, tx, seen, att, cnote, mainVars,
                 mnote, spc>>

\* Mutants: the last packet is not counted; notifications that came while the
\* task was awake are thrown away.
Count_offByOne ==
  /\ cpc = "count"
  /\ mnote' = (mnote \/ rx > 1)
  /\ cpc' = "sleep"
  /\ UNCHANGED <<chipVars, rx, tx, seen, att, cnote, mainVars, spc>>

Count_forgets ==
  /\ cpc = "count"
  /\ mnote' = (mnote \/ rx > 0)
  /\ cnote' = FALSE
  /\ cpc' = "sleep"
  /\ UNCHANGED <<chipVars, rx, tx, seen, att, mainVars, spc>>

Count ==
  /\ cpc = "count"
  /\ mnote' = (mnote \/ rx > 0)
  /\ cpc' = "sleep"
  /\ UNCHANGED <<chipVars, rx, tx, seen, att, cnote, mainVars, spc>>

-----------------------------------------------------------------------------
(* Eth_Runtime.                                                            *)

TakeRx ==
  /\ mpc = "drain" /\ rx > 0
  /\ rx' = rx - 1
  /\ mpc' = "process"
  /\ UNCHANGED <<chipVars, tx, commVars, cnote, mnote, spc>>

\* The callback, or the response function, sends a datagram (it notifies even
\* if TxPool was full)...
Reply ==
  /\ mpc = "process"
  /\ tx' = IF TxFull THEN tx ELSE tx + 1
  /\ mpc' = "notify"
  /\ UNCHANGED <<chipVars, rx, commVars, cnote, mnote, spc>>

ReplyNotify ==
  /\ mpc = "notify"
  /\ cnote' = TRUE
  /\ mpc' = "release"
  /\ UNCHANGED <<chipVars, rx, tx, commVars, mnote, spc>>

\* ... or does not.
NoReply ==
  /\ mpc = "process"
  /\ mpc' = "release"
  /\ UNCHANGED <<chipVars, rx, tx, commVars, cnote, mnote, spc>>

ReleaseRx ==
  /\ mpc = "release"
  /\ mpc' = "drain"
  /\ UNCHANGED <<chipVars, rx, tx, commVars, cnote, mnote, spc>>

DrainedRx ==
  /\ mpc = "drain" /\ rx = 0
  /\ mpc' = "sleep"
  /\ UNCHANGED <<chipVars, rx, tx, commVars, cnote, mnote, spc>>

\* Notified, or WAEKUP_CYCLE_TIME (500 s) is over.
WakeMain ==
  /\ mpc = "sleep"
  /\ mnote' = FALSE
  /\ mpc' = "drain"
  /\ UNCHANGED <<chipVars, rx, tx, commVars, cnote, spc>>

-----------------------------------------------------------------------------
(* Eth_SendUDPPacket.  (A push into a full pool changes nothing.)          *)

Push(s) ==
  /\ spc[s] = "idle" /\ ~TxFull
  /\ tx' = tx + 1
  /\ spc' = [spc EXCEPT ![s] = "notify"]
  /\ UNCHANGED <<chipVars, rx, commVars, cnote, mainVars, mnote>>

\* Mutant: the communication task is not told.
Notify_not(s) ==
  /\ spc[s] = "notify"
  /\ spc' = [spc EXCEPT ![s] = "idle"]
  /\ UNCHANGED <<chipVars, rx, tx, commVars, cnote, mainVars, mnote>>

Notify(s) ==
  /\ spc[s] = "notify"
  /\ cnote' = TRUE
  /\ spc' = [spc EXCEPT ![s] = "idle"]
  /\ UNCHANGED <<chipVars, rx, tx, commVars, mainVars, mnote>>

-----------------------------------------------------------------------------
Chip == ChipSent \/ Isr
Comm ==
  \/ Wake \/ ReadSIR \/ Read \/ Ack \/ Clear \/ Again
  \/ TakeTx \/ DrainedTx \/ NoLink \/ Send \/ SendAgain \/ SendEnd
  \/ Count
Main ==
  TakeRx \/ Reply \/ ReplyNotify \/ NoReply \/ ReleaseRx \/ DrainedRx \/ WakeMain

Next ==
  \/ Arrive \/ Chip \/ Comm \/ Main
  \/ \E s \in Senders : Push(s) \/ Notify(s)

Spec == Init /\ [][Next]_vars

\* The tasks run (two cores, preemptive), the chip answers each SEND command
\* with SEND_OK or TIMEOUT, and Sn_TX_RD does not fail to follow for ever.  That
\* Eth_Runtime wakes up for lack of a notification is not counted upon.
Fairness ==
  /\ WF_vars(ChipSent) /\ WF_vars(Isr)
  /\ WF_vars(Comm) /\ SF_vars(SendEnd)
  /\ WF_vars(Main /\ (mpc = "sleep" => mnote))
  /\ \A s \in Senders : WF_vars(Notify(s))

FairSpec == Spec /\ Fairness

-----------------------------------------------------------------------------
TypeOK ==
  /\ arrived \in 0 .. MaxArrivals
  /\ chip \in 0 .. ChipSlots
  /\ recv \in BOOLEAN /\ irq \in BOOLEAN
  /\ txcmd \in {"idle", "sending", "sent", "timeout"}
  /\ rx \in 0 .. RxSlots /\ tx \in 0 .. TxSlots
  /\ cpc \in {"sleep", "readSIR", "read", "ack", "clear", "again", "drain",
              "send", "wait", "count"}
  /\ seen \in BOOLEAN /\ att \in 0 .. MaxAttempt
  /\ cnote \in BOOLEAN /\ mnote \in BOOLEAN
  /\ mpc \in {"drain", "process", "notify", "release", "sleep"}
  /\ spc \in [Senders -> {"idle", "notify"}]

\* The communication task is asleep and nobody is about to wake it.
CommAsleep == cpc = "sleep" /\ ~cnote /\ ~irq

\* The ISR sees edges of INT, not its level: the task must never fall asleep
\* with INT low, for no edge would come and reception would be over.
InterruptSeen == CommAsleep => ~recv

\* No packet waits in TxPool for a task that sleeps.
TxNotStranded ==
  CommAsleep /\ mpc # "notify" /\ (\A s \in Senders : spc[s] = "idle") => tx = 0

\* No received packet waits in RxPool for the 500 s timeout of Eth_Runtime.
RxNotStranded == cpc = "sleep" /\ mpc = "sleep" /\ ~mnote => rx = 0

\* A datagram is read only if there is one: a header read from an empty buffer
\* would give a length, and a new read pointer, out of old bytes.
NoGhostRead == cpc = "read" => chip > 0

\* docs/SequenceDiagram_ReadPacket.mmd: in burst traffic the task loops and
\* reads the next datagram before it sleeps.
BurstRead == CommAsleep => chip = 0

\* What is queued is handed on, once the network pauses.
TxLeaves  == tx > 0 ~> cpc = "send"

\* So is what was received, by the notification alone and not by the 500 s after
\* which Eth_Runtime looks by itself, provided that the communication task gets
\* done with what the senders push: it notifies only then.
RxHandled == []<>(cpc = "sleep") => (rx > 0 ~> mpc = "process")
=============================================================================
