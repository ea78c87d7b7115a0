---------------------------- MODULE StartUpProofs ----------------------------
(***************************************************************************)
(* Proofs about StartUp for any set of enabled services, any last level    *)
(* above the highest gate, any hardware that may be missing and any number *)
(* of datagrams and packets.                                               *)
(***************************************************************************)
EXTENDS StartUp, TLAPS

EthStates == [lock : BOOLEAN, isr : BOOLEAN, task : BOOLEAN, status : 0..2]

Places == {"start", "none", "sleep", "move", "cas", "run", "gate", "pools",
           "create", "chip", "version", "task", "deleted"}

(* Every packet in TxPool was pushed, no task has loaded a level that is yet *)
(* to come, and nothing has happened before app_main.                        *)
Bounded ==
  /\ queued <= pushes
  /\ \A t \in Tasks : loaded[t] <= level
  /\ pc[AppInit] = "start" => pc = PowerOff /\ level = 0 /\ queued = 0

BoundedInv == TypeOK /\ EveryMoveCounts /\ Bounded

(* Which steps a task can be at.                                             *)
OnRoute ==
  /\ pc[AppInit] \in {"start", "sleep", "move", "cas", "run"}
  /\ pc["Ethernet"] \notin {"start", "sleep"}
  /\ \A s \in Services \ {"Ethernet"} :
       pc[s] \in {"none", "gate", "create", "move", "cas", "run", "deleted"}
  /\ \A s \in Services \ Enabled : pc[s] = "none"
  /\ pc[AppInit] # "start" => \A s \in Enabled : pc[s] # "none"

(* Eth_Runtime has yet to reset the pools.                                   *)
PoolsPending == "Ethernet" \in Enabled /\ pc["Ethernet"] \in {"none", "gate", "pools"}

(* The moves that the services behind Eth_Runtime's own gate have made: of   *)
(* Motor and Location, the configuration enables one.                        *)
Moved(s) == IF pc[s] = "run" THEN 1 ELSE 0
ByServices == Moved("Motor") + Moved("Location")

(* Until then AppInit cannot have moved the level more than twice, for the   *)
(* second of its moves opens Eth_Runtime's gate, and it does not wake before *)
(* Eth_Runtime has passed it.  With one move of a service, the level is at   *)
(* most 3, which keeps the senders at their gate and TxPool empty.           *)
SendersHeld ==
  PoolsPending =>
    /\ queued = 0
    /\ \A s \in {"HeartBeat", "Test", "UltraSonic"} : pc[s] \in {"none", "gate"}
    /\ pc[AppInit] # "run"
    /\ pc[AppInit] = "start" => level = 0
    /\ pc[AppInit] \in {"move", "cas"} => level - ByServices \in {0, 1}
    /\ pc[AppInit] = "sleep" => level - ByServices \in {1, 2}

StartInv == BoundedInv /\ OnRoute /\ SendersHeld /\ PoolsReady
-----------------------------------------------------------------------------
LEMMA Constants ==
  /\ Enabled \subseteq Services /\ Done \in Nat /\ Done > 4
  /\ MaxArrivals \in Nat /\ MaxPushes \in Nat
  BY StartUpAssumption

USE Constants DEF levels, world, Goto, Tasks, Services, AppInit, Senders

(* A task leaves GlobalInit_MoveNextLevel for its body; AppInit sleeps until *)
(* the level is at its end.                                                  *)
LEMMA AfterMove ==
  ASSUME NEW t \in Tasks
  PROVE  /\ After(t) \in {"run", "sleep"}
         /\ t # AppInit => After(t) = "run"
         /\ t = AppInit /\ level' < Done => After(t) = "sleep"
  BY DEF After

LEMMA AfterGate ==
  ASSUME TypeOK, NEW s \in Services, PassGate(s)
  PROVE  \E step \in {"pools", "create", "move", "run"} :
           /\ pc' = [pc EXCEPT ![s] = step]
           /\ step = "pools" <=> s = "Ethernet"
  BY DEF PassGate

LEMMA InitStartInv == Init => StartInv
<1> SUFFICES ASSUME Init PROVE StartInv
  OBVIOUS
<1>1. TypeOK
  <2>1. eth \in EthStates
    BY DEF Init, NoEth, EthStates
  <2>2. pc \in [Tasks -> Places] /\ loaded \in [Tasks -> 0..Done]
    BY DEF Init, PowerOff, Places
  <2>3. level \in 0..Done /\ moves \in 0..Done /\ queued \in 0..MaxPushes
        /\ pushes \in 0..MaxPushes /\ arrivals \in 0..MaxArrivals
    BY DEF Init
  <2>4. chip \in {"dead", "quiet", "open"} /\ broken \subseteq Broken
        /\ lost \in BOOLEAN /\ fault \in BOOLEAN
    BY DEF Init
  <2> QED BY <2>1, <2>2, <2>3, <2>4 DEF TypeOK, Places, EthStates
<1>2. EveryMoveCounts /\ Bounded
  BY DEF Init, EveryMoveCounts, Bounded, PowerOff
<1>3. OnRoute
  BY DEF Init, OnRoute, PowerOff
<1>4. SendersHeld /\ PoolsReady
  BY DEF Init, SendersHeld, PoolsReady, PowerOff
<1> QED BY <1>1, <1>2, <1>3, <1>4 DEF StartInv, BoundedInv

-----------------------------------------------------------------------------
(* Types, bounds, and the level as the number of moves.                      *)
LEMMA MoveKeepsBounds ==
  ASSUME BoundedInv, NEW t \in Tasks, MoveNextLevel(t) PROVE BoundedInv'
<1> USE DEF BoundedInv, TypeOK, EveryMoveCounts, Bounded
<1>1. CASE LoadLevel(t)
  BY <1>1 DEF LoadLevel, PowerOff
<1>2. CASE CasCapped(t)
  BY <1>2, AfterMove DEF CasCapped, PowerOff
<1>3. CASE CasSwap(t)
  BY <1>3, AfterMove DEF CasSwap, PowerOff
<1>4. CASE CasReload(t)
  BY <1>4 DEF CasReload, PowerOff
<1> QED BY <1>1, <1>2, <1>3, <1>4 DEF MoveNextLevel

LEMMA BootKeepsBounds ==
  ASSUME BoundedInv, Reboot \/ StartServices \/ AutoAdvance PROVE BoundedInv'
<1> USE DEF BoundedInv, TypeOK, EveryMoveCounts, Bounded
<1>1. CASE Reboot
  <2>1. eth' \in EthStates
    BY <1>1 DEF Reboot, NoEth, EthStates
  <2>2. pc' \in [Tasks -> Places] /\ loaded' \in [Tasks -> 0..Done]
    BY <1>1 DEF Reboot, PowerOff, Places
  <2>3. level' \in 0..Done /\ moves' \in 0..Done /\ queued' \in 0..MaxPushes
        /\ pushes' \in 0..MaxPushes /\ arrivals' \in 0..MaxArrivals
    BY <1>1 DEF Reboot
  <2>4. TypeOK'
    BY <1>1, <2>1, <2>2, <2>3 DEF Reboot, Places, EthStates
  <2> QED BY <1>1, <2>4 DEF Reboot, PowerOff
<1>2. CASE StartServices
  BY <1>2 DEF StartServices, PowerOff
<1>3. CASE AutoAdvance
  BY <1>3 DEF AutoAdvance, PowerOff
<1> QED BY <1>1, <1>2, <1>3

LEMMA ServiceKeepsBounds ==
  ASSUME BoundedInv, NEW s \in Services,
         PassGate(s) \/ CreateDevice(s) \/ Eth_SendUDPPacket(s)
  PROVE  BoundedInv'
<1> USE DEF BoundedInv, TypeOK, EveryMoveCounts, Bounded
<1>1. CASE PassGate(s)
  BY <1>1, AfterGate DEF PassGate, PowerOff
<1>2. CASE CreateDevice(s)
  BY <1>2 DEF CreateDevice, PowerOff
<1>3. CASE Eth_SendUDPPacket(s)
  BY <1>3 DEF Eth_SendUDPPacket, PowerOff
<1> QED BY <1>1, <1>2, <1>3

LEMMA EthernetKeepsBounds ==
  ASSUME BoundedInv, Eth_Runtime \/ Interrupt \/ Drain PROVE BoundedInv'
<1> USE DEF BoundedInv, TypeOK, EveryMoveCounts, Bounded
<1>1. CASE RxedPacket_Init
  BY <1>1 DEF RxedPacket_Init, PowerOff
<1>2. CASE W5500_Create \/ CreateTask
  <2>1. eth' \in EthStates
    <3>1. CASE W5500_Create
      BY <3>1 DEF W5500_Create, EthStates
    <3>2. CASE CreateTask
      <4>1. \A e \in EthStates : [e EXCEPT !.task = TRUE] \in EthStates
        BY DEF EthStates
      <4>2. \A e \in EthStates : [e EXCEPT !.status = 0] \in EthStates
        BY DEF EthStates
      <4>3. [[eth EXCEPT !.task = TRUE] EXCEPT !.status = 0] \in EthStates
        BY <4>1, <4>2 DEF EthStates
      <4> QED BY <3>2, <4>3 DEF CreateTask
    <3> QED BY <1>2, <3>1, <3>2
  <2> QED BY <1>2, <2>1 DEF W5500_Create, CreateTask, PowerOff, EthStates
<1>3. CASE ResetChip
  BY <1>3 DEF ResetChip, PowerOff
<1>4. CASE OpenSocket \/ Cleanup
  <2>1. eth' \in EthStates
    <3>1. CASE OpenSocket
      BY <3>1 DEF OpenSocket, EthStates
    <3>2. CASE Cleanup
      <4>1. \A e \in EthStates : [e EXCEPT !.lock = FALSE] \in EthStates
        BY DEF EthStates
      <4>2. \A e \in EthStates : [e EXCEPT !.status = 1] \in EthStates
        BY DEF EthStates
      <4>3. [[eth EXCEPT !.lock = FALSE] EXCEPT !.status = 1] \in EthStates
        BY <4>1, <4>2 DEF EthStates
      <4> QED BY <3>2, <4>3 DEF Cleanup
    <3> QED BY <1>4, <3>1, <3>2
  <2> QED BY <1>4, <2>1 DEF OpenSocket, Cleanup, PowerOff, EthStates
<1>5. CASE Interrupt
  BY <1>5 DEF Interrupt, PowerOff
<1>6. CASE Drain
  BY <1>6 DEF Drain, PowerOff
<1> QED BY <1>1, <1>2, <1>3, <1>4, <1>5, <1>6 DEF Eth_Runtime

LEMMA NextBoundedInv == BoundedInv /\ [Next]_vars => BoundedInv'
<1>1. BoundedInv /\ UNCHANGED vars => BoundedInv'
  BY DEF vars, BoundedInv, TypeOK, EveryMoveCounts, Bounded
<1> QED BY <1>1, MoveKeepsBounds, BootKeepsBounds, ServiceKeepsBounds,
           EthernetKeepsBounds DEF Next, Run

LEMMA BoundedInvariant == Spec => []BoundedInv
  BY InitStartInv, NextBoundedInv, PTL DEF Spec, StartInv

(* Every variable of the start-up keeps its type: the level never passes its *)
(* end, nor does TxPool hold a packet that nobody pushed.                    *)
THEOREM StartTypeCorrect == Spec => []TypeOK
  BY BoundedInvariant, PTL DEF BoundedInv

(* However many tasks move the level at once, no move is lost and none is    *)
(* done twice.                                                               *)
THEOREM NoMoveIsLost == Spec => []EveryMoveCounts
  BY BoundedInvariant, PTL DEF BoundedInv

-----------------------------------------------------------------------------
(* The order of the gates.                                                   *)
LEMMA NextOnRoute ==
  ASSUME BoundedInv, OnRoute, [Next]_vars PROVE OnRoute'
<1>0. pc \in [Tasks -> Places]
  BY DEF BoundedInv, TypeOK, Places
<1> USE <1>0 DEF OnRoute, Places
<1>1. CASE Reboot
  BY <1>1 DEF Reboot, PowerOff
<1>2. CASE StartServices
  BY <1>2 DEF StartServices
<1>3. CASE AutoAdvance
  BY <1>3 DEF AutoAdvance
<1>4. CASE Eth_Runtime
  BY <1>4 DEF Eth_Runtime, RxedPacket_Init, W5500_Create, ResetChip, OpenSocket,
     Cleanup, CreateTask
<1>5. ASSUME NEW t \in Tasks, MoveNextLevel(t) PROVE OnRoute'
  BY <1>5, AfterMove DEF MoveNextLevel, LoadLevel, CasCapped, CasSwap, CasReload
<1>6. ASSUME NEW s \in Services, PassGate(s) PROVE OnRoute'
  BY <1>6, AfterGate DEF PassGate, BoundedInv
<1>7. ASSUME NEW s \in Services, CreateDevice(s) PROVE OnRoute'
  BY <1>7 DEF CreateDevice
<1>8. CASE Interrupt \/ Drain \/ \E s \in Services : Eth_SendUDPPacket(s)
  BY <1>8 DEF Interrupt, Drain, Eth_SendUDPPacket
<1>9. CASE UNCHANGED vars
  BY <1>9 DEF vars
<1> QED BY <1>1, <1>2, <1>3, <1>4, <1>5, <1>6, <1>7, <1>8, <1>9 DEF Next, Run

(* What the order of the gates rests on: AppConfig/Comm/Comm.h:61-66 does    *)
(* not enable both services that wait at Eth_Runtime's gate.                 *)
OneOfTwo == ~({"Motor", "Location"} \subseteq Enabled)

LEMMA LowLevel ==
  ASSUME BoundedInv, OnRoute, SendersHeld, OneOfTwo, PoolsPending
  PROVE  /\ Moved("Motor") \in {0, 1} /\ Moved("Location") \in {0, 1}
         /\ ByServices \in {0, 1}
         /\ level \in 0..3
<1>1. level \in Nat
  BY DEF BoundedInv, TypeOK
<1>2. Moved("Motor") \in {0, 1} /\ Moved("Location") \in {0, 1}
  BY DEF Moved
<1>3. Moved("Motor") = 0 \/ Moved("Location") = 0
  BY DEF OneOfTwo, OnRoute, Moved
<1>4. ByServices \in {0, 1}
  BY <1>2, <1>3 DEF ByServices
<1> QED BY <1>1, <1>2, <1>4 DEF SendersHeld, OnRoute

(* A task moves the level.  Only AppInit, Motor and Location can, until      *)
(* Eth_Runtime has reset the pools.                                          *)
LEMMA MoveHeld ==
  ASSUME BoundedInv, OnRoute, SendersHeld, OneOfTwo, PoolsPending,
         NEW t \in Tasks, MoveNextLevel(t)
  PROVE  SendersHeld'
<1>0. /\ pc \in [Tasks -> Places] /\ level \in 0..3 /\ loaded[t] <= level
      /\ loaded \in [Tasks -> 0..Done]
      /\ pc[t] \in {"move", "cas"}
  BY LowLevel DEF BoundedInv, TypeOK, Bounded, MoveNextLevel, LoadLevel, CasCapped,
     CasSwap, CasReload, Places
<1>1. t \in {AppInit, "Motor", "Location"}
  BY <1>0 DEF SendersHeld, PoolsPending
<1>2. ~CasCapped(t)
  BY <1>0 DEF CasCapped
<1>3. CASE LoadLevel(t) \/ CasReload(t)
  <2>1. pc'[t] \in {"move", "cas"} /\ (\A u \in Tasks \ {t} : pc'[u] = pc[u])
        /\ level' = level /\ queued' = queued
    BY <1>0, <1>3 DEF LoadLevel, CasReload
  <2>2. ByServices' = ByServices
    BY <1>0, <1>1, <2>1 DEF ByServices, Moved
  <2> QED BY <1>0, <1>1, <2>1, <2>2 DEF SendersHeld, PoolsPending
<1>4. CASE CasSwap(t)
  <2>1. /\ pc'[t] = After(t) /\ (\A u \in Tasks \ {t} : pc'[u] = pc[u])
        /\ pc[t] = "cas" /\ level' = level + 1 /\ queued' = queued
    BY <1>0, <1>4 DEF CasSwap
  <2>2. CASE t = AppInit
    <3>1. pc'[t] = "sleep"
      BY <1>0, <2>1, <2>2, AfterMove
    <3>2. ByServices' = ByServices
      BY <2>1, <2>2 DEF ByServices, Moved
    <3>3. level - ByServices \in {0, 1}
      BY <2>1, <2>2 DEF SendersHeld
    <3>4. level' - ByServices' \in {1, 2}
      BY <1>0, <2>1, <3>2, <3>3, LowLevel
    <3> QED BY <2>1, <2>2, <3>1, <3>4 DEF SendersHeld, PoolsPending
  <2>3. CASE t \in {"Motor", "Location"}
    <3>1. pc'[t] = "run"
      BY <2>1, <2>3, AfterMove
    <3>2. ByServices' = ByServices + 1
      BY <2>1, <2>3, <3>1 DEF ByServices, Moved
    <3>3. level' - ByServices' = level - ByServices
      BY <1>0, <2>1, <3>2, LowLevel
    <3>4. pc[AppInit] # "start"
      BY <2>1, <2>3 DEF BoundedInv, Bounded, PowerOff
    <3> QED BY <2>1, <2>3, <3>3, <3>4 DEF SendersHeld, PoolsPending
  <2> QED BY <1>1, <2>2, <2>3
<1> QED BY <1>2, <1>3, <1>4 DEF MoveNextLevel

LEMMA GateHeld ==
  ASSUME BoundedInv, OnRoute, SendersHeld, OneOfTwo, PoolsPending,
         NEW s \in Services, PassGate(s)
  PROVE  SendersHeld'
<1>0. /\ pc \in [Tasks -> Places] /\ level \in 0..3 /\ pc[s] = "gate" /\ level > Gate[s]
      /\ level' = level /\ queued' = queued
  BY LowLevel DEF BoundedInv, TypeOK, PassGate, Places
<1>1. s \notin {"HeartBeat", "Test", "UltraSonic"}
  BY <1>0 DEF Gate
<1>2. PICK step \in {"pools", "create", "move", "run"} :
        pc' = [pc EXCEPT ![s] = step] /\ (step = "pools" <=> s = "Ethernet")
  BY AfterGate DEF BoundedInv
<1>3. s \in {"Motor", "Location"} => pc'[s] # "run"
  BY <1>0 DEF PassGate
<1>4. ByServices' = ByServices
  BY <1>0, <1>1, <1>2, <1>3 DEF ByServices, Moved
<1> QED BY <1>0, <1>1, <1>2, <1>4 DEF SendersHeld, PoolsPending

(* AppInit wakes while Eth_Runtime is at its gate only if that is closed,    *)
(* that is after its first move.                                             *)
LEMMA AdvanceHeld ==
  ASSUME BoundedInv, OnRoute, SendersHeld, OneOfTwo, PoolsPending, AutoAdvance
  PROVE  SendersHeld'
<1>0. /\ pc \in [Tasks -> Places] /\ pc[AppInit] = "sleep"
      /\ pc' = [pc EXCEPT ![AppInit] = "move"]
      /\ level' = level /\ queued' = queued /\ level \in 0..3
  BY LowLevel DEF BoundedInv, TypeOK, AutoAdvance, Places
<1>1. ~Prompt("Ethernet")
  BY DEF PoolsPending, AutoAdvance
<1>2. pc["Ethernet"] # "none" => level <= 1
  BY <1>0, <1>1 DEF Prompt, PoolsPending, Gate
<1>3. ByServices' = ByServices
  BY <1>0 DEF ByServices, Moved
<1>4. pc["Ethernet"] # "none"
  BY <1>0 DEF PoolsPending, OnRoute
<1>5. level - ByServices \in {0, 1}
  BY <1>0, <1>2, <1>4, LowLevel DEF SendersHeld
<1> QED BY <1>0, <1>3, <1>5 DEF SendersHeld, PoolsPending

LEMMA NextHeld ==
  ASSUME BoundedInv, OnRoute, SendersHeld, OneOfTwo, [Next]_vars
  PROVE  SendersHeld'
<1>0. pc \in [Tasks -> Places] /\ level \in Nat
  BY DEF BoundedInv, TypeOK, Places
<1>1. CASE Reboot
  BY <1>1 DEF Reboot, PowerOff, SendersHeld
<1>2. CASE StartServices
  <2>1. /\ level = 0 /\ level' = 0 /\ queued = 0 /\ queued' = 0
        /\ pc'[AppInit] = "move" /\ \A s \in Services : pc'[s] \in {"none", "gate"}
    BY <1>2 DEF StartServices, BoundedInv, Bounded
  <2>2. ByServices' = 0
    BY <2>1 DEF ByServices, Moved
  <2> QED BY <2>1, <2>2 DEF SendersHeld
<1>3. CASE PoolsPending /\ Eth_Runtime
  BY <1>0, <1>3 DEF Eth_Runtime, RxedPacket_Init, W5500_Create, ResetChip, OpenSocket,
     Cleanup, CreateTask, PoolsPending, SendersHeld
<1>4. CASE PoolsPending /\ AutoAdvance
  BY <1>4, AdvanceHeld
<1>5. ASSUME PoolsPending, NEW t \in Tasks, MoveNextLevel(t) PROVE SendersHeld'
  BY <1>5, MoveHeld
<1>6. ASSUME PoolsPending, NEW s \in Services, PassGate(s) PROVE SendersHeld'
  BY <1>6, GateHeld
<1>7. ASSUME PoolsPending, NEW s \in Services, CreateDevice(s) PROVE SendersHeld'
  <2>1. s = "Motor" /\ pc[s] = "create" /\ pc'[s] \in {"move", "deleted"}
        /\ (\A t \in Tasks \ {s} : pc'[t] = pc[t]) /\ level' = level /\ queued' = queued
    BY <1>0, <1>7 DEF CreateDevice, SendersHeld
  <2>2. ByServices' = ByServices
    BY <2>1 DEF ByServices, Moved
  <2> QED BY <2>1, <2>2 DEF SendersHeld, PoolsPending
<1>8. ASSUME PoolsPending, NEW s \in Services, Eth_SendUDPPacket(s) PROVE FALSE
  BY <1>8 DEF Eth_SendUDPPacket, SendersHeld
<1>9. CASE PoolsPending /\ (Interrupt \/ Drain \/ UNCHANGED vars)
  BY <1>9 DEF Interrupt, Drain, vars, SendersHeld, PoolsPending, ByServices, Moved
<1>10. ASSUME ~PoolsPending, ~Reboot, ~StartServices PROVE ~PoolsPending'
  <2> SUFFICES ASSUME "Ethernet" \in Enabled PROVE pc'["Ethernet"] \notin {"none", "gate", "pools"}
    BY DEF PoolsPending
  <2>0. pc["Ethernet"] \notin {"none", "gate", "pools"}
    BY <1>10 DEF PoolsPending
  <2>1. ASSUME NEW t \in Tasks, MoveNextLevel(t) PROVE pc'["Ethernet"] \notin {"none", "gate", "pools"}
    BY <1>0, <2>0, <2>1, AfterMove DEF MoveNextLevel, LoadLevel, CasCapped, CasSwap, CasReload
  <2>2. ASSUME NEW s \in Services, PassGate(s) \/ CreateDevice(s) \/ Eth_SendUDPPacket(s)
        PROVE  pc'["Ethernet"] \notin {"none", "gate", "pools"}
    BY <1>0, <2>0, <2>2 DEF PassGate, CreateDevice, Eth_SendUDPPacket
  <2>3. CASE AutoAdvance \/ Interrupt \/ Drain \/ UNCHANGED vars
    BY <1>0, <2>0, <2>3 DEF AutoAdvance, Interrupt, Drain, vars
  <2>4. CASE Eth_Runtime
    BY <1>0, <2>0, <2>4 DEF Eth_Runtime, RxedPacket_Init, W5500_Create, ResetChip, OpenSocket,
       Cleanup, CreateTask
  <2>5. \/ AutoAdvance \/ Interrupt \/ Drain \/ UNCHANGED vars \/ Eth_Runtime
        \/ \E t \in Tasks : MoveNextLevel(t)
        \/ \E s \in Services : PassGate(s) \/ CreateDevice(s) \/ Eth_SendUDPPacket(s)
    BY <1>10 DEF Next, Run
  <2> QED BY <2>1, <2>2, <2>3, <2>4, <2>5
<1>11. ~PoolsPending' => SendersHeld'
  BY DEF SendersHeld
<1> QED BY <1>1, <1>2, <1>3, <1>4, <1>5, <1>6, <1>7, <1>8, <1>9, <1>10, <1>11 DEF Next, Run

LEMMA NextPoolsReady ==
  ASSUME SendersHeld, OnRoute, PoolsReady, [Next]_vars PROVE PoolsReady'
<1> USE DEF PoolsReady
<1>1. CASE RxedPacket_Init
  <2>1. PoolsPending
    BY <1>1 DEF RxedPacket_Init, PoolsPending, OnRoute
  <2>2. ~(queued > 0)
    BY <2>1 DEF SendersHeld
  <2> QED BY <1>1, <2>2, Zenon DEF RxedPacket_Init
<1>2. CASE ~RxedPacket_Init
  BY <1>2 DEF Next, vars, Reboot, StartServices, AutoAdvance, Eth_Runtime, W5500_Create,
     ResetChip, OpenSocket, Cleanup, CreateTask, Interrupt, Drain, Run, MoveNextLevel,
     LoadLevel, CasCapped, CasSwap, CasReload, PassGate, CreateDevice, Eth_SendUDPPacket
<1> QED BY <1>1, <1>2

(* No packet that a service has pushed is wiped out when Eth_Runtime resets  *)
(* the pools, whatever the order in which the services come up, as long as   *)
(* Motor and Location are not both enabled.                                  *)
THEOREM PoolsComeFirst == ASSUME OneOfTwo PROVE Spec => []PoolsReady
<1>1. StartInv /\ [Next]_vars => StartInv'
  BY NextBoundedInv, NextOnRoute, NextHeld, NextPoolsReady DEF StartInv
<1>2. StartInv => PoolsReady
  BY DEF StartInv
<1> QED BY InitStartInv, <1>1, <1>2, PTL DEF Spec
=============================================================================
