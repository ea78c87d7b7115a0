------------------------------ MODULE StartUp ------------------------------
(* The start of a node: app_main and AppInit (AppRT/StartUp), the level of   *)
(* AppBase/GlobalInit at which each service waits, what the services set up  *)
(* after their gate, and the W5500's interrupt, which may come at any of     *)
(* these moments.  A failed assertion reboots the node; the W5500 is not     *)
(* reset by that and goes on receiving until W5500CommCtl_Init resets it.    *)
(*                                                                           *)
(* Time: a gate is polled every 50 ms and AppInit sleeps 100 ms, so AppInit  *)
(* does not wake while a service has an open gate to pass, or the first      *)
(* statement after it to do.  No other step has a bound on its duration.     *)
EXTENDS Integers

CONSTANTS
  Enabled,      \* services that the configuration enables
  Done,         \* GLOBAL_INIT_LEVEL_DONE
  MaxArrivals,  \* bound on the datagrams that arrive during start-up
  MaxPushes,    \* bound on the packets that the senders push
  Broken        \* the hardware that may be missing or refuse to work

Services == {"Motor", "Ethernet", "UltraSonic", "HeartBeat", "Location", "Test"}
AppInit == "AppInit"
Tasks == Services \cup {AppInit}
Senders == {"HeartBeat", "Test"}

ASSUME StartUpAssumption ==
  /\ Enabled \subseteq Services /\ Done \in Nat /\ Done > 4
  /\ MaxArrivals \in Nat /\ MaxPushes \in Nat
  /\ Broken \subseteq {"W5500", "Motor", "UltraSonic"}

Gate_sendersEarly == [s \in Services |-> IF s = "UltraSonic" THEN 4 ELSE 1]

(* A service waits while its number >= GlobalInit_GetLevel().                *)
Gate == [s \in Services |-> CASE s \in {"Motor", "Ethernet", "Location"} -> 1
                              [] s \in {"HeartBeat", "Test"} -> 3
                              [] s = "UltraSonic" -> 4]

VARIABLES
  level,     \* GlobalInit_Level
  pc,        \* what each task does next
  loaded,    \* current_level in GlobalInit_MoveNextLevel
  moves,     \* completed calls that incremented the level
  eth,       \* the Ethernet service's globals
  chip,      \* the W5500: "dead", "quiet" (reset) or "open" (socket 1 receives)
  queued,    \* packets in TxPool
  lost,      \* a pushed packet was wiped out
  pushes, arrivals,
  fault,     \* an assertion failed
  broken     \* what does not work, from one boot to the next

vars == <<level, pc, loaded, moves, eth, chip, queued, lost, pushes, arrivals, fault, broken>>
levels == <<level, loaded, moves>>
world == <<chip, queued, lost, pushes, arrivals, fault, broken>>

PowerOff == [t \in Tasks |-> IF t = AppInit THEN "start" ELSE "none"]
NoEth == [lock |-> FALSE, isr |-> FALSE, task |-> FALSE, status |-> 1]

Init ==
  /\ level = 0 /\ moves = 0
  /\ pc = PowerOff
  /\ loaded = [t \in Tasks |-> 0]
  /\ eth = NoEth
  /\ broken \in SUBSET Broken
  /\ chip = IF "W5500" \in broken THEN "dead" ELSE "quiet"
  /\ queued = 0 /\ lost = FALSE
  /\ pushes = 0 /\ arrivals = 0
  /\ fault = FALSE

Goto(t, step) == pc' = [pc EXCEPT ![t] = step]

(* app_main, AppInit.  Every enabled service gets its task; Eth_Runtime      *)
(* marks itself as initialising before its gate.                             *)
StartServices ==
  /\ pc[AppInit] = "start"
  /\ pc' = [t \in Tasks |-> IF t \in Enabled THEN "gate" ELSE IF t = AppInit THEN "move" ELSE "none"]
  /\ eth' = [eth EXCEPT !.status = IF "Ethernet" \in Enabled THEN 2 ELSE 1]
  /\ UNCHANGED <<levels, world>>

Prompt(s) == (pc[s] = "gate" /\ level > Gate[s]) \/ pc[s] = "pools"

AutoAdvance ==
  /\ pc[AppInit] = "sleep"
  /\ \A s \in Enabled : ~Prompt(s)
  /\ Goto(AppInit, "move")
  /\ UNCHANGED <<levels, eth, world>>

After_once(t) == "run"

(* GlobalInit_MoveNextLevel: a load, then compare-and-swap until it succeeds *)
(* or the level is at its end.  After(t) is where the caller goes on.        *)
After(t) ==
  CASE t # AppInit -> "run"
    [] t = AppInit /\ level' < Done -> "sleep"
    [] OTHER -> "run"

LoadLevel(t) ==
  /\ pc[t] = "move"
  /\ loaded' = [loaded EXCEPT ![t] = level]
  /\ Goto(t, "cas")
  /\ UNCHANGED <<level, moves, eth, world>>

CasCapped(t) ==
  /\ pc[t] = "cas" /\ loaded[t] >= Done
  /\ UNCHANGED level /\ Goto(t, After(t))
  /\ UNCHANGED <<loaded, moves, eth, world>>

CasSwap_uncapped(t) ==
  /\ pc[t] = "cas" /\ loaded[t] = level
  /\ level' = level + 1
  /\ moves' = moves + 1
  /\ Goto(t, After(t))
  /\ UNCHANGED <<loaded, eth, world>>

CasSwap(t) ==
  /\ pc[t] = "cas" /\ loaded[t] < Done /\ loaded[t] = level
  /\ level' = level + 1
  /\ moves' = moves + 1
  /\ Goto(t, After(t))
  /\ UNCHANGED <<loaded, eth, world>>

CasReload_overwrites(t) ==
  /\ pc[t] = "cas" /\ loaded[t] < Done /\ loaded[t] # level
  /\ level' = loaded[t] + 1
  /\ moves' = moves + 1
  /\ Goto(t, After(t))
  /\ UNCHANGED <<loaded, eth, world>>

CasReload(t) ==
  /\ pc[t] = "cas" /\ loaded[t] < Done /\ loaded[t] # level
  /\ loaded' = [loaded EXCEPT ![t] = level]
  /\ UNCHANGED <<level, moves, pc, eth, world>>

MoveNextLevel(t) == LoadLevel(t) \/ CasCapped(t) \/ CasSwap(t) \/ CasReload(t)

PassGate(s) ==
  /\ pc[s] = "gate" /\ level > Gate[s]
  /\ Goto(s, CASE s = "Ethernet" -> "pools"
               [] s \in {"Motor", "UltraSonic"} -> "create"
               [] s \in {"HeartBeat", "Location"} -> "move"
               [] s = "Test" -> "run")
  /\ UNCHANGED <<levels, eth, world>>

(* MotorRuntime and HCSR04Runtime create their object and set it up, or give *)
(* up and delete themselves.                                                 *)
CreateDevice(s) ==
  /\ s \in {"Motor", "UltraSonic"} /\ pc[s] = "create"
  /\ Goto(s, IF s \in broken THEN "deleted" ELSE "move")
  /\ UNCHANGED <<levels, eth, world>>

(* Eth_Runtime.  RxedPacket_Init frees every slot of both pools.             *)
RxedPacket_Init ==
  /\ pc["Ethernet"] = "pools"
  /\ queued' = 0
  /\ lost' = (lost \/ queued > 0)
  /\ Goto("Ethernet", "create")
  /\ UNCHANGED <<levels, eth, chip, pushes, arrivals, fault, broken>>

(* W5500_Create attaches the interrupt handler to the pin.  That memory or    *)
(* the pins cannot be had, where it returns NULL, is left out.               *)
W5500_Create ==
  /\ pc["Ethernet"] = "create"
  /\ eth' = [eth EXCEPT !.isr = TRUE]
  /\ Goto("Ethernet", "chip")
  /\ UNCHANGED <<levels, world>>

(* W5500CommCtl_Init resets the chip, reads its version and, if it is the    *)
(* supported one, opens socket 1 as the last thing.                          *)
ResetChip ==
  /\ pc["Ethernet"] = "chip"
  /\ chip' = IF chip = "dead" THEN "dead" ELSE "quiet"
  /\ eth' = [eth EXCEPT !.lock = TRUE]
  /\ Goto("Ethernet", "version")
  /\ UNCHANGED <<levels, queued, lost, pushes, arrivals, fault, broken>>

OpenSocket ==
  /\ pc["Ethernet"] = "version" /\ chip # "dead"
  /\ chip' = "open"
  /\ Goto("Ethernet", "task")
  /\ UNCHANGED <<levels, eth, queued, lost, pushes, arrivals, fault, broken>>

Cleanup ==
  /\ pc["Ethernet"] = "version" /\ chip = "dead"
  /\ eth' = [eth EXCEPT !.lock = FALSE, !.status = 1]
  /\ Goto("Ethernet", "deleted")
  /\ UNCHANGED <<levels, world>>

CreateTask ==
  /\ pc["Ethernet"] = "task"
  /\ eth' = [eth EXCEPT !.task = TRUE, !.status = 0]
  /\ Goto("Ethernet", "move")
  /\ UNCHANGED <<levels, world>>

(* A datagram: the falling edge runs W5500_IsrHandler once it is attached;   *)
(* a notification of a NULL task handle is a failed assertion.               *)
Interrupt ==
  /\ chip = "open" /\ arrivals < MaxArrivals
  /\ arrivals' = arrivals + 1
  /\ fault' = (eth.isr /\ ~eth.task)
  /\ UNCHANGED <<levels, pc, eth, chip, queued, lost, pushes, broken>>

Eth_SendUDPPacket(s) ==
  /\ s \in Senders /\ pc[s] = "run" /\ pushes < MaxPushes
  /\ pushes' = pushes + 1
  /\ queued' = queued + 1
  /\ UNCHANGED <<levels, pc, eth, chip, lost, arrivals, fault, broken>>

Drain ==
  /\ eth.task /\ queued > 0
  /\ queued' = queued - 1
  /\ UNCHANGED <<levels, pc, eth, chip, lost, pushes, arrivals, fault, broken>>

Reboot ==
  /\ fault
  /\ level' = 0 /\ moves' = 0
  /\ pc' = PowerOff
  /\ loaded' = [t \in Tasks |-> 0]
  /\ eth' = NoEth
  /\ queued' = 0 /\ pushes' = 0
  /\ fault' = FALSE
  /\ UNCHANGED <<chip, lost, arrivals, broken>>

Eth_Runtime == RxedPacket_Init \/ W5500_Create \/ ResetChip \/ OpenSocket \/ Cleanup \/ CreateTask
Run(t) == MoveNextLevel(t) \/ (t \in Services /\ (PassGate(t) \/ CreateDevice(t)))

Next ==
  \/ Reboot
  \/ /\ ~fault
     /\ \/ StartServices \/ AutoAdvance \/ Eth_Runtime \/ Interrupt \/ Drain
        \/ \E t \in Tasks : Run(t)
        \/ \E s \in Services : Eth_SendUDPPacket(s)

Spec == Init /\ [][Next]_vars
(* Every task is scheduled, AppInit's sleep ends, a failed node reboots.     *)
FairSpec ==
  /\ Spec
  /\ WF_vars(Reboot)
  /\ WF_vars(~fault /\ (StartServices \/ AutoAdvance))
  /\ WF_vars(~fault /\ Eth_Runtime)
  /\ \A t \in Tasks : WF_vars(~fault /\ Run(t))

-----------------------------------------------------------------------------
(* Every variable keeps its type. *)
TypeOK ==
  /\ level \in 0..Done
  /\ pc \in [Tasks -> {"start", "none", "sleep", "move", "cas", "run", "gate", "pools",
                       "create", "chip", "version", "task", "deleted"}]
  /\ loaded \in [Tasks -> 0..Done]
  /\ moves \in 0..Done
  /\ eth \in [lock : BOOLEAN, isr : BOOLEAN, task : BOOLEAN, status : 0..2]
  /\ chip \in {"dead", "quiet", "open"}
  /\ queued \in 0..MaxPushes /\ pushes \in 0..MaxPushes /\ arrivals \in 0..MaxArrivals
  /\ lost \in BOOLEAN /\ fault \in BOOLEAN
  /\ broken \subseteq Broken

(* Services that finish at the same moment each move the level: no increment *)
(* of the load and compare-and-swap of GlobalInit.c:21-34 is lost or done    *)
(* twice, so a gate opens after exactly the number of moves it waits for.    *)
EveryMoveCounts == level = moves

(* RxedPacket_Init resets TxPool too (PacketQueue.c:18).  No packet of a     *)
(* sender is wiped out by it: the senders' gate, although AppInit moves the  *)
(* level whatever the services have done, opens after Eth_Runtime's.         *)
PoolsReady == ~lost

(* An interrupt before the communication task exists, a missing W5500 or     *)
(* sensor, a service that never moves the level: once datagrams stop coming  *)
(* early, every service that works is running, and the level is at its end.  *)
Started(s) ==
  \/ pc[s] = "run"
  \/ /\ pc[s] = "deleted"
     /\ (IF s = "Ethernet" THEN "W5500" ELSE s) \in broken
BootCompletes == <>[](~fault /\ level = Done /\ \A s \in Enabled : Started(s))
=============================================================================
