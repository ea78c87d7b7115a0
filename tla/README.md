# ZonalArchECU_W_SomeIP: specifications, model checking, proofs

A TLA+ development of the firmware of a zonal ECU (ESP32, two cores, FreeRTOS, a
W5500 Ethernet chip on SPI) and of what its PC monitor, the central unit (CCU),
does to it. Paths below are relative to `src/`.

## The system

The firmware is C under `components/`; the monitor is Python under `monitor/`.
Tasks run preemptively on two cores, so that two of them may execute at the same
time. They share variables (mostly without a lock), two lock-free pools of
packets, one mutex per device, task notifications and a start-up level.

| task | source | priority |
|---|---|---|
| `AppInit` | `AppRT/StartUp/Service.c` | main |
| `Eth_Runtime` | `AppComm/EthernetW5500/Module.c` | real time |
| `W5500_TaskComm_GetPacket` | the same, created by `Eth_Runtime` | urgent |
| `HeartBeatRuntime` | `AppRT/HeartBeat/Module.c` | normal |
| `MotorRuntime` | `AppComm/HBridge/Module.c` | real time |
| `HCSR04Runtime` | `AppComm/UltraSonic/Module.c` | normal |
| `Test_Runtime` | `AppRT/TestModule/TestModule.c` | real time |
| `Loc_Runtime` | `AppComm/LocationATGM336H/Module.c` | disabled |

### Inventory

**Packet pools** (`PacketQueue.c`). State: `RxPool` and `TxPool`, 32 slots each, a
slot with an atomic `State` (FREE, WRITING, READY, READING), a payload and an
endpoint. Operations: push (scan for a FREE slot, claim by compare-and-swap, copy,
publish), get (scan for the READY slot with the lowest first byte, claim by
compare-and-swap), release, size, empty. Hard: everything is lock-free; the scan
is not atomic with the claim. Correct if a slot has one owner, a packet is read
whole and by one task, and "full" and "empty" mean what their callers take them
to mean.

**Ethernet driver tasks** (`EthernetW5500/Module.c`). The chip raises an
interrupt; the ISR notifies the communication task; that reads one datagram per
pass into `RxPool`, drains `TxPool` into the chip and notifies `Eth_Runtime`,
which hands each packet to a callback that may reply through `TxPool`. Other tasks
send with `Eth_SendUDPPacket` (push, notify). Hard: an edge-triggered interrupt,
notifications against tasks that fall asleep on their own, a bit cleared for more
than what was handled. Correct if nobody sleeps on work that is queued for it.

**Heartbeat and pairing** (`HeartBeat/Module.c`, `NodeAuth.c`, `AppFrame.c`;
`monitor/MonitorMain.py`, `UdpListener.py`). State: the connection state, the CCU
endpoint, the last challenge, the endpoint saved in flash (NVS). `HeartBeatRuntime`
broadcasts, authenticates, sends telemetry; `ParsePacket`, called in
`Eth_Runtime`, reacts to pairing requests and answers, and to engine commands with
telemetry at once. Hard: two tasks without a
lock, tests separated from what they decide, late and repeated answers, several
CCUs, timeouts, power failures between two steps. Correct if flash holds one
endpoint, a connected node will reconnect after a reset, and authentication ends.

**Start-up** (`GlobalInit.c`, `Service.c`). An atomic level that each task waits
for and advances; `AppInit` also advances it every 100 ms. Correct if no task
passes its gate before what it uses is initialised.

**W5500 register access** (`EthernetW5500.c`). SPI frames under `W5500_Lock`; the
version register is read without it. Correct if no two frames share one
chip-select period.

**Motor control** (`HBridge/Module.c`, `HBridge.c`). Speeds and a modified flag
under a mutex taken with a timeout; setters wait for `MotorRuntime` to apply.
Correct if a setter that reports success has been applied, and the reverse.

**Ultrasonic ranging** (`UltraSonic.c`, `UltraSonic/Module.c`). Trigger, echo
interrupts, median filter, cached distances read by the heartbeat's fail-safe
check. Correct if what is not measured cannot pass for a distance.

**Libraries.** `Deque.c` (growing circular buffer, evicts at its limit),
`AppUtils.c` (`LinearScale`), `Network.c`, `E2E.c` and `AppFrame.c` (checksum, CRC),
`SOMEIP.c`, `TempControlFrame.c`, strings.

**Monitor** (`MonitorMain.py`, `UdpListener.py`). A listener thread queues what it
receives; the GUI thread keeps two registries of nodes (by zone, for commands; by
name, for plots), answers challenges and sends the speeds its operator sets. Hard:
heartbeats queued before a removal, telemetry that moves a slider the mouse holds, a
node that changes its address. Correct if the registries agree and a command names
only what the operator meant, for a node where it now is.

`PROJECT.json` lists each component with its status, and under `hazards` what is
hard to test in this code, at its line.

## Modules

| module | what it is |
|---|---|
| `PacketExchange` | abstract: packets are offered, each is taken by one consumer and let go |
| `PacketPool` | the pool of `PacketQueue.c`, one action per atomic operation or copy; refines `PacketExchange` |
| `Pairing` | `HeartBeatRuntime`, `ParsePacket` and CCUs around the shared connection state |
| `EthDriver` | chip, ISR, communication task, `Eth_Runtime` and senders around the pools |
| `Motor` | setters, getters and `MotorRuntime` around the H-bridge object |
| `StartUp` | `AppInit`, the level, the gates, and what each service sets up behind its own |
| `SpiBus` | register accesses under `W5500_Lock`, and the version read without it |
| `Ranging` | the sensors' task, its filter, the cached distances and their readers |
| `DequeSpec`, `Deque` | what `Deque.h` promises, and the circular buffer that refines it |
| `Frames` | writers, readers, checksum, CRC and signature of `AppFrame.c` and `NodeAuth.c` |
| `Scaling` | percent to raw and back: `LinearScale` and both pairs of converters |
| `Addresses` | the conversions of `Network.c`, chained |
| `Strings` | `CString` and `CString64` under the same calls |
| `Monitor` | the PC monitor: event queue, registries, discovery, commands |
| `MCPacketPool`, `MCPairing`, `MCEthDriver`, `MCMotor`, `MCStartUp`, `MCMonitor` | small instances |
| `Parts`, `MCParts` | the modules from `SpiBus` to `Strings`, one at a time, and a small instance of them |
| `PacketPoolProofs`, `PairingProofs`, `EthDriverProofs`, `MotorProofs`, `StartUpProofs`, `MonitorProofs` | theorems about the module they are named after, and their proofs |
| `PartsProofs` | the same for `SpiBus`, `Ranging`, `Scaling` and `Addresses` |
| `BufferProofs` | the same for `Deque`, `Strings` and `Frames` |

Some operators are preceded by a variant named after them (`GetClaim_store`
before `GetClaim`): the form a plausible bug would take, used to see that a
property notices. They are not part of the specification.

### PacketPool

`RxPool` and `TxPool` run the same code twice, and are two choices of the
constants: one producer for `RxPool` (the communication task), several for
`TxPool`; one consumer each. A producer pushes or counts: in the code the only
task whose count decides anything is the producer of `RxPool` (`Module.c:337`).

State and actions: `state[s]` is `PacketSlot_t.State`; `body[s]` and `addr[s]` are
the two halves of what a push copies, written in two steps between the claim and
the publication. `ppc`, `pidx`, `cpc`, `cidx`, `cbest`, `cprio` are the locals of
`RxedPacket_Push`, `_Size` and `_GetHighestPriority`. `State` operations are
sequentially consistent atomics in the code, so interleaving steps is exact for
them; the copies happen inside a slot that is claimed (`OneOwner` is what makes
this abstraction of plain memory sound). The comparison reads `Data[0]` of a slot
that is *not* claimed and may be rewritten meanwhile: `GetCompare` is a step of its
own, and takes the byte of whatever is in the slot then.

Two history variables, `freeAtPush` and `readyAtGet`, remember what was FREE or
READY when a call began; the promises to a caller are relative to that instant.
`PacketQueue.h:52` says the get locks the READY packet with the highest priority.
It locks the best of those it saw: a better one stored behind its scan waits.
`ClaimsBestSeen` states what does hold.

### Pairing

The state of the ECU is `App_HeartBeat_State`, the two words of `CCU_EP` (`addr`,
`port`, each named by the CCU it belongs to), `last_challenge`, and the blob in
flash. `hpc` is where `HeartBeatRuntime` is, inside `App_ConnectCCU` included; each
test of the state, each assignment, each word of the endpoint read or written is a
step. The two words are passed to `Eth_SendUDPPacket` in an order C leaves open; the
model reads the address first, and the roles of the two words are symmetric.

- *Network.* A set of datagrams: they are lost (at the latest when more than
  `MaxInFlight` are under way), reordered, and delayed without limit. The ECU
  resends its challenge, so that one challenge has several answers.
- *CCU.* It asks for pairing when its user likes, commands the motors of any node it
  keeps in its list, paired or not, and signs any challenge (`MonitorMain.py:509-543`,
  `1376`). A keyed signature of the challenge is the
  challenge itself in the model: an answer is right when it carries the last one.
- *Challenge.* The tick count in the high word: fresh in one life of the ECU. It
  restarts with the ECU, so with `Crashes` a challenge in flight may recur.
- *Timeout.* 10 s of one challenge every 200 ms, 50 challenges, are `MaxAge`.
- *Flash.* A blob is written or not (NVS guarantees it), `nvs_open` may fail. A
  format of the whole partition by `nvs_flash_init` is left out.
- *Crash.* At any step; RAM is lost, flash and the network are not.
- *Response.* An engine command (`Module.c:218-235`) sets the flag for a response, and
  `W5500CommCtl` calls `App_SendImmediateHeartbeat` once the packet is parsed:
  `ParseCommand`, `RespondAddr`, `SendImmediateHeartbeat`, in the task of `ParsePacket`.
  `Register` is both callbacks at once: a command parsed between them gets no answer.
- *Left out.* Telemetry content; what a command does to the motors (in Motor and
  Scaling); keep-alive frames, which only pulse the test pin because the watchdog is
  compiled out.

### EthDriver

The pools are their numbers of READY packets. That is what `PacketPool` allows:
it implements an exchange of whole packets, and with one producer and one consumer
the answers "empty" and "full" are true (`NullMeansNothing`, `ZeroMeansEmpty`,
`DropMeansFull`). A task notification is whether its value is nonzero, since every
take clears it. The chip queues datagrams for socket 1, sets RECV and lowers INT
(an edge only if it was high; `Sn_IMR` is 0x04, RECV alone); it answers SEND with
SEND_OK or TIMEOUT. `recv`, SIR and the level of INT are one variable: socket 1 is
the only one enabled, and the conflict and wake-on-LAN bits of IR are left out.
The chip is taken not to raise RECV again for what was already in its buffer
when `0xFF` is written.

The two waits before a SEND, for the command register and for room in the chip
(`Module.c:141-149`), have no bound in the code; they are part of `Send`, taken to end.
`WakeMain` is the notification of `Eth_Runtime` or its timeout of 500 s.

The model starts when the communication task exists; what precedes is in StartUp.

### Motor

`speed`, `flags` are `Motor->Speed` and `Motor->Flag`; `duty` is what was last
written to the PWM channels; `created` says which of `MotorLock` and `Motor` exist.
A section under the mutex is one step, except that of `MotorRuntime`, which applies
(`RuntimeApply`) and then clears all flags (`RuntimeClear`) with the lock held
between. A setter is `Call`, then rounds of `Trigger` and `WaitForSpeedAt`;
`MotorRuntime` itself calls two of them (`BootStop`) before its loop, where nobody
clears the flag it waits for. `malloc` leaves what it likes (`Wild`) in the speeds, and
`HBridge_Create` applies that to the motors. `MaxRetries` is 3000 in the code; its waits
are `vTaskDelay(pdMS_TO_TICKS(1))`, 0 ticks at 100 Hz, so no wait has a duration in the
model either. The getters test `MotorLock` and use `Motor`, which is created after it:
`fault` is the reboot that follows in between, and the module says nothing about what
comes after. The emergency stop is compiled out (`ENABLE_EMERGENCY_ACTION` is 0): the
STOP button and the fail-safe test at `HeartBeat/Module.c:496-510` do nothing.

### StartUp

`level` and `loaded` are `GlobalInit_Level` and the local of
`GlobalInit_MoveNextLevel`, whose load and compare-and-swap are separate steps; `moves`
is a history variable. A gate `s >= GetLevel()` is `Gate[s]`. `Interrupt` may come
whenever the chip's socket is open; the chip is not reset by a reboot of the node and
so may interrupt a node that has attached its handler and not created its task, which
is a failed assertion and another reboot. One assumption about time: a gate is polled
every 50 ms and `AppInit` sleeps 100 ms, so `AppInit` does not wake while a service has
an open gate to pass, or its first statement after the gate to execute (`Prompt`).
`PoolsReady` depends on it. Without hardware a service deletes itself, and the others
must start all the same. A failed allocation in `W5500_Create` is left out: its clean-up
deletes the semaphore `EthLock`, NULL by then, which is a failed assertion.

### SpiBus

The object that `W5500_Create` returns holds one transmit and one receive frame for
every task. An access is: take the lock, `SetHeader`, `SetPayload`, `PrepareFrame`,
`Select` (SCS low), `Transmit`, `Deselect`, `GiveLock`. The chip is external: it takes
the first transmission after SCS falls as a frame, and one that follows before SCS
rises as more data of it (`Spill`). `GetModuleVersion` does the same with buffers of
its own and without the lock. `met` remembers which calls shared a selection with a
version read, or were overtaken between a read in place and its copy
(`EthernetW5500/Module.c:266-268`): these may be wrong, and no other. `Fits` is what
the register functions can be asked for; a payload that fits the registers needs no
more of the 1500 bytes of a frame than `Buffer`.

### Ranging

`HCSR04Runtime` creates the object, fills the distances with 0xFFFF, configures the pins
(or deletes the object again) and then filters three samples for each sensor, without
the lock, and stores the result under it. An echo of 24 ms at most is a sample; none,
one, two or three are filtered to 0xFFFF, themselves, their mean, their median. `behind`
is a history variable: the samples behind each distance. Each `xSemaphoreTake` may time
out while another task holds the lock. 0 is answered when there is no object, when its
memory is only cleared, and when the lock is busy. A reader that has tested the pointer
may be caught by the deletion (`dangling`): the module goes no further then. `Delete` is
one step; the code frees the lock and the arrays before it clears the pointer
(`UltraSonic.c:295-306`), and a reader that enters in between is one more that is
caught.

### Deque, Frames, Scaling, Addresses, Strings

`Deque` keeps the array, `head` and `tail` of the code, with every `malloc` free to
fail; `heard` is the size as the callbacks tell it and `heap` the payloads allocated.
`EnsuredCapacity` gives the objects that `CBuffer_EnsureCapacity` may leave. `DequeSpec`
says that a push adds at an end, perhaps at the cost of the oldest element, that size
and callbacks agree, and that there are as many payloads as elements.

`Frames` works on the 40 bytes of a frame that vary: the 80 bytes of `Header.Info`, which
the writers leave to their callers, and unused bytes of the body are left out. Checksum
and CRC are those of the code, bit by bit; the sum of the 32 bytes they cover here never
reaches the carry that the code folds back. The signature leaves out the
multiplication and the last XOR-shift of `NodeAuth.c:17-18`, both bijections.
`E2E.h:13` and `UpdateCS8` (`E2E.c:71`) belong to a format no service sends.

`Scaling` chains `ConvertPercent2Raw` and `ConvertRaw2Percent` as a peer does that
commands again what a heartbeat reported: each round may lose one percent.

`Addresses` gives an integer as the sequence of its octets. `sscanf` takes any number
for a segment and the cast keeps its low byte (`Network.c:155`). `WriteMAC` hands the
chip the memory of an integer, lowest byte first, so that it answers to the MAC
address of the configuration reversed; nothing turns it back, and
`AddressIsKept` takes it as it is: `turned`.

`Strings` gives both libraries the same calls. The array conversions compute the buffer
they print into (6 bytes for each `uint8_t`, and so on): `factor`. Calls that pass an
object its own text are not modelled, nor is a number cut off by the 64 bytes read back.

### Monitor

Each action is one event of the GUI thread; `Receive` is the listener thread, and
`pending` the queue of Qt. A modal dialog lets the queue go on, not the main window.
`monitor_ui.py` has no widget `ZECU_List`, so `get_active_ecu_name` gives None and every
command is for all nodes of its zones. `replace` is `ALLOW_AUTO_REPACE_ZECU`, 0 as
committed, and free in the model: with 0 a dead node keeps its zone's only slot until it
is removed by hand. A removal does not last: the node's next heartbeat lets it in again.
`remove_ecu` filters a list by name; since a list never has a name twice, `Without` takes
out one entry.
`tx` is what the last event sent, `drag` the slider that the mouse holds with all values
operator and telemetry gave it, `latest` a history variable. The keep-alive timer is
compiled off; the listener's and the dialog's sockets share a port (`SO_REUSEPORT`), so a
frame goes to either.

## What the runs check

| run | instance | what it shows |
|---|---|---|
| `PoolTx` | 2 producers, 1 consumer, 2 slots, 3 packets, 1 oversized | types; whole packets; the best seen is claimed; NULL strands nothing; the foremost packet is delivered |
| `PoolRx` | 1 producer, 2 consumers, the same | one owner per slot, no leak; drop only when full; zero is zero; refinement of `PacketExchange` |
| `PairCrash` | 1 CCU, crashes, button, flash that may not be written, 3 in flight, 5 challenges, `MaxAge` 1 | types; connected means saved; what is sent to a half-written endpoint; reconnects after its last reboot |
| `PairLive` | 2 CCUs, button, flash that may not be read, 2 in flight, 4 challenges, `MaxAge` 1 | flash holds one endpoint; authentication ends; discoverable |
| `PairTwoCCUs` | 2 CCUs | **violated**: the endpoint saved is the one validated |
| `PairTimeout` | 1 CCU | **violated**: connected stays connected until something says otherwise |
| `EthTasks` | 2 senders, pools of 2 and 3, chip of 2, 4 arrivals | nobody sleeps on an interrupt or a packet; no ghost read; what is queued moves on, without the 500 s timeout |
| `EthBurst` | 1 sender, 3 arrivals | **violated**: a burst is read before the task sleeps |
| `MotorTasks` | 2 setters, 1 impatient reporter, `MotorRuntime`; `MaxRetries` 2, `MaxCalls` 1 | types; a clear flag means applied; no garbage speed survives the boot; OK means applied; every call ends |
| `BootUp` | 5 services, `Done` 6, `MaxArrivals` 2, `MaxPushes` 1, any hardware missing | types; each move counts once; pools are ready before a push; the boot completes |
| `Parts` | the parts below | SPI accesses, distances, frames, speeds, addresses, strings; the deque refines `DequeSpec` |
| `Monitor` | 4 names, one with two addresses; `MaxNum` 1, `MaxPending` 1, speeds 0 and 50 | registries agree; commands go where and say what was meant |

Bounds. A pool of 2 slots has a slot behind and a slot before a scan, can be full, and
lets packets of both kinds of priority, with ties, meet; two actors on a side give every
race for one slot. Packet identities are reused, so behaviours do not end. The proofs
cover every size. For pairing, 2 datagrams in flight let a request of one CCU pass an
answer of the other, 3 let repeated answers cross a new challenge; `MaxAge` only has to
let the timeout come before, between and after answers. `FlashFaults` names the accesses
to flash that may fail: a load that fails leaves a node unconnected with its endpoint in
flash, against which the code has nothing, so that `PairLive` has it and `Reconnects`
has not. For the driver, 2 datagrams fit the chip, 4 arrivals fill it twice, and pools
of 2 and 3 are full at times.

For the motor, a `MaxRetries` of 2 has a first and a last round, so that calls can
succeed, retry, and give up; 2 is above `MaxDuty`, and -2, which `malloc` leaves, is no
speed anybody asks for. A level that ends at `Done` 6 is reached by the services
alone or with `AppInit`, above every gate (1, 3, 4), as 255 is; 2 arrivals let a reboot
be followed by another. In `Parts`: `SpiBus` has 2 users, 6 registers and 4 accesses
(reads and writes, fixed and variable length, one read copied late) with
`MaxPayload` 3; `Ranging` 2 sensors, 2 readers, echoes of 580 and 5820 us or none;
`Deque` two payloads, `MaxSize` 5 for 256 and `GrowPercent` 50 for 15, so that the array
grows by more than one and hits its limit, `Requests` 0, 3 and 9; `Frames` all frame
types with 2 `Seeds`, `MaxFlips` 3 changes among 8 `Weak` bits of header, body and
trailer, 2 `Challenges`; `Scaling` all of `int8_t`, `MaxEchoes` 3; `Addresses` the
`Segments` -1, 0, 192 and 300 and a MAC, `MaxSteps` 5 conversions; `Strings` a piece of 40
characters (two do not fit 64 bytes), `Lengths` 62, arrays of up to `MaxItems` 3
extreme `int64_t`, `MaxText` 120, `MaxCalls` 4. The parts share no variable, so one after
the other is as good as all at once. In `Monitor` a zone of `MaxNum` 1 is full at once,
and one heartbeat in the queue (`MaxPending`) is enough to be handled after a removal.

Fairness. FreeRTOS runs a ready task: weak fairness of each task's steps. In `Pairing`
the button is not held for ever (strong fairness of `ButtonUp`); the network and the CCU
owe nothing; `Reconnects` has as its premise that reboots come to an end, without which
no boot need be finished. In `EthDriver` the chip answers each SEND, and a SEND whose
read pointer does not follow is not re-issued for ever (strong fairness of `SendEnd`);
the code has no bound of its own for either. `Eth_Runtime` owes a wake-up to a
notification and none to its timeout (`WF_vars(Main /\ (mpc = "sleep" => mnote))`),
which would hide a notification that is lost. Sending is live only once the network
pauses (`MaxArrivals`): the communication task reads as long as datagrams come
(`Module.c:304-324`). It notifies `Eth_Runtime` only after it has emptied TxPool
(`:329-338`), so that `RxHandled` has as its premise that it gets done with the senders
again and again: they send every 200 ms at most, or for a pulse on a pin. In
`PacketPool` a call that began ends, and a consumer asks again; no producer owes a push.
In `Motor` each task's steps are weakly fair, setters owe no call; in `StartUp` each
task's steps, the reboot and `AppInit`'s wake-up are, arrivals and pushes owe nothing.
`Parts` and `Monitor` state safety alone. Deadlock is checked for pools, pairing and
driver; the other runs end when their bounded calls are made (`MotorTasks`, `BootUp`,
`Parts`, `Monitor`: `CHECK_DEADLOCK FALSE`), and `Settles` and `BootCompletes` say that
the first two end well.

### What the violated runs say

- `PairTwoCCUs`: `CCU_EP` is set by any pairing request, `last_challenge` answered
  by any CCU, and `Module.c:207` saves the endpoint of the moment. With two CCUs the
  node may save, and connect to, one that answered nothing, while the CCU that did
  answer gets no telemetry.
- `PairTimeout`: the elapsed time is tested at `Module.c:366`, a message is logged
  over the UART, and `:368` assigns BROADCAST. An answer accepted in between is
  undone: the CCU believes it is connected, the endpoint is in flash, and the node
  broadcasts. The entry of `App_ConnectCCU` (`:315-316`) is the same race with the
  pairing request.
- `EthBurst`: `Module.c:284` clears every bit of `Sn_IR` after one datagram is read. With
  two in the chip, in TLC's trace before the ISR runs, but whenever the second arrived,
  the second stays in the chip, the task goes to sleep, and from then on each interrupt
  delivers the datagram before the last. Nothing worse: no interrupt is lost for good
  (`InterruptSeen`), and no datagram is read that is not there (`NoGhostRead`).

### What the models keep of the code and no property forbids

Four more places where the code is not what is written of it. The models have each as
the code has it, and the properties take it as it is:

- `Pairing`: the response to an engine command goes to `CCU_EP` with no test of the state
  (`HeartBeat/Module.c:282`), although `:473` says of the same frame "Do not dispatch
  telemetry if not fully connected". A command to a node that has just booted, with
  nothing in flash, is answered to address 0. `SentWhole` says the rest: such a response
  leaves for half an endpoint only while `NVS_LoadCCUEndpoint` writes it.
- `SpiBus`: `W5500_GetModuleVersion` drives the chip-select line without `W5500_Lock`
  (`EthernetW5500.c:405`), in the middle of a register access or within its selection, and
  the byte read is then none of the chip's. `EthernetW5500.h:227` says "with
  thread-safety". `AccessesAreWhole` is about the accesses that no version read has met.
- `Ranging`: without a sensor object a reader is given 0 (`UltraSonic/Module.c:8`), and its
  callers take it for a distance. `UltraSonic/Module.h:9` says 0xFFFF.
- `Addresses`: the chip is given the MAC address reversed (`EthernetW5500/Module.c:375`);
  `AddressIsKept` says that nothing worse happens to it.

## What is proved

Each theorem holds for every value of the constants that the `ASSUME` of its module and
the hypotheses below allow; sets of tasks, packets, CCUs and so on may be infinite.

| module | theorem | property | hypotheses |
|---|---|---|---|
| `PacketPoolProofs` | `TypeCorrect` | `TypeOK` | |
| | `MutualExclusion` | `OneOwner` | |
| | `NoTornPacket` | `WholePackets` | |
| | `PoolImplementsExchange` | `ImplementsExchange` (refinement) | |
| | `BestIsClaimed`, `NullIsTrue`, `DropIsTrue` | `ClaimsBestSeen`, `NullMeansNothing`, `DropMeansFull` | |
| | `ZeroIsTrue` | `ZeroMeansEmpty` | `NSlots < 256` |
| `MotorProofs` | `MotorTypeCorrect` | `TypeOK` | |
| | `FlagsTellTheTruth` | `AppliedWhenClear` | |
| | `GarbageIsGone` | `NoWildSpeed` | |
| | `SuccessIsApplied` | `OkMeansApplied` (of steps) | |
| `EthDriverProofs` | `EthTypeCorrect` | `TypeOK` | |
| | `ReceptionGoesOn` | `InterruptSeen` | |
| | `SendersAreServed`, `ReceivedIsTold` | `TxNotStranded`, `RxNotStranded` | |
| | `ReadsAreReal` | `NoGhostRead` | |
| `StartUpProofs` | `StartTypeCorrect` | `TypeOK` | |
| | `NoMoveIsLost` | `EveryMoveCounts` | |
| | `PoolsComeFirst` | `PoolsReady` | `OneOfTwo`: not both Motor and Location |
| `PairingProofs` | `PairTypeCorrect` | `TypeOK` | |
| | `ConnectionSurvives` | `ConnectedIsSaved` | |
| | `NothingSentHalfWritten` | `SentWhole` | one CCU |
| | `EndpointSavedWhole` | `SavedWhole` | no reboot (`Crashes = FALSE`) |
| | `OneCCUSavesValidated` | `SavesValidated` (of steps) | one CCU |
| `PartsProofs` | `UnmetAccessesAreWhole` | `AccessesAreWhole` | `AccessesFitTheChip` |
| | `ReadersGetMeasurements` | `AnswersAreMeasured` | `PulsesAreDurations` |
| | `SpeedsDriftSlowly` | `SpeedsAreKept` | `PercentsAreNumbers` |
| | `ConversionsKeepAddresses` | `AddressIsKept` | `AddressesAreBytes` |
| `BufferProofs` | `DequeKeepsItsPromises` | `DequeImplements` (refinement) | `DequeSizesFit` |
| | `StringsAreAlike` | `StringsAgree` | `PiecesAreTexts` |
| | `DamageIsRefused` | `AcceptedIsWritten`, where the bits that changed are of one byte | `FramesAreBytes` |
| `MonitorProofs` | `CommandsReachTheirNodes` | `CommandsFitRegistry` | `MaxNumAssumption`, `HeartbeatsAssumption` |

### Why the hypotheses

- `NSlots < 256`: `RxedPacket_Size` counts in a `uint8_t`, and 256 READY slots count as
  zero. The code has 32.
- `OneOfTwo`: `Eth_Runtime`, `Motor` and `Location` share a gate, and each moves the level
  once it is past it. With both of the others, their two moves and the first two of
  `AppInit` open the senders' gate before `Eth_Runtime` has reset the pools, and TLC finds
  a packet lost so.
  `AppConfig/Comm/Comm.h:65` disables the location service. Whoever enables it has to
  look at the gates again.
- One CCU: with two, a request stores one word of its endpoint between two reads of the
  sender, or a load from flash is mixed with a request (`SentWhole`), and `PairTwoCCUs`
  shows what it does to `SavesValidated`.
- No reboot: a challenge is a tick count, which recurs after a reboot. An answer from
  before it is then right for an endpoint of which `HeartBeatRuntime` has loaded one word
  and a pairing request stored the other; with two CCUs and reboots TLC finds flash so.
- `AccessesFitTheChip`: an access is one that the register functions make and within the
  chip's registers. `DequeSizesFit`: the limit of a deque is positive, growth and requests
  are not negative, and NULL is no payload. The other assumptions of `Parts` give its
  constants their types: durations are natural numbers, percentages and the segments of an
  address integers, a MAC address six bytes, the bits that change bits of the frame, a
  challenge eight bytes, pieces of text sequences, and `ArrayKinds` names among the eight
  element types. `Parts` asserts them of its constants, so that the run checks
  that its instance meets them.
- `HeartbeatsAssumption`: a heartbeat names a node that the monitor can place and carries a speed for each side. `MaxNumAssumption`: a zone has room for a node.

### The inductive invariants

Hardly any of the properties is inductive as it stands. Each module of proofs defines the
invariant it needs, mostly a conjunction of named parts, and TLC has checked each of them
on a small instance.

- *PacketPool.* `OneOwner` counts owners. The invariant says instead, for each slot and
  task, that a task inside a slot finds it claimed its way, that two tasks inside one
  slot are the same, that a claimed slot has a task inside, and what its owner has copied
  already; that a packet is carried by one push or lies in one slot. Each step preserves
  it because a claim changes FREE or READY, states nobody is inside. The cardinalities
  follow from uniqueness and existence; whole packets from what a push in its last
  step has copied; the refinement step by step, `PushPublish` being the offer,
  `GetClaim` the taking and `Release` the letting go, all others stutters. For a task
  alone on its side, `SoleConsumer` and `SoleProducer` add what its scan has passed: what
  was READY (FREE) when the call began still is, for only that task could take it, and
  what has been passed of it is no better than the best so far (is nothing).
- *Motor.* `Places` says who may hold the lock, `NothingPending` that nobody raises the
  flag between `RuntimeApply` and `RuntimeClear`, since that needs the lock: with it,
  clearing all flags clears none that was not applied. `BootOrder` follows the two
  calls that replace what `malloc` left.
- *EthDriver.* A task that sleeps is awaited by what wakes it: `RecvNoticed` and `TxNoticed`
  say at which steps the other side still has its notification to give, and the task
  still has its look to take. `RecvMeansData` ties the RECV bit to a datagram.
- *StartUp.* A load that is not stale is the level, so `level = moves` needs only that the
  level never falls (`Bounded`). `SendersHeld` bounds the level while `Eth_Runtime` has
  yet to reset the pools: `AppInit`'s second move opens its gate, and `AppInit` does not
  wake before it is through (`Prompt`); with one move of a service that is 3, below the
  senders' gate.
- *Pairing.* `Known` says what each step of either task knows of the two words of
  `CCU_EP`, which nothing but a reboot clears. `MixedUp`: the two get mixed up only while
  flash is loaded, when no challenge is in flight, and none can be until a request has
  stored a whole endpoint; so a right answer finds one (`AnswerWhole`). `Halves`: an
  address is without its port only at two steps, and the one of them that is
  `ParsePacket`'s excludes the response, which is a later step of the same task.
- *SpiBus.* `Built` says what of the shared frame is ready at each step of the holder of the
  lock, `Alone` that a call that no version read has met has the chip to itself,
  `NotReused` that the frame of a late copy is overwritten only by a call that notes it.
- *Ranging.* `Stored`: each distance is a fair filter of the samples behind it, or the 0 of
  cleared memory as long as it can be. The filter is `FilteredIsFair`: in each case there
  are enough samples on either side of the value, and no echo is long enough to saturate.
- *Deque.* `WellFormed`: the head is `size` slots after the tail, and exactly those slots
  hold payloads. `View` is the sequence so stored, and the state of `DequeSpec`. Pushes,
  pops, evictions and reallocations are lemmas about `View`.
- *Scaling.* `SpeedsInv`: a report never exceeds what was commanded. A round of
  `LinearScale` there and back loses one at most and nothing of the sign (`ThereAndBack`).
- *Addresses.* `AddressInv` says of each form a value may have (text, bytes, an integer) where
  it has the octets that were meant. The loops over an address are functions of at most eight
  octets, so each unrolls.
- *Strings.* `StringsInv`: each object counts its text right, `fixed` has the first 63
  characters of `dynamic` while `alike`, and the text of an object written from an array is
  that array printed. What `Joined`, `Joined64` and `Converted` compute is proved for arrays of
  any length: `Recursion` says that such a function exists, `Induction` takes its values in
  turn. `Layout` says where each number stands in the text, `JoinedFits` that the computed
  buffer is never too small, `Joined64Is` that the 64 bytes stop where the first 63 characters
  do, and `ReadBack` collects the numbers again, the last first.
- *Frames.* `FrameInv`: the frame is what was written last (`Pristine`) with the changed bits
  changed (`Hit`). `WrittenHolds`: a written frame verifies and reads back, for any values,
  since its fields lie apart (`AllFieldsLie`). `OneByteTells`: of two frames that differ in
  one byte at most one verifies. A byte before the trailer shifts the sum, which is too small
  here to be folded (`ChecksumTells`); one of the trailer is compared itself. `MACsDiffer`:
  the signature only permutes bits, so no other challenge has it. That a byte is its bits
  (`BitsOfByte`, `ByteOfBits`) is behind both.
- *Monitor.* `Registered`: each list of a zone has nodes of that zone, none twice, each at its
  last address, and the plots know just the nodes of the zones. `Dragged` ties what a slider
  shows to what it was given, `Transmitted` each frame sent to a node registered now.

### Only model-checked

All liveness (`ForemostDelivered`, `AuthenticationEnds`, `Discoverable`, `Reconnects`,
`TxLeaves`, `RxHandled`, `Settles`, `BootCompletes`), and with it `ENABLED`: beyond the
prover. Of `AcceptedIsWritten`, that changes in several bytes are refused: the theorem is about
the states in which they lie in one. It is false of arbitrary changes, which a sum of 16 bits
and a CRC of 32 cannot all see; the run changes up to three bits of `Weak`, in the header, the
fields and the trailer, some of which leave the sum as it was.

The library's induction theorems take an operator for the formula, which no prover here can
instantiate. Where a proof needs induction over data (`Strings`), it is over the members
of a set of numbers, and follows from the well-foundedness of their order (`Least`,
`Induction` in `BufferProofs`).

## Plan

Modelled and checked: all modules above. Proved: every invariant and action property that a
run checks, `AcceptedIsWritten` for changes within a byte, and both refinements. What is left:

1. `Frames`: which changes of several bytes the checksum and the CRC see together, beyond the
   `Weak` bits of the run.
2. Hazards without a property (`PROJECT.json`): telemetry of a speed that was not read,
   the pin configuration that fails while a reader is inside, telemetry that moves a slider
   the operator holds.

## Not modelled

Text, logging and views; the location receiver (disabled); ESP-IDF wrappers; the
configuration generator; offline scripts; timing beyond order. Of the libraries:
`E2E.c`, `SOMEIP.c`, `E2EComputeHelper.c` and the parser of `TempControlFrame.c`, which no
service calls; find and compare of strings, bit macros. Reception on the raw socket and
the emergency stop are not compiled. Weak memory does
not arise in what is modelled as steps: pool states are sequentially consistent
atomics, and what `Pairing` shares is `volatile` or constant in its low half (the
64-bit challenge). `IPv4EndPoint_t` is packed, so that the compiler may access
its address byte by byte; `Pairing` tears the endpoint between its two words only.
An address made of bytes of two is nobody's, as an address of one with the port of
another is: both lose the datagram.

## Running

    tlc -workers 2 -config PoolTx.cfg MCPacketPool     (and so on, per PROJECT.json)
    tlapm PacketPoolProofs.tla        (and the other modules named *Proofs)
