----------------------------- MODULE PacketPool -----------------------------
(***************************************************************************)
(* The lock-free packet pool of the W5500 driver                           *)
(* (components/AppComm/EthernetW5500/PacketQueue.c).  RxPool and TxPool    *)
(* are two instances of the same algorithm: a fixed array of slots, each   *)
(* with an atomic State; a push scans for a FREE slot and claims it by     *)
(* compare-and-swap, copies the packet, and publishes it; a get scans all  *)
(* slots for the READY packet with the lowest first byte and claims it by  *)
(* compare-and-swap; release frees the slot.                               *)
(*                                                                         *)
(* Every load, compare-and-swap, store and copy is a step of its own.  The *)
(* copy has two parts, the payload (body) and the endpoint (addr), so that *)
(* a packet made of two halves is a state the model can be in.             *)
(*                                                                         *)
(* A packet is an identity that is in the pool at most once: the caller    *)
(* that pushes packet k has a copy nobody else is pushing or holding.      *)
(* The identity may be pushed again once its slot is released, so that     *)
(* behaviours are infinite while the states are finitely many.             *)
(***************************************************************************)
EXTENDS Integers, FiniteSets

CONSTANTS
  Producers,    \* tasks that push into the pool
  Consumers,    \* tasks that take from the pool
  Packets,      \* packet identities
  Oversized,    \* the packets longer than 1500 bytes
  Prio,         \* first byte of a packet's payload, its priority
  NSlots,       \* MAX_NUM_RXED_PACKETS, MAX_NUM_TXED_PACKETS
  Blank         \* content of a slot never written (static memory, zero)

ASSUME NSlotsAssumption == NSlots \in Nat \ {0}
ASSUME PacketsAssumption ==
  /\ Oversized \subseteq Packets
  /\ Blank \notin Packets
  /\ Prio \in [Packets -> 0..255]

Slots == 0 .. NSlots - 1
None  == -1
Valid == Packets \ Oversized

VARIABLES
  state,  \* state[s]: the atomic PacketSlot_t.State
  body,   \* body[s]: the packet whose payload is in Data
  addr,   \* addr[s]: the packet whose endpoint is in SrcIP, SrcPort
  ppc, ppkt, pidx, pcnt,          \* per producer: locals of a push or a count
  cpc, cidx, cbest, cprio,        \* per consumer: locals of a get, then the slot held
  freeAtPush,   \* history: slots FREE when producer p's push began
  readyAtGet    \* history: slots READY when consumer c's get began

slotVars == <<state, body, addr>>
prodVars == <<ppc, ppkt, pidx, pcnt, freeAtPush>>
consVars == <<cpc, cidx, cbest, cprio, readyAtGet>>
vars     == <<slotVars, prodVars, consVars>>

Copying == {"data", "addr", "publish"}

\* The slots in state x.
In(x) == {s \in Slots : state[s] = x}

\* A packet is in use while a push carries it, or a slot offers or lends it.
InUse(k) ==
  \/ \E p \in Producers : ppc[p] \in Copying \cup {"scan"} /\ ppkt[p] = k
  \/ \E s \in Slots : state[s] \in {"READY", "READING"} /\ body[s] = k

\* Data[0] of a slot.
HeadByte(s) == IF body[s] \in Packets THEN Prio[body[s]] ELSE 0

-----------------------------------------------------------------------------
(* RxedPacket_Init: every slot FREE. *)
Init ==
  /\ state = [s \in Slots |-> "FREE"]
  /\ body  = [s \in Slots |-> Blank]
  /\ addr  = [s \in Slots |-> Blank]
  /\ ppc   = [p \in Producers |-> "idle"]
  /\ ppkt  = [p \in Producers |-> Blank]
  /\ pidx  = [p \in Producers |-> 0]
  /\ pcnt  = [p \in Producers |-> 0]
  /\ cpc   = [c \in Consumers |-> "idle"]
  /\ cidx  = [c \in Consumers |-> 0]
  /\ cbest = [c \in Consumers |-> None]
  /\ cprio = [c \in Consumers |-> 0]
  /\ freeAtPush = [p \in Producers |-> {}]
  /\ readyAtGet = [c \in Consumers |-> {}]

-----------------------------------------------------------------------------
(* RxedPacket_Push, TxPacket_Push. *)

\* The size check refuses the packet before the pool is touched.
PushRefused(p, k) ==
  /\ ppc[p] = "idle"
  /\ k \in Oversized
  /\ ppc' = [ppc EXCEPT ![p] = "refused"]
  /\ UNCHANGED <<slotVars, ppkt, pidx, pcnt, freeAtPush, consVars>>

PushBegin(p, k) ==
  /\ ppc[p] = "idle"
  /\ k \in Valid
  /\ ~InUse(k)
  /\ ppc'  = [ppc  EXCEPT ![p] = "scan"]
  /\ ppkt' = [ppkt EXCEPT ![p] = k]
  /\ freeAtPush' = [freeAtPush EXCEPT ![p] = In("FREE")]
  /\ UNCHANGED <<slotVars, pidx, pcnt, consVars>>

\* The compare-and-swap FREE -> WRITING succeeds.
PushClaim(p) ==
  /\ ppc[p] = "scan"
  /\ pidx[p] \in In("FREE")
  /\ state' = [state EXCEPT ![pidx[p]] = "WRITING"]
  /\ ppc' = [ppc EXCEPT ![p] = "data"]
  /\ UNCHANGED <<body, addr, ppkt, pidx, pcnt, freeAtPush, consVars>>

\* Mutant: the scan does not stop at the last slot.
PushSkip_unbounded(p) ==
  /\ ppc[p] = "scan"
  /\ pidx[p] \notin In("FREE")
  /\ pidx' = [pidx EXCEPT ![p] = @ + 1]
  /\ UNCHANGED <<slotVars, ppc, ppkt, pcnt, freeAtPush, consVars>>

\* It fails: try the next slot.
PushSkip(p) ==
  /\ ppc[p] = "scan"
  /\ pidx[p] \in Slots \ In("FREE")
  /\ pidx' = [pidx EXCEPT ![p] = @ + 1]
  /\ UNCHANGED <<slotVars, ppc, ppkt, pcnt, freeAtPush, consVars>>

\* Mutant: the last slot is never tried.
PushOverflow_early(p) ==
  /\ ppc[p] = "scan"
  /\ pidx[p] = NSlots - 1
  /\ ppc' = [ppc EXCEPT ![p] = "dropped"]
  /\ UNCHANGED <<slotVars, ppkt, pidx, pcnt, freeAtPush, consVars>>

\* No slot was FREE when its turn came: the packet is dropped.
PushOverflow(p) ==
  /\ ppc[p] = "scan"
  /\ pidx[p] = NSlots
  /\ ppc' = [ppc EXCEPT ![p] = "dropped"]
  /\ UNCHANGED <<slotVars, ppkt, pidx, pcnt, freeAtPush, consVars>>

\* Mutant: the endpoint is not copied.
PushCopyData_only(p) ==
  /\ ppc[p] = "data"
  /\ body' = [body EXCEPT ![pidx[p]] = ppkt[p]]
  /\ ppc'  = [ppc EXCEPT ![p] = "publish"]
  /\ UNCHANGED <<state, addr, ppkt, pidx, pcnt, freeAtPush, consVars>>

PushCopyData(p) ==
  /\ ppc[p] = "data"
  /\ body' = [body EXCEPT ![pidx[p]] = ppkt[p]]
  /\ ppc'  = [ppc EXCEPT ![p] = "addr"]
  /\ UNCHANGED <<state, addr, ppkt, pidx, pcnt, freeAtPush, consVars>>

PushCopyAddr(p) ==
  /\ ppc[p] = "addr"
  /\ addr' = [addr EXCEPT ![pidx[p]] = ppkt[p]]
  /\ ppc'  = [ppc EXCEPT ![p] = "publish"]
  /\ UNCHANGED <<state, body, ppkt, pidx, pcnt, freeAtPush, consVars>>

PushPublish(p) ==
  /\ ppc[p] = "publish"
  /\ state' = [state EXCEPT ![pidx[p]] = "READY"]
  /\ ppc'   = [ppc EXCEPT ![p] = "stored"]
  /\ UNCHANGED <<body, addr, ppkt, pidx, pcnt, freeAtPush, consVars>>

\* The call has returned "refused" (STAT_ERR_INVALID_ARG), "dropped"
\* (STAT_ERR_OVERFLOW), "stored" (STAT_OKE) or a count, and the caller has
\* acted on it.  The locals of the call are gone.
PushReturn(p) ==
  /\ ppc[p] \in {"refused", "dropped", "stored", "counted"}
  /\ ppc'  = [ppc  EXCEPT ![p] = "idle"]
  /\ ppkt' = [ppkt EXCEPT ![p] = Blank]
  /\ pidx' = [pidx EXCEPT ![p] = 0]
  /\ pcnt' = [pcnt EXCEPT ![p] = 0]
  /\ freeAtPush' = [freeAtPush EXCEPT ![p] = {}]
  /\ UNCHANGED <<slotVars, consVars>>

-----------------------------------------------------------------------------
(* RxedPacket_Size, TxPacket_Size, and Empty, which is Size() == 0.  The   *)
(* task that counts RxPool is the one that pushes into it.                 *)

SizeBegin(p) ==
  /\ ppc[p] = "idle"
  /\ ppc' = [ppc EXCEPT ![p] = "count"]
  /\ UNCHANGED <<slotVars, ppkt, pidx, pcnt, freeAtPush, consVars>>

SizeCount(p) ==
  /\ ppc[p] = "count"
  /\ pidx[p] \in Slots
  /\ pcnt' = [pcnt EXCEPT ![p] =
                IF state[pidx[p]] = "READY" THEN (@ + 1) % 256 ELSE @]
  /\ pidx' = [pidx EXCEPT ![p] = @ + 1]
  /\ UNCHANGED <<slotVars, ppc, ppkt, freeAtPush, consVars>>

\* Mutant: the last slot is not counted.
SizeReturn_early(p) ==
  /\ ppc[p] = "count"
  /\ pidx[p] = NSlots - 1
  /\ ppc' = [ppc EXCEPT ![p] = "counted"]
  /\ UNCHANGED <<slotVars, ppkt, pidx, pcnt, freeAtPush, consVars>>

SizeReturn(p) ==
  /\ ppc[p] = "count"
  /\ pidx[p] = NSlots
  /\ ppc' = [ppc EXCEPT ![p] = "counted"]
  /\ UNCHANGED <<slotVars, ppkt, pidx, pcnt, freeAtPush, consVars>>

-----------------------------------------------------------------------------
(* RxedPacket_GetHighestPriority, TxPacket_GetHighestPriority.             *)

\* Mutant: the scan starts at the second slot.
GetBegin_atOne(c) ==
  /\ cpc[c] = "idle"
  /\ cpc'  = [cpc  EXCEPT ![c] = "load"]
  /\ cidx' = [cidx EXCEPT ![c] = 1]
  /\ readyAtGet' = [readyAtGet EXCEPT ![c] = In("READY")]
  /\ UNCHANGED <<slotVars, cbest, cprio, prodVars>>

GetBegin(c) ==
  /\ cpc[c] = "idle"
  /\ cpc' = [cpc EXCEPT ![c] = "load"]
  /\ readyAtGet' = [readyAtGet EXCEPT ![c] = In("READY")]
  /\ UNCHANGED <<slotVars, cidx, cbest, cprio, prodVars>>

\* The load of State finds READY: Data[0] is read next, in a step of its own.
GetSeeReady(c) ==
  /\ cpc[c] = "load"
  /\ cidx[c] \in In("READY")
  /\ cpc' = [cpc EXCEPT ![c] = "prio"]
  /\ UNCHANGED <<slotVars, cidx, cbest, cprio, readyAtGet, prodVars>>

GetSkip(c) ==
  /\ cpc[c] = "load"
  /\ cidx[c] \in Slots \ In("READY")
  /\ cidx' = [cidx EXCEPT ![c] = @ + 1]
  /\ UNCHANGED <<slotVars, cpc, cbest, cprio, readyAtGet, prodVars>>

\* Mutants: the largest first byte wins; the first slot wins.
Better_largest(c)  == cbest[c] = None \/ HeadByte(cidx[c]) > cprio[c]
Better_firstSlot(c) == cbest[c] = None

\* Is the packet now under the index better than the best one so far?
Better(c) == cbest[c] = None \/ HeadByte(cidx[c]) < cprio[c]

GetCompare(c) ==
  /\ cpc[c] = "prio"
  /\ cbest' = [cbest EXCEPT ![c] = IF Better(c) THEN cidx[c] ELSE @]
  /\ cprio' = [cprio EXCEPT ![c] = IF Better(c) THEN HeadByte(cidx[c]) ELSE @]
  /\ cidx'  = [cidx  EXCEPT ![c] = @ + 1]
  /\ cpc'   = [cpc   EXCEPT ![c] = "load"]
  /\ UNCHANGED <<slotVars, readyAtGet, prodVars>>

\* Mutant: a plain store instead of the compare-and-swap.
GetClaim_store(c) ==
  /\ cpc[c] = "load"
  /\ cidx[c] = NSlots
  /\ cbest[c] \in Slots
  /\ state' = [state EXCEPT ![cbest[c]] = "READING"]
  /\ cpc'   = [cpc EXCEPT ![c] = "hold"]
  /\ UNCHANGED <<body, addr, cidx, cbest, cprio, readyAtGet, prodVars>>

\* The compare-and-swap READY -> READING on the best slot succeeds.
GetClaim(c) ==
  /\ cpc[c] = "load"
  /\ cidx[c] = NSlots
  /\ cbest[c] \in In("READY")
  /\ state' = [state EXCEPT ![cbest[c]] = "READING"]
  /\ cpc'   = [cpc EXCEPT ![c] = "hold"]
  /\ UNCHANGED <<body, addr, cidx, cbest, cprio, readyAtGet, prodVars>>

\* NULL: no slot was READY when looked at, or the compare-and-swap failed.
GetNull(c) ==
  /\ cpc[c] = "load"
  /\ cidx[c] = NSlots
  /\ cbest[c] \notin In("READY")
  /\ cpc' = [cpc EXCEPT ![c] = "null"]
  /\ UNCHANGED <<slotVars, cidx, cbest, cprio, readyAtGet, prodVars>>

\* The locals of the get are gone, and the slot is no longer the consumer's.
Forget(c) ==
  /\ cpc'   = [cpc   EXCEPT ![c] = "idle"]
  /\ cidx'  = [cidx  EXCEPT ![c] = 0]
  /\ cbest' = [cbest EXCEPT ![c] = None]
  /\ cprio' = [cprio EXCEPT ![c] = 0]
  /\ readyAtGet' = [readyAtGet EXCEPT ![c] = {}]

\* The caller has acted on the NULL.
NullReturn(c) ==
  /\ cpc[c] = "null"
  /\ Forget(c)
  /\ UNCHANGED <<slotVars, prodVars>>

\* Mutant: the slot is offered again.
Release_ready(c) ==
  /\ cpc[c] = "hold"
  /\ state' = [state EXCEPT ![cbest[c]] = "READY"]
  /\ Forget(c)
  /\ UNCHANGED <<body, addr, prodVars>>

(* RxedPacket_Release, TxPacket_Release: a plain store, no check.          *)
Release(c) ==
  /\ cpc[c] = "hold"
  /\ state' = [state EXCEPT ![cbest[c]] = "FREE"]
  /\ Forget(c)
  /\ UNCHANGED <<body, addr, prodVars>>

-----------------------------------------------------------------------------
\* The steps of a push or a count that has begun.
PushStep(p) ==
  \/ PushClaim(p) \/ PushSkip(p) \/ PushOverflow(p)
  \/ PushCopyData(p) \/ PushCopyAddr(p) \/ PushPublish(p)
  \/ PushReturn(p)
SizeStep(p) == SizeCount(p) \/ SizeReturn(p)

Producer(p) ==
  \/ \E k \in Packets : PushRefused(p, k) \/ PushBegin(p, k)
  \/ PushStep(p)
  \/ SizeBegin(p)
  \/ SizeStep(p)

Consumer(c) ==
  \/ GetBegin(c) \/ GetSeeReady(c) \/ GetSkip(c) \/ GetCompare(c)
  \/ GetClaim(c) \/ GetNull(c) \/ NullReturn(c)
  \/ Release(c)

Next ==
  \/ \E p \in Producers : Producer(p)
  \/ \E c \in Consumers : Consumer(c)

Spec == Init /\ [][Next]_vars

\* A call that has begun runs to its end, and a consumer that is done with one
\* packet asks for the next (the drain loops of Eth_Runtime and of the
\* communication task, woken after a push).  No producer owes another push.
Fairness ==
  /\ \A p \in Producers : WF_vars(PushStep(p)) /\ WF_vars(SizeStep(p))
  /\ \A c \in Consumers : WF_vars(Consumer(c))

FairSpec == Spec /\ Fairness

-----------------------------------------------------------------------------
TypeOK ==
  /\ state \in [Slots -> {"FREE", "WRITING", "READY", "READING"}]
  /\ body \in [Slots -> Valid \cup {Blank}]
  /\ addr \in [Slots -> Valid \cup {Blank}]
  /\ ppc  \in [Producers -> Copying \cup {"idle", "scan", "refused", "dropped",
                                           "stored", "count", "counted"}]
  /\ ppkt \in [Producers -> Valid \cup {Blank}]
  /\ pidx \in [Producers -> 0 .. NSlots]
  /\ pcnt \in [Producers -> 0 .. 255]
  /\ cpc  \in [Consumers -> {"idle", "load", "prio", "hold", "null"}]
  /\ cidx \in [Consumers -> 0 .. NSlots]
  /\ cbest \in [Consumers -> Slots \cup {None}]
  /\ cprio \in [Consumers -> 0 .. 255]
  /\ freeAtPush \in [Producers -> SUBSET Slots]
  /\ readyAtGet \in [Consumers -> SUBSET Slots]

\* A claimed slot has exactly one task inside it: one producer while WRITING,
\* one consumer while READING.  No two tasks share a buffer, and no slot stays
\* claimed by nobody (a leaked slot would shrink the pool for good).
Writes(p, s) == ppc[p] \in Copying /\ pidx[p] = s
Reads(c, s)  == cpc[c] = "hold" /\ cbest[c] = s
OneOwner ==
  \A s \in Slots :
    /\ Cardinality({p \in Producers : Writes(p, s)}) =
         IF state[s] = "WRITING" THEN 1 ELSE 0
    /\ Cardinality({c \in Consumers : Reads(c, s)}) =
         IF state[s] = "READING" THEN 1 ELSE 0

\* What a consumer can claim or is reading is one whole packet: the payload and
\* the endpoint of the same push, and of a push that passed the size check.
WholePackets ==
  \A s \in Slots : state[s] \in {"READY", "READING"} =>
    body[s] = addr[s] /\ body[s] \in Valid

\* A pool with one consumer hands out no packet while one with a smaller first
\* byte, READY since before the get began, is passed over.  (One stored behind
\* the scan is: PacketQueue.h:52 should be read so.)
ClaimsBestSeen ==
  \A c \in Consumers : Consumers = {c} /\ cpc[c] = "hold" =>
    \A s \in readyAtGet[c] : HeadByte(cbest[c]) <= HeadByte(s)

\* A pool with one consumer answers NULL only if nothing was READY when the get
\* began: the drain loop, which stops at NULL, leaves no packet of before.
NullMeansNothing ==
  \A c \in Consumers : Consumers = {c} /\ cpc[c] = "null" => readyAtGet[c] = {}

\* A pool with one producer drops a packet only if it was full when the push
\* began.  (With two producers a free slot may stay behind both scans.)
DropMeansFull ==
  \A p \in Producers :
    Producers = {p} /\ ppc[p] = "dropped" => freeAtPush[p] = {}

\* The only producer of a pool that counts zero READY slots is right when it
\* acts on it: not waking the consumer strands nothing.
ZeroMeansEmpty ==
  \A p \in Producers :
    Producers = {p} /\ ppc[p] = "counted" /\ pcnt[p] = 0 => In("READY") = {}

\* Tasks see the packets through an exchange of whole packets (PacketExchange):
\* each is offered once, taken by at most one consumer, and let go by it.
Exchange == INSTANCE PacketExchange WITH
  Packets <- Valid,
  offered <- {body[s] : s \in In("READY")},
  taken   <- [c \in Consumers |->
                IF cpc[c] = "hold" THEN body[cbest[c]] ELSE Blank]
ImplementsExchange == Exchange!Spec

\* A packet with a first byte below all others is delivered whatever else is
\* pushed meanwhile.  (One that shares its first byte with others is not: the
\* lower slot wins a tie, again and again.)
Foremost(k) == \A j \in Valid \ {k} : Prio[k] < Prio[j]
ForemostDelivered ==
  \A k \in Valid : Foremost(k) =>
    ((\E s \in In("READY") : body[s] = k) ~>
     (\E c \in Consumers : cpc[c] = "hold" /\ body[cbest[c]] = k))
=============================================================================
