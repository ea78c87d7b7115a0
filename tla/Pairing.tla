------------------------------- MODULE Pairing -------------------------------
(***************************************************************************)
(* How a zonal ECU pairs with a central unit (CCU):                        *)
(* components/AppRT/HeartBeat/Module.c, with monitor/MonitorMain.py as the *)
(* CCU.  Two tasks of the ECU share, without a lock, the connection state, *)
(* the endpoint of the CCU and the last challenge:                         *)
(*                                                                         *)
(*   HeartBeatRuntime   broadcasts, sends a challenge to the endpoint of   *)
(*                      the last pairing request until it is answered or   *)
(*                      times out, then sends telemetry;                   *)
(*   Eth_Runtime        runs ParsePacket on each datagram received: a      *)
(*                      pairing request sets the endpoint, a valid answer  *)
(*                      saves it in flash and connects; it answers an      *)
(*                      engine command with telemetry of its own.          *)
(*                                                                         *)
(* Each read or write of a shared variable is a step of its own.  The      *)
(* network loses and reorders datagrams, and the ECU resends its challenge, *)
(* so that one challenge may be answered several times.  The ECU may crash *)
(* between any two steps: flash survives, RAM does not.                    *)
(***************************************************************************)
EXTENDS Integers, FiniteSets

CONSTANTS
  CCUs,         \* central units; each has an address and a port of its own
  Challenges,   \* values of last_challenge
  None,         \* no endpoint, no challenge: memory and flash never written
  Crashes,      \* may the ECU reboot?
  Button,       \* may the BOOT button be pressed?
  FlashFaults,  \* where nvs_open may fail: to "load", "save" or "erase"
  MaxAge,       \* challenges sent before the timeout (10 s, one every 200 ms)
  MaxInFlight   \* datagrams in flight; a datagram beyond is lost

\* A fresh challenge exists beside the last one and those in flight.
ASSUME ChallengesAssumption ==
  /\ None \notin CCUs \cup Challenges
  /\ IsFiniteSet(Challenges)
  /\ Cardinality(Challenges) >= MaxInFlight + 2
ASSUME BoundsAssumption ==
  /\ {Crashes, Button} \subseteq BOOLEAN
  /\ FlashFaults \subseteq {"load", "save", "erase"}
  /\ MaxAge \in Nat \ {0}
  /\ MaxInFlight \in Nat \ {0}

VARIABLES
  state,   \* App_HeartBeat_State
  addr,    \* CCU_EP.Member.Addr: the CCU it is the address of
  port,    \* CCU_EP.Member.Port: the CCU it is the port of
  chal,    \* last_challenge
  nvs,     \* "ccu_ep" in flash: the CCUs its address and its port are of
  hpc,     \* where HeartBeatRuntime is
  tgt,     \* the address HeartBeatRuntime has read for the datagram it sends
  age,     \* challenges sent since auth_start_time
  epc,     \* where ParsePacket, or the response after it, is, in Eth_Runtime
  sender,  \* the CCU whose datagram is being parsed or answered
  etgt,    \* the address Eth_Runtime has read for the telemetry it sends
  net,     \* datagrams in flight
  erased   \* history: flash was erased, or failed to be written, after the last save

ecuVars == <<state, addr, port, chal, nvs, erased>>
hbVars  == <<hpc, tgt, age>>
ethVars == <<epc, sender, etgt>>
vars    == <<ecuVars, hbVars, ethVars, net>>

Endpoint == [addr : CCUs \cup {None}, port : CCUs \cup {None}]
Blank    == [addr |-> None, port |-> None]
Whole(e) == e.addr = e.port /\ e.addr \in CCUs
At(c)    == [addr |-> c, port |-> c]

Message ==
  [type : {"Pairing", "Command"}, from : CCUs]
    \cup [type : {"AuthTX"}, to   : CCUs, chal : Challenges]
    \cup [type : {"AuthRX"}, from : CCUs, chal : Challenges]

\* UDP: a datagram may be lost.
Transmit(rest, m) ==
  \/ net' = rest
  \/ /\ Cardinality(rest) < MaxInFlight
     /\ net' = rest \cup {m}

\* Flash holds what an earlier life of the ECU left there.
Init ==
  /\ state = "BROADCAST"
  /\ addr = None /\ port = None
  /\ chal = None
  /\ nvs \in {Blank} \cup {At(c) : c \in CCUs}
  /\ hpc = "boot" /\ tgt = None /\ age = 0
  /\ epc = "idle" /\ sender = None /\ etgt = None
  /\ net = {} /\ erased = FALSE

-----------------------------------------------------------------------------
(* HeartBeatRuntime, and App_ConnectCCU which it calls.                    *)


Step(from, to) == hpc = from /\ hpc' = to

\* Eth_CallBackSetUp registers the callback and then the response function: a
\* command parsed in between gets no answer, as if it had been lost.
Register ==
  /\ Step("boot", "load")
  /\ UNCHANGED <<ecuVars, tgt, age, ethVars, net>>

\* NVS_LoadCCUEndpoint: nvs_get_blob writes straight into CCU_EP.
LoadAddr ==
  /\ Step("load", "loadPort")
  /\ nvs # Blank
  /\ addr' = nvs.addr
  /\ UNCHANGED <<state, port, chal, nvs, erased, tgt, age, ethVars, net>>

LoadPort ==
  /\ Step("loadPort", "restore")
  /\ port' = nvs.port
  /\ UNCHANGED <<state, addr, chal, nvs, erased, tgt, age, ethVars, net>>

\* Mutant: an endpoint found in flash may be reported missing.
LoadNothing_ignoresFlash ==
  /\ Step("load", "top")
  /\ UNCHANGED <<ecuVars, tgt, age, ethVars, net>>

LoadNothing ==
  /\ Step("load", "top")
  /\ nvs = Blank \/ "load" \in FlashFaults
  /\ UNCHANGED <<ecuVars, tgt, age, ethVars, net>>

Restore ==
  /\ Step("restore", "top")
  /\ state' = "CONNECTED"
  /\ UNCHANGED <<addr, port, chal, nvs, erased, tgt, age, ethVars, net>>

ButtonDown ==
  /\ Button
  /\ Step("top", "erase")
  /\ UNCHANGED <<ecuVars, tgt, age, ethVars, net>>

ButtonUp ==
  /\ Step("top", "check")
  /\ UNCHANGED <<ecuVars, tgt, age, ethVars, net>>

Erase ==
  /\ Step("erase", "reset")
  /\ nvs' = Blank \/ ("erase" \in FlashFaults /\ nvs' = nvs)
  /\ erased' = TRUE
  /\ UNCHANGED <<state, addr, port, chal, tgt, age, ethVars, net>>

Reset ==
  /\ Step("reset", "top")
  /\ state' = "BROADCAST"
  /\ UNCHANGED <<addr, port, chal, nvs, erased, tgt, age, ethVars, net>>

\* The main loop tests the state twice before it sends telemetry.
Check ==
  /\ Step("check", IF state = "CONNECTED" THEN "recheck" ELSE "enter")
  /\ UNCHANGED <<ecuVars, tgt, age, ethVars, net>>

Recheck ==
  /\ Step("recheck", IF state = "CONNECTED" THEN "beatAddr" ELSE "top")
  /\ UNCHANGED <<ecuVars, tgt, age, ethVars, net>>

BeatAddr ==
  /\ Step("beatAddr", "beatPort")
  /\ tgt' = addr
  /\ UNCHANGED <<ecuVars, age, ethVars, net>>

\* The CCU does not answer telemetry: it is not put in the network.
SendBeat ==
  /\ Step("beatPort", "top")
  /\ tgt' = None
  /\ UNCHANGED <<ecuVars, age, ethVars, net>>

\* App_ConnectCCU tests the state, and only then resets it.
Enter ==
  /\ Step("enter", IF state = "AUTH" THEN "bcast" ELSE "enterReset")
  /\ UNCHANGED <<ecuVars, tgt, age, ethVars, net>>

EnterReset ==
  /\ Step("enterReset", "bcast")
  /\ state' = "BROADCAST"
  /\ UNCHANGED <<addr, port, chal, nvs, erased, tgt, age, ethVars, net>>

\* One broadcast a second while the state is BROADCAST.
SendBroadcast ==
  /\ Step("bcast", "sleep")
  /\ state = "BROADCAST"
  /\ UNCHANGED <<ecuVars, tgt, age, ethVars, net>>

Awake ==
  /\ Step("sleep", "bcast")
  /\ UNCHANGED <<ecuVars, tgt, age, ethVars, net>>

LeaveBroadcast ==
  /\ Step("bcast", "isAuth")
  /\ state # "BROADCAST"
  /\ UNCHANGED <<ecuVars, tgt, age, ethVars, net>>

IsAuth ==
  /\ Step("isAuth", IF state = "AUTH" THEN "challenge" ELSE "isConn")
  /\ UNCHANGED <<ecuVars, tgt, age, ethVars, net>>

\* The challenge is the tick count: in one life of the ECU, never one used
\* before.  The count restarts with the ECU, so that one in flight may recur.
InFlight == {m.chal : m \in {x \in net : x.type \in {"AuthTX", "AuthRX"}}}
Used == {chal} \cup (IF Crashes THEN {} ELSE InFlight)
NewChallenge ==
  /\ Step("challenge", "authTest")
  /\ chal' \in Challenges \ Used
  /\ age' = 0
  /\ UNCHANGED <<state, addr, port, nvs, erased, tgt, ethVars, net>>

AuthTest ==
  /\ Step("authTest", IF state = "AUTH" THEN "authAge" ELSE "isConn")
  /\ UNCHANGED <<ecuVars, tgt, age, ethVars, net>>

\* Mutant: the timeout is noticed one challenge too late.
AuthAge_offByOne ==
  /\ Step("authAge", IF age > MaxAge THEN "timeout" ELSE "authAddr")
  /\ UNCHANGED <<ecuVars, tgt, age, ethVars, net>>

AuthAge ==
  /\ Step("authAge", IF age = MaxAge THEN "timeout" ELSE "authAddr")
  /\ UNCHANGED <<ecuVars, tgt, age, ethVars, net>>

Timeout ==
  /\ Step("timeout", "bcast")
  /\ state' = "BROADCAST"
  /\ UNCHANGED <<addr, port, chal, nvs, erased, tgt, age, ethVars, net>>

AuthAddr ==
  /\ Step("authAddr", "authPort")
  /\ tgt' = addr
  /\ UNCHANGED <<ecuVars, age, ethVars, net>>

\* Mutant: every challenge sent restarts the timeout.
SendAuthTX_restarts ==
  /\ Step("authPort", "authTest")
  /\ IF tgt = port /\ tgt \in CCUs
     THEN Transmit(net, [type |-> "AuthTX", to |-> tgt, chal |-> chal])
     ELSE net' = net
  /\ tgt' = None
  /\ age' = 0
  /\ UNCHANGED <<ecuVars, ethVars>>

\* A datagram for an endpoint that is nobody's is lost.
SendAuthTX ==
  /\ Step("authPort", "authTest")
  /\ IF tgt = port /\ tgt \in CCUs
     THEN Transmit(net, [type |-> "AuthTX", to |-> tgt, chal |-> chal])
     ELSE net' = net
  /\ tgt' = None
  /\ age' = age + 1
  /\ UNCHANGED <<ecuVars, ethVars>>

\* Mutant: it waits there for the connection.
IsConn_waits ==
  /\ Step("isConn", IF state = "CONNECTED" THEN "top" ELSE "isConn")
  /\ UNCHANGED <<ecuVars, tgt, age, ethVars, net>>

\* App_ConnectCCU returns only when connected.
IsConn ==
  /\ Step("isConn", IF state = "CONNECTED" THEN "top" ELSE "bcast")
  /\ UNCHANGED <<ecuVars, tgt, age, ethVars, net>>

-----------------------------------------------------------------------------
(* Eth_Runtime: Eth_WeakRxCallback until the callback is registered, then  *)
(* ParsePacket.                                                            *)

\* The datagram is echoed to its sender, which ignores the echo.
Echo(m) ==
  /\ hpc = "boot" /\ epc = "idle"
  /\ m.type # "AuthTX"
  /\ net' = net \ {m}
  /\ UNCHANGED <<ecuVars, hbVars, ethVars>>

Parse(m, type, to) ==
  /\ hpc # "boot" /\ epc = "idle"
  /\ m.type = type
  /\ net' = net \ {m}
  /\ epc' = to /\ sender' = m.from /\ etgt' = etgt

\* Mutant: the state is changed before the endpoint is complete.
ParsePairing_stateFirst(m) ==
  /\ Parse(m, "Pairing", "port")
  /\ addr' = m.from
  /\ state' = "AUTH"
  /\ UNCHANGED <<port, chal, nvs, erased, hbVars>>

ParsePairing(m) ==
  /\ Parse(m, "Pairing", "port")
  /\ addr' = m.from
  /\ UNCHANGED <<state, port, chal, nvs, erased, hbVars>>

\* Mutant: the port of the request is not stored.
StorePort_skipped ==
  /\ epc = "port"
  /\ epc' = "auth"
  /\ UNCHANGED <<ecuVars, hbVars, sender, etgt, net>>

StorePort ==
  /\ epc = "port"
  /\ port' = sender
  /\ epc' = "auth"
  /\ UNCHANGED <<state, addr, chal, nvs, erased, hbVars, sender, etgt, net>>

\* Eth_Runtime is done with the datagram.
Return == epc' = "idle" /\ sender' = None /\ etgt' = None

StoreAuth ==
  /\ epc = "auth"
  /\ state' = "AUTH"
  /\ Return
  /\ UNCHANGED <<addr, port, chal, nvs, erased, hbVars, net>>

\* Mutant: connected first, saved afterwards.
ParseValidAnswer_connectsFirst(m) ==
  /\ Parse(m, "AuthRX", "save")
  /\ m.chal = chal
  /\ state' = "CONNECTED"
  /\ UNCHANGED <<addr, port, chal, nvs, erased, hbVars>>

\* App_VerifyFrame_AuthRX, whatever the state: does the answer sign the last
\* challenge?
ParseValidAnswer(m) ==
  /\ Parse(m, "AuthRX", "save")
  /\ m.chal = chal
  /\ UNCHANGED <<ecuVars, hbVars>>

ParseWrongAnswer(m) ==
  /\ Parse(m, "AuthRX", "reject")
  /\ m.chal # chal
  /\ UNCHANGED <<ecuVars, hbVars>>

\* NVS_SaveCCUEndpoint saves what CCU_EP holds now.
Save ==
  /\ epc = "save"
  /\ \/ /\ nvs' = [addr |-> addr, port |-> port]
        /\ erased' = FALSE
     \/ /\ "save" \in FlashFaults
        /\ nvs' = nvs
        /\ erased' = TRUE
  /\ epc' = "connect"
  /\ UNCHANGED <<state, addr, port, chal, hbVars, sender, etgt, net>>

Connect ==
  /\ epc = "connect"
  /\ state' = "CONNECTED"
  /\ Return
  /\ UNCHANGED <<addr, port, chal, nvs, erased, hbVars, net>>

Reject ==
  /\ epc = "reject"
  /\ state' = "BROADCAST"
  /\ Return
  /\ UNCHANGED <<addr, port, chal, nvs, erased, hbVars, net>>

\* An engine command is parsed, and asks for a response now (the motors are
\* those of Motor).
ParseCommand(m) ==
  /\ Parse(m, "Command", "respAddr")
  /\ UNCHANGED <<ecuVars, hbVars>>

\* App_SendImmediateHeartbeat takes the endpoint, whatever the state.
RespondAddr ==
  /\ epc = "respAddr"
  /\ epc' = "respPort" /\ etgt' = addr
  /\ UNCHANGED <<ecuVars, hbVars, sender, net>>

SendImmediateHeartbeat ==
  /\ epc = "respPort"
  /\ Return
  /\ UNCHANGED <<ecuVars, hbVars, net>>

-----------------------------------------------------------------------------
(* The CCU: its user asks for pairing when he likes; it signs any challenge *)
(* it receives.                                                            *)

AskPairing(c) ==
  /\ Transmit(net, [type |-> "Pairing", from |-> c])
  /\ UNCHANGED <<ecuVars, hbVars, ethVars>>

\* It keeps an ECU it has once seen, and may command it at any time.
Command(c) ==
  /\ Transmit(net, [type |-> "Command", from |-> c])
  /\ UNCHANGED <<ecuVars, hbVars, ethVars>>

Sign(m) ==
  /\ m.type = "AuthTX"
  /\ Transmit(net \ {m}, [type |-> "AuthRX", from |-> m.to, chal |-> m.chal])
  /\ UNCHANGED <<ecuVars, hbVars, ethVars>>

(* A reset of the ECU.                                                     *)
Crash ==
  /\ Crashes
  /\ state' = "BROADCAST"
  /\ addr' = None /\ port' = None /\ chal' = None
  /\ hpc' = "boot" /\ tgt' = None /\ age' = 0
  /\ Return
  /\ UNCHANGED <<nvs, erased, net>>

-----------------------------------------------------------------------------
HeartBeatRuntime ==
  \/ Register \/ LoadAddr \/ LoadPort \/ LoadNothing \/ Restore
  \/ ButtonDown \/ ButtonUp \/ Erase \/ Reset
  \/ Check \/ Recheck \/ BeatAddr \/ SendBeat
  \/ Enter \/ EnterReset \/ SendBroadcast \/ Awake \/ LeaveBroadcast
  \/ IsAuth \/ NewChallenge \/ AuthTest \/ AuthAge \/ Timeout
  \/ AuthAddr \/ SendAuthTX \/ IsConn

ParsePacket == StorePort \/ StoreAuth \/ Save \/ Connect \/ Reject
Respond == RespondAddr \/ SendImmediateHeartbeat

EthRuntime ==
  \/ \E m \in net : Echo(m) \/ ParsePairing(m) \/ ParseCommand(m)
                      \/ ParseValidAnswer(m) \/ ParseWrongAnswer(m)
  \/ ParsePacket \/ Respond

CCU ==
  \/ \E c \in CCUs : AskPairing(c) \/ Command(c)
  \/ \E m \in net : Sign(m)

Next == HeartBeatRuntime \/ EthRuntime \/ CCU \/ Crash

Spec == Init /\ [][Next]_vars

\* FreeRTOS runs both tasks (each delays or waits for a notification, with a
\* timeout, in every round of its loop), and nobody holds the button for ever.
\* The network and the CCU owe nothing.
Fairness ==
  /\ WF_vars(HeartBeatRuntime) /\ SF_vars(ButtonUp)
  /\ WF_vars(ParsePacket \/ Respond)

FairSpec == Spec /\ Fairness

-----------------------------------------------------------------------------
TypeOK ==
  /\ state \in {"BROADCAST", "AUTH", "CONNECTED"}
  /\ addr \in CCUs \cup {None} /\ port \in CCUs \cup {None}
  /\ chal \in Challenges \cup {None}
  /\ nvs \in Endpoint
  /\ hpc \in {"boot", "load", "loadPort", "restore", "top", "erase", "reset",
              "check", "recheck", "beatAddr", "beatPort", "enter", "enterReset",
              "bcast", "sleep", "isAuth", "challenge", "authTest", "authAge",
              "timeout", "authAddr", "authPort", "isConn"}
  /\ tgt \in CCUs \cup {None}
  /\ age \in 0 .. MaxAge
  /\ epc \in {"idle", "port", "auth", "save", "connect", "reject",
              "respAddr", "respPort"}
  /\ sender \in CCUs \cup {None} /\ etgt \in CCUs \cup {None}
  /\ net \subseteq Message
  /\ erased \in BOOLEAN

\* Flash never holds an endpoint made of two (the address of one CCU and the
\* port of another): a node that loads one would never be heard again.  (An
\* answer from before a reboot, to a tick count that recurs, aside.)
SavedWhole == nvs = Blank \/ Whole(nvs)

\* A connected node has its endpoint in flash, at every instant: wherever the
\* power fails, it comes back connected.  Only the button or a flash fault makes
\* it otherwise.
ConnectedIsSaved == state = "CONNECTED" /\ ~erased => nvs # Blank

\* With one CCU, no challenge and no telemetry of HeartBeatRuntime leaves for an
\* endpoint that is blank or half written.  The response to a command may: for
\* a blank one before anything is stored, for half of one while HeartBeatRuntime
\* loads it from flash, and at no other time.
SentWhole ==
  /\ hpc \in {"authPort", "beatPort"} => tgt = port /\ tgt \in CCUs
  /\ epc = "respPort" /\ etgt # None /\ etgt # port => hpc = "loadPort"

\* The authentication ends, answered or not: no silent or vanished CCU holds
\* the node in it.
AuthenticationEnds == state = "AUTH" ~> state # "AUTH"

\* A node that is not connected makes itself known again and again.
Discoverable == state = "BROADCAST" ~> (hpc = "sleep" \/ state # "BROADCAST")

\* However often the power fails, a node whose reboots come to an end connects
\* by itself to the endpoint it started with.
Reconnects ==
  <>[][~Crash]_vars => (hpc = "boot" /\ nvs # Blank ~> state = "CONNECTED")

\* Module.c:206 saves "the validated Endpoint": the one whose CCU answered.
SavesValidated ==
  [][epc = "save" /\ epc' = "connect" /\ nvs' # nvs => nvs' = At(sender)]_vars

\* Module.c:209: CONNECTED frees the broadcast loop.  Only a pairing request, a
\* wrong answer or the button may take it back.
ConnectedFrees ==
  [][state = "CONNECTED" /\ state' = "BROADCAST" =>
       epc = "reject" \/ hpc = "reset" \/ hpc' = "boot"]_vars
=============================================================================
