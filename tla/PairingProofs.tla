---------------------------- MODULE PairingProofs ----------------------------
(***************************************************************************)
(* Proofs about Pairing for any number of CCUs and challenges, any timeout *)
(* and number of datagrams in flight, with and without reboots, the button *)
(* and flash faults where a theorem does not say otherwise.                *)
(***************************************************************************)
EXTENDS Pairing, TLAPS

\* Before the ECU has read its flash it challenges nobody.
Loading == {"boot", "load", "loadPort", "restore"}

\* There is room for one more challenge before the timeout.
AgeBound == hpc \in {"authAddr", "authPort"} => age < MaxAge

\* An endpoint has been written to CCU_EP: its address is one of a CCU, and
\* its port too.  Neither is ever cleared but by a reboot.
AddrSet == addr \in CCUs
Filled  == AddrSet /\ port \in CCUs

\* What HeartBeatRuntime and ParsePacket know of the endpoint, at each of
\* their steps.  The two write it without a lock, but each field only ever
\* with one of a CCU.
Known ==
  /\ hpc \in {"loadPort", "restore"} => AddrSet
  /\ hpc = "restore" => Filled
  /\ epc # "idle" => sender \in CCUs
  /\ epc \in {"port", "auth"} => AddrSet
  /\ epc = "auth" => Filled
  /\ state # "BROADCAST" => Filled
  /\ hpc \in {"recheck", "beatAddr", "beatPort", "challenge"} => Filled
  /\ chal # None => Filled

\* A challenge is needed for a valid answer, and for the steps that send it.
Challenged ==
  /\ hpc \in Loading => chal = None
  /\ hpc \in {"authTest", "authAge", "timeout", "authAddr", "authPort"} => chal # None
  /\ epc \in {"save", "connect"} => chal # None

\* Who sends has read an address.
TargetSet == hpc \in {"authPort", "beatPort"} => tgt \in CCUs

\* Flash holds nothing or two fields; only ParsePacket may change what
\* HeartBeatRuntime loads, and not while it does.
FlashFilled ==
  /\ nvs # Blank => nvs.addr \in CCUs /\ nvs.port \in CCUs
  /\ hpc \in {"loadPort", "restore"} => nvs # Blank
  /\ epc = "connect" /\ ~erased => nvs # Blank

PairInv ==
  /\ TypeOK /\ AgeBound /\ Known /\ Challenged /\ TargetSet /\ FlashFilled
  /\ ConnectedIsSaved
-----------------------------------------------------------------------------
\* No datagram in flight carries the last challenge, or its answer.
Unanswered == \A m \in net : m.type \in {"AuthTX", "AuthRX"} => m.chal # chal

\* When flash is loaded into CCU_EP while a pairing request is stored there,
\* the two may get mixed up.  No challenge ever reaches anybody then, until
\* the next pairing request has been stored.
MixedUp ==
  /\ epc = "port" /\ addr # sender =>
       /\ chal = None /\ hpc # "challenge"
       /\ state # "AUTH" \/ hpc \in {"loadPort", "restore"}
  /\ hpc \notin Loading /\ epc # "port" /\ addr # port =>
       /\ Unanswered
       /\ hpc = "authPort" => tgt # port

\* So a valid answer finds an endpoint that is whole.
AnswerWhole == epc = "save" => addr = port

WholeInv == PairInv /\ MixedUp /\ AnswerWhole /\ SavedWhole
-----------------------------------------------------------------------------
LEMMA Constants ==
  /\ None \notin CCUs /\ None \notin Challenges
  /\ Crashes \in BOOLEAN /\ Button \in BOOLEAN /\ FlashFaults \subseteq {"load", "save", "erase"}
  /\ MaxAge \in Nat /\ MaxAge > 0 /\ MaxInFlight \in Nat
  BY ChallengesAssumption, BoundsAssumption

USE Constants DEF ecuVars, hbVars, ethVars

LEMMA MessageFields ==
  ASSUME NEW m \in Message
  PROVE  /\ m.type \in {"Pairing", "Command", "AuthTX", "AuthRX"}
         /\ m.type # "AuthTX" => m.from \in CCUs
         /\ m.type = "AuthTX" => m.to \in CCUs
         /\ m.type \in {"AuthTX", "AuthRX"} => m.chal \in Challenges
  BY DEF Message

LEMMA TransmitType ==
  ASSUME NEW rest \in SUBSET Message, NEW m \in Message, Transmit(rest, m)
  PROVE  net' \subseteq Message
  BY DEF Transmit

LEMMA BlankOrSaved ==
  /\ Blank \in Endpoint
  /\ \A c \in CCUs : /\ At(c) \in Endpoint /\ At(c).addr = c /\ At(c).port = c
  /\ \A e \in Endpoint : e.addr \in CCUs => e # Blank
  BY DEF Blank, Endpoint, At

LEMMA InitPairInv == Init => PairInv /\ MixedUp /\ AnswerWhole /\ SavedWhole
<1> SUFFICES ASSUME Init PROVE PairInv /\ MixedUp /\ AnswerWhole /\ SavedWhole
  OBVIOUS
<1>1. nvs \in Endpoint /\ (nvs # Blank => nvs.addr \in CCUs /\ nvs.port \in CCUs)
      /\ SavedWhole
  BY BlankOrSaved DEF Init, SavedWhole, Whole
<1>2. TypeOK
  <2>1. 0 \in 0 .. MaxAge
    OBVIOUS
  <2> QED BY <1>1, <2>1 DEF Init, TypeOK
<1>3. AgeBound /\ Known /\ Challenged /\ TargetSet /\ FlashFilled /\ ConnectedIsSaved
  BY <1>1 DEF Init, AgeBound, Known, Challenged, TargetSet, FlashFilled, ConnectedIsSaved,
     Loading
<1>4. MixedUp /\ AnswerWhole
  BY DEF Init, MixedUp, AnswerWhole, Loading
<1> QED BY <1>1, <1>2, <1>3, <1>4 DEF PairInv

-----------------------------------------------------------------------------
(* Types, and the age of an authentication.                                  *)
LEMMA HeartBeatTypes ==
  ASSUME TypeOK, AgeBound, Challenged, HeartBeatRuntime PROVE TypeOK' /\ AgeBound'
<1> USE DEF TypeOK, AgeBound, Step
<1>1. CASE Register \/ LoadNothing \/ ButtonDown \/ ButtonUp \/ Check \/ Recheck
  BY <1>1 DEF Register, LoadNothing, ButtonDown, ButtonUp, Check, Recheck
<1>2. CASE Enter \/ SendBroadcast \/ Awake \/ LeaveBroadcast \/ IsAuth \/ AuthTest
           \/ AuthAge \/ IsConn
  BY <1>2 DEF Enter, SendBroadcast, Awake, LeaveBroadcast, IsAuth, AuthTest, AuthAge, IsConn
<1>3. CASE LoadAddr \/ LoadPort
  BY <1>3 DEF LoadAddr, LoadPort, Endpoint
<1>4. CASE Restore \/ Reset \/ EnterReset \/ Timeout
  BY <1>4 DEF Restore, Reset, EnterReset, Timeout
<1>5. CASE Erase
  BY <1>5, BlankOrSaved DEF Erase
<1>6. CASE BeatAddr \/ SendBeat \/ AuthAddr
  BY <1>6 DEF BeatAddr, SendBeat, AuthAddr
<1>7. CASE NewChallenge
  BY <1>7 DEF NewChallenge
<1>8. CASE SendAuthTX
  <2>1. chal \in Challenges
    BY <1>8 DEF SendAuthTX, Challenged
  <2>2. tgt \in CCUs => [type |-> "AuthTX", to |-> tgt, chal |-> chal] \in Message
    BY <2>1 DEF Message
  <2>3. net' \subseteq Message
    BY <1>8, <2>2, TransmitType DEF SendAuthTX
  <2> QED BY <1>8, <2>3 DEF SendAuthTX
<1> QED BY <1>1, <1>2, <1>3, <1>4, <1>5, <1>6, <1>7, <1>8 DEF HeartBeatRuntime

LEMMA OtherTypes ==
  ASSUME TypeOK, AgeBound, EthRuntime \/ CCU \/ Crash PROVE TypeOK' /\ AgeBound'
<1> USE DEF TypeOK, AgeBound
<1>1. ASSUME NEW m \in net, Echo(m) PROVE TypeOK' /\ AgeBound'
  BY <1>1 DEF Echo
<1>2. ASSUME NEW m \in net, \/ ParsePairing(m) \/ ParseCommand(m)
                            \/ ParseValidAnswer(m) \/ ParseWrongAnswer(m)
      PROVE  TypeOK' /\ AgeBound'
  <2>1. m.from \in CCUs
    BY <1>2, MessageFields DEF ParsePairing, ParseCommand, ParseValidAnswer, ParseWrongAnswer,
       Parse
  <2> QED BY <1>2, <2>1 DEF ParsePairing, ParseCommand, ParseValidAnswer, ParseWrongAnswer,
       Parse
<1>3. CASE StorePort \/ StoreAuth \/ Connect \/ Reject \/ Respond
  BY <1>3 DEF StorePort, StoreAuth, Connect, Reject, Return, Respond, RespondAddr,
     SendImmediateHeartbeat
<1>4. CASE Save
  <2>1. nvs' \in Endpoint
    BY <1>4 DEF Save, Endpoint
  <2>2. erased' \in BOOLEAN
    BY <1>4 DEF Save
  <2>3. UNCHANGED <<state, addr, port, chal, hbVars, sender, etgt, net>> /\ epc' = "connect"
    BY <1>4 DEF Save
  <2> QED BY <2>1, <2>2, <2>3
<1>5. ASSUME NEW c \in CCUs, AskPairing(c) \/ Command(c) PROVE TypeOK' /\ AgeBound'
  <2>1. /\ [type |-> "Pairing", from |-> c] \in Message
        /\ [type |-> "Command", from |-> c] \in Message
    BY DEF Message
  <2>2. net' \subseteq Message
    BY <1>5, <2>1, TransmitType DEF AskPairing, Command
  <2> QED BY <1>5, <2>2 DEF AskPairing, Command
<1>6. ASSUME NEW m \in net, Sign(m) PROVE TypeOK' /\ AgeBound'
  <2>1. m.to \in CCUs /\ m.chal \in Challenges
    BY <1>6, MessageFields DEF Sign
  <2>2. [type |-> "AuthRX", from |-> m.to, chal |-> m.chal] \in Message
    BY <2>1 DEF Message
  <2>3. net' \subseteq Message
    BY <1>6, <2>2, TransmitType DEF Sign
  <2> QED BY <1>6, <2>3 DEF Sign
<1>7. CASE Crash
  BY <1>7 DEF Crash, Return
<1> QED BY <1>1, <1>2, <1>3, <1>4, <1>5, <1>6, <1>7 DEF EthRuntime, ParsePacket, CCU

-----------------------------------------------------------------------------
(* What the two tasks know of the endpoint, of flash and of the challenge.   *)
Knowledge == Known /\ Challenged /\ TargetSet /\ FlashFilled /\ ConnectedIsSaved

LEMMA HeartBeatKnows ==
  ASSUME TypeOK, Knowledge, HeartBeatRuntime PROVE Knowledge'
<1> USE DEF TypeOK, Knowledge, Known, Challenged, TargetSet, FlashFilled, ConnectedIsSaved,
            Filled, AddrSet, Loading, Step
<1>1. CASE Register \/ LoadNothing \/ ButtonDown \/ ButtonUp \/ Check \/ Recheck
  BY <1>1 DEF Register, LoadNothing, ButtonDown, ButtonUp, Check, Recheck
<1>2. CASE Enter \/ SendBroadcast \/ Awake \/ LeaveBroadcast \/ IsAuth \/ AuthTest
           \/ AuthAge \/ IsConn
  BY <1>2 DEF Enter, SendBroadcast, Awake, LeaveBroadcast, IsAuth, AuthTest, AuthAge, IsConn
<1>3. CASE LoadAddr
  BY <1>3 DEF LoadAddr
<1>4. CASE LoadPort
  BY <1>4 DEF LoadPort
<1>5. CASE Restore
  BY <1>5 DEF Restore
<1>6. CASE Reset \/ EnterReset \/ Timeout
  BY <1>6 DEF Reset, EnterReset, Timeout
<1>7. CASE Erase
  BY <1>7 DEF Erase
<1>8. CASE BeatAddr \/ SendBeat \/ AuthAddr
  BY <1>8 DEF BeatAddr, SendBeat, AuthAddr
<1>9. CASE NewChallenge
  BY <1>9 DEF NewChallenge
<1>10. CASE SendAuthTX
  BY <1>10 DEF SendAuthTX
<1> QED BY <1>1, <1>2, <1>3, <1>4, <1>5, <1>6, <1>7, <1>8, <1>9, <1>10 DEF HeartBeatRuntime

LEMMA OthersKnow ==
  ASSUME TypeOK, Knowledge, EthRuntime \/ CCU \/ Crash PROVE Knowledge'
<1> USE DEF TypeOK, Knowledge, Known, Challenged, TargetSet, FlashFilled, ConnectedIsSaved,
            Filled, AddrSet, Loading
<1>1. ASSUME NEW m \in net, Echo(m) PROVE Knowledge'
  BY <1>1 DEF Echo
<1>2. ASSUME NEW m \in net, ParsePairing(m) PROVE Knowledge'
  <2>1. m.from \in CCUs
    BY <1>2, MessageFields DEF ParsePairing, Parse
  <2> QED BY <1>2, <2>1 DEF ParsePairing, Parse
<1>3. ASSUME NEW m \in net, ParseValidAnswer(m) \/ ParseWrongAnswer(m) PROVE Knowledge'
  <2>1. m.from \in CCUs /\ m.chal \in Challenges
    BY <1>3, MessageFields DEF ParseValidAnswer, ParseWrongAnswer, Parse
  <2> QED BY <1>3, <2>1 DEF ParseValidAnswer, ParseWrongAnswer, Parse
<1>4. CASE StorePort
  BY <1>4 DEF StorePort
<1>5. CASE StoreAuth
  BY <1>5 DEF StoreAuth, Return
<1>6. CASE Save
  <2>1. addr \in CCUs /\ port \in CCUs
    BY <1>6 DEF Save
  <2>2. [addr |-> addr, port |-> port] # Blank
    BY <2>1 DEF Blank
  <2> QED BY <1>6, <2>1, <2>2 DEF Save
<1>7. CASE Connect
  BY <1>7 DEF Connect, Return
<1>8. CASE Reject
  BY <1>8 DEF Reject, Return
<1>9. CASE CCU
  <2>1. UNCHANGED <<ecuVars, hbVars, ethVars>>
    BY <1>9 DEF CCU, AskPairing, Command, Sign
  <2> QED BY <2>1
<1>10. CASE Crash
  BY <1>10 DEF Crash, Return
<1>11. ASSUME NEW m \in net, ParseCommand(m) PROVE Knowledge'
  <2>1. m.from \in CCUs
    BY <1>11, MessageFields DEF ParseCommand, Parse
  <2> QED BY <1>11, <2>1 DEF ParseCommand, Parse
<1>12. CASE Respond
  BY <1>12 DEF Respond, RespondAddr, SendImmediateHeartbeat, Return
<1> QED BY <1>1, <1>2, <1>3, <1>4, <1>5, <1>6, <1>7, <1>8, <1>9, <1>10, <1>11, <1>12
     DEF EthRuntime, ParsePacket

LEMMA NextPairInv == PairInv /\ [Next]_vars => PairInv'
<1>1. PairInv /\ UNCHANGED vars => PairInv'
  BY DEF vars, PairInv, TypeOK, AgeBound, Known, Challenged, TargetSet, FlashFilled,
     ConnectedIsSaved, Filled, AddrSet, Loading
<1> QED BY <1>1, HeartBeatTypes, OtherTypes, HeartBeatKnows, OthersKnow DEF PairInv,
     Knowledge, Next

LEMMA PairInvariant == Spec => []PairInv
  BY InitPairInv, NextPairInv, PTL DEF Spec

(* Every variable of the pairing keeps its type: an authentication never     *)
(* outlives its timeout, and only challenges and answers that were given are *)
(* in flight.                                                                *)
THEOREM PairTypeCorrect == Spec => []TypeOK
  BY PairInvariant, PTL DEF PairInv

(* Wherever the power fails, a connected ECU comes back connected: flash     *)
(* holds an endpoint whenever the state is CONNECTED, unless the button or a *)
(* flash fault has emptied it.                                               *)
THEOREM ConnectionSurvives == Spec => []ConnectedIsSaved
  BY PairInvariant, PTL DEF PairInv

-----------------------------------------------------------------------------
(* With one CCU the address and the port are both its own once both are      *)
(* there; that only the address is there lasts no longer than the load from  *)
(* flash, or the parsing of one pairing request.                             *)
Halves ==
  /\ AddrSet /\ port = None => hpc = "loadPort" \/ epc = "port"
  /\ epc = "respPort" /\ etgt # None => AddrSet

LEMMA HeartBeatHalves ==
  ASSUME PairInv, Halves, HeartBeatRuntime PROVE Halves'
<1>0. nvs # Blank => nvs.port # None
  BY DEF PairInv, FlashFilled
<1> USE DEF Halves, AddrSet, Step
<1>1. CASE LoadAddr
  BY <1>1 DEF LoadAddr, PairInv, FlashFilled
<1>2. CASE LoadPort
  BY <1>0, <1>2 DEF LoadPort, PairInv, FlashFilled
<1>3. CASE ~LoadAddr /\ ~LoadPort
  <2>1. UNCHANGED <<addr, port, epc, etgt>> /\ hpc # "loadPort"
    BY <1>3 DEF HeartBeatRuntime, Register, LoadNothing, Restore,
       ButtonDown, ButtonUp, Erase, Reset, Check, Recheck, BeatAddr, SendBeat, Enter,
       EnterReset, SendBroadcast, Awake, LeaveBroadcast, IsAuth, NewChallenge, AuthTest,
       AuthAge, Timeout, AuthAddr, SendAuthTX, IsConn
  <2> QED BY <2>1
<1> QED BY <1>1, <1>2, <1>3

LEMMA OtherHalves ==
  ASSUME PairInv, Halves, EthRuntime \/ CCU \/ Crash PROVE Halves'
<1>0. TypeOK /\ Known
  BY DEF PairInv
<1> USE DEF Halves, AddrSet
<1>1. ASSUME NEW m \in net, Echo(m) PROVE Halves'
  BY <1>1 DEF Echo
<1>2. ASSUME NEW m \in net, \/ ParsePairing(m) \/ ParseCommand(m)
                            \/ ParseValidAnswer(m) \/ ParseWrongAnswer(m)
      PROVE  Halves'
  BY <1>2 DEF ParsePairing, ParseCommand, ParseValidAnswer, ParseWrongAnswer, Parse
<1>3. CASE StorePort
  BY <1>0, <1>3 DEF StorePort, Known
<1>4. CASE StoreAuth \/ Save \/ Connect \/ Reject
  BY <1>4 DEF StoreAuth, Save, Connect, Reject, Return
<1>5. CASE Respond
  BY <1>0, <1>5 DEF Respond, RespondAddr, SendImmediateHeartbeat, Return, TypeOK
<1>6. CASE CCU
  BY <1>6 DEF CCU, AskPairing, Command, Sign
<1>7. CASE Crash
  BY <1>7 DEF Crash, Return
<1> QED BY <1>1, <1>2, <1>3, <1>4, <1>5, <1>6, <1>7 DEF EthRuntime, ParsePacket

(* With one CCU, the challenges and the telemetry of HeartBeatRuntime never  *)
(* leave for an endpoint that is blank or half written.  The telemetry by    *)
(* which Eth_Runtime responds to a command leaves for half of one in one     *)
(* case only: HeartBeatRuntime is between the two loads from flash.          *)
THEOREM NothingSentHalfWritten ==
  ASSUME NEW c, CCUs = {c} PROVE Spec => []SentWhole
<1>1. ASSUME PairInv, Halves PROVE SentWhole
  <2>1. hpc \in {"authPort", "beatPort"} => tgt = port /\ tgt \in CCUs
    BY <1>1 DEF PairInv, Known, Challenged, TargetSet, Filled
  <2>2. ASSUME epc = "respPort", etgt # None, etgt # port PROVE hpc = "loadPort"
    <3>1. AddrSet /\ etgt = c /\ port = None
      BY <1>1, <2>2 DEF Halves, PairInv, TypeOK
    <3> QED BY <1>1, <2>2, <3>1 DEF Halves
  <2> QED BY <2>1, <2>2 DEF SentWhole
<1>2. Init => Halves
  BY DEF Init, Halves, AddrSet
<1>3. PairInv /\ Halves /\ [Next]_vars => Halves'
  <2>1. Halves /\ UNCHANGED vars => Halves'
    BY DEF vars, Halves, AddrSet
  <2> QED BY <2>1, HeartBeatHalves, OtherHalves DEF Next
<1> QED BY <1>1, <1>2, <1>3, PairInvariant, PTL DEF Spec

-----------------------------------------------------------------------------
(* What flash holds is whole, in one life of the ECU.                        *)
LEMMA HeartBeatMixes ==
  ASSUME PairInv, MixedUp, AnswerWhole, Crashes = FALSE, HeartBeatRuntime
  PROVE  MixedUp' /\ AnswerWhole'
<1>0. /\ Known /\ Challenged
      /\ \A m \in net : m.type \in {"AuthTX", "AuthRX"} => m.chal # None
  BY MessageFields DEF PairInv, TypeOK
<1> USE DEF MixedUp, AnswerWhole, Unanswered, Loading, Step
<1>1. CASE Register \/ LoadNothing \/ ButtonDown \/ ButtonUp \/ Check \/ Recheck
  BY <1>0, <1>1 DEF Register, LoadNothing, ButtonDown, ButtonUp, Check, Recheck, Challenged
<1>2. CASE Enter \/ SendBroadcast \/ Awake \/ LeaveBroadcast \/ IsAuth \/ AuthTest
           \/ AuthAge \/ IsConn
  BY <1>0, <1>2 DEF Enter, SendBroadcast, Awake, LeaveBroadcast, IsAuth, AuthTest, AuthAge,
     IsConn
<1>3. CASE LoadAddr \/ LoadPort
  BY <1>0, <1>3 DEF LoadAddr, LoadPort, Challenged
<1>4. CASE Restore \/ Reset \/ EnterReset \/ Timeout
  BY <1>0, <1>4 DEF Restore, Reset, EnterReset, Timeout, Challenged
<1>5. CASE Erase
  BY <1>5 DEF Erase
<1>6. CASE BeatAddr \/ SendBeat \/ AuthAddr
  BY <1>6 DEF BeatAddr, SendBeat, AuthAddr
<1>7. CASE NewChallenge
  <2>1. \A m \in net : m.type \in {"AuthTX", "AuthRX"} => m.chal # chal'
    BY <1>7 DEF NewChallenge, Used, InFlight
  <2> QED BY <1>7, <2>1 DEF NewChallenge
<1>8. CASE SendAuthTX
  <2>1. tgt = port \/ net' = net
    BY <1>8 DEF SendAuthTX
  <2> QED BY <1>8, <2>1 DEF SendAuthTX
<1> QED BY <1>1, <1>2, <1>3, <1>4, <1>5, <1>6, <1>7, <1>8 DEF HeartBeatRuntime

LEMMA OthersMix ==
  ASSUME PairInv, MixedUp, AnswerWhole, Crashes = FALSE, EthRuntime \/ CCU \/ Crash
  PROVE  MixedUp' /\ AnswerWhole'
<1>0. /\ Known /\ Challenged /\ net \subseteq Message
      /\ \A m \in net : m.type \in {"AuthTX", "AuthRX"} => m.chal # None
  BY MessageFields DEF PairInv, TypeOK
<1> USE DEF MixedUp, AnswerWhole, Unanswered, Loading
<1>1. ASSUME NEW m \in net, Echo(m) PROVE MixedUp' /\ AnswerWhole'
  BY <1>0, <1>1 DEF Echo
<1>2. ASSUME NEW m \in net, ParsePairing(m) PROVE MixedUp' /\ AnswerWhole'
  BY <1>0, <1>2 DEF ParsePairing, Parse
<1>3. ASSUME NEW m \in net, ParseValidAnswer(m) PROVE MixedUp' /\ AnswerWhole'
  <2>1. hpc \notin Loading /\ ~Unanswered /\ epc = "idle"
    BY <1>0, <1>3 DEF ParseValidAnswer, Parse, Challenged
  <2>2. addr = port
    BY <2>1
  <2> QED BY <1>3, <2>2 DEF ParseValidAnswer, Parse
<1>4. ASSUME NEW m \in net, ParseWrongAnswer(m) \/ ParseCommand(m)
      PROVE  MixedUp' /\ AnswerWhole'
  BY <1>4 DEF ParseWrongAnswer, ParseCommand, Parse
<1>5. CASE StorePort
  <2>1. addr = sender \/ chal = None
    BY <1>5 DEF StorePort
  <2>2. hpc = "authPort" => chal # None
    BY <1>0 DEF Challenged
  <2> QED BY <1>0, <1>5, <2>1, <2>2 DEF StorePort
<1>6. CASE StoreAuth \/ Save \/ Connect \/ Reject \/ Respond
  BY <1>6 DEF StoreAuth, Save, Connect, Reject, Return, Respond, RespondAddr,
     SendImmediateHeartbeat
<1>7. ASSUME NEW c \in CCUs, AskPairing(c) \/ Command(c) PROVE MixedUp' /\ AnswerWhole'
  <2>1. \A x \in net' : x \in net \/ x.type \in {"Pairing", "Command"}
    BY <1>7 DEF AskPairing, Command, Transmit
  <2> QED BY <1>7, <2>1 DEF AskPairing, Command
<1>8. ASSUME NEW m \in net, Sign(m) PROVE MixedUp' /\ AnswerWhole'
  <2>1. \A x \in net' : x \in net \/ (x.chal = m.chal /\ m.type = "AuthTX")
    BY <1>8 DEF Sign, Transmit
  <2> QED BY <1>8, <2>1 DEF Sign
<1> QED BY <1>1, <1>2, <1>3, <1>4, <1>5, <1>6, <1>7, <1>8 DEF EthRuntime, ParsePacket, CCU, Crash

LEMMA FlashStaysWhole ==
  ASSUME PairInv, AnswerWhole, SavedWhole, [Next]_vars PROVE SavedWhole'
<1> USE DEF SavedWhole, Whole
<1>1. CASE Save
  <2>1. addr = port /\ addr \in CCUs
    BY <1>1 DEF Save, AnswerWhole, PairInv, Known, Challenged, Filled, AddrSet
  <2> QED BY <1>1, <2>1 DEF Save
<1>2. CASE Erase
  BY <1>2 DEF Erase, Blank
<1>3. CASE ~Save /\ ~Erase
  <2>1. nvs' = nvs
    BY <1>3 DEF Next, vars, HeartBeatRuntime, EthRuntime, ParsePacket, CCU, Crash,
       Register, LoadAddr, LoadPort, LoadNothing, Restore, ButtonDown, ButtonUp, Reset, Check,
       Recheck, BeatAddr, SendBeat, Enter, EnterReset, SendBroadcast, Awake, LeaveBroadcast,
       IsAuth, NewChallenge, AuthTest, AuthAge, Timeout, AuthAddr, SendAuthTX, IsConn, Echo,
       ParsePairing, ParseValidAnswer, ParseWrongAnswer, StorePort, StoreAuth, Connect, Reject,
       ParseCommand, Respond, RespondAddr, SendImmediateHeartbeat, AskPairing, Command, Sign
  <2> QED BY <2>1
<1> QED BY <1>1, <1>2, <1>3

(* Between two reboots flash never comes to hold the address of one CCU with *)
(* the port of another, although the two tasks write CCU_EP without a lock,  *)
(* and HeartBeatRuntime may load it while a pairing request is stored there. *)
THEOREM EndpointSavedWhole ==
  ASSUME Crashes = FALSE PROVE Spec => []SavedWhole
<1>1. WholeInv /\ UNCHANGED vars => WholeInv'
  BY DEF WholeInv, vars, MixedUp, AnswerWhole, SavedWhole, Unanswered, PairInv, TypeOK,
     AgeBound, Known, Challenged, TargetSet, FlashFilled, ConnectedIsSaved, Filled, AddrSet,
     Loading
<1>2. WholeInv /\ [Next]_vars => WholeInv'
  BY <1>1, NextPairInv, HeartBeatMixes, OthersMix, FlashStaysWhole DEF WholeInv, Next
<1>3. WholeInv => SavedWhole
  BY DEF WholeInv
<1> QED BY InitPairInv, <1>2, <1>3, PTL DEF Spec, WholeInv

-----------------------------------------------------------------------------
(* "Save the validated Endpoint" (Module.c:206) is true with one CCU: what   *)
(* PairTwoCCUs finds takes a second one.                                     *)
THEOREM OneCCUSavesValidated ==
  ASSUME NEW c, CCUs = {c} PROVE Spec => SavesValidated
<1>1. PairInv /\ [Next]_vars =>
        [epc = "save" /\ epc' = "connect" /\ nvs' # nvs => nvs' = At(sender)]_vars
  <2> SUFFICES ASSUME PairInv, [Next]_vars, epc = "save", epc' = "connect", nvs' # nvs
               PROVE  nvs' = At(sender)
    OBVIOUS
  <2>1. addr = c /\ port = c /\ sender = c
    BY DEF PairInv, Known, Challenged, Filled, AddrSet
  <2>2. Save
    <3>1. ASSUME HeartBeatRuntime PROVE epc' = epc
      BY <3>1 DEF HeartBeatRuntime, Register, LoadAddr, LoadPort, LoadNothing, Restore,
         ButtonDown, ButtonUp, Erase, Reset, Check, Recheck, BeatAddr, SendBeat, Enter,
         EnterReset, SendBroadcast, Awake, LeaveBroadcast, IsAuth, NewChallenge, AuthTest,
         AuthAge, Timeout, AuthAddr, SendAuthTX, IsConn
    <3>2. ASSUME ~Save, EthRuntime \/ CCU \/ Crash \/ UNCHANGED vars PROVE FALSE
      BY <3>2 DEF EthRuntime, ParsePacket, CCU, Crash, vars, Echo, ParsePairing,
         ParseValidAnswer, ParseWrongAnswer, Parse, StorePort, StoreAuth, Connect, Reject,
         Return, ParseCommand, Respond, RespondAddr, SendImmediateHeartbeat, AskPairing,
         Command, Sign
    <3> QED BY <3>1, <3>2 DEF Next
  <2> QED BY <2>1, <2>2 DEF Save, At
<1> QED BY <1>1, PairInvariant, PTL DEF Spec, SavesValidated
=============================================================================
