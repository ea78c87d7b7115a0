--------------------------- MODULE MonitorProofs ---------------------------
(* Proofs about Monitor for any nodes, heartbeats and speeds, any room in a  *)
(* zone, and a queue of any length.                                          *)
EXTENDS Monitor, TLAPS, SequenceTheorems

Nodes == {[name |-> h.name, address |-> h.address] : h \in Heartbeats}
Payloads ==
  {[type |-> "HeartBeat", payload |-> h] : h \in Heartbeats}
  \cup {[type |-> "AuthTX", payload |-> c] : c \in Challenges}

-----------------------------------------------------------------------------
(* What the list of a zone is like, given the last address of each name.     *)
Names(list) == {list[i].name : i \in DOMAIN list}

Listed(list, zone, known) ==
  /\ list \in Seq(Nodes) /\ Len(list) <= MaxNum
  /\ \A i \in 1..Len(list) :
       /\ ZoneOf[list[i].name] = zone
       /\ \A j \in 1..Len(list) : list[j].name = list[i].name => j = i
       /\ list[i].address = known[list[i].name]

(* The places of a list with a node in its own place, and the addresses with *)
(* that of a node.                                                           *)
Updated(list, e) == [i \in DOMAIN list |-> IF i \in Index(list, e.name) THEN e ELSE list[i]]
Learnt(known, e) == [known EXCEPT ![e.name] = e.address]

Typed ==
  /\ pending \in Seq(Payloads)
  /\ DOMAIN zone_ecus = Zones /\ DOMAIN latest = DOMAIN ZoneOf
  /\ DOMAIN motor_states = Zones /\ \A z \in Zones : DOMAIN motor_states[z] = Sides

Registered ==
  /\ \A z \in Zones : Listed(zone_ecus[z], z, latest)
  /\ ecu_registry = UNION {Names(zone_ecus[z]) : z \in Zones}

(* What a slider shows is one of the values that it was given.               *)
Dragged ==
  \/ drag = NoDrag
  \/ /\ DOMAIN drag = {"zone", "side", "shown", "meant"}
     /\ drag.zone \in Zones /\ drag.side \in Sides /\ drag.shown \in drag.meant

(* A frame goes to a node of its zone, and says no more than was meant.      *)
Rightful(f, zones) ==
  /\ f.to \in {zones[f.zone][i].address : i \in DOMAIN zones[f.zone]}
  /\ \A s \in DOMAIN f.speeds : s \in DOMAIN f.meant /\ f.speeds[s] \in f.meant[s]

Transmitted ==
  \A f \in tx : f.type \notin {"AuthRX", "PairingRequest"} => Rightful(f, zone_ecus)

MonitorInv == Typed /\ Registered /\ Dragged /\ Transmitted

LEMMA MonitorInvImplies == MonitorInv => CommandsFitRegistry
<1> SUFFICES ASSUME MonitorInv PROVE CommandsFitRegistry
  OBVIOUS
<1>1. ASSUME NEW z \in Zones
      PROVE  /\ Len(zone_ecus[z]) <= MaxNum
             /\ \A i \in DOMAIN zone_ecus[z] :
                  /\ ZoneOf[zone_ecus[z][i].name] = z
                  /\ Index(zone_ecus[z], zone_ecus[z][i].name) = {i}
                  /\ zone_ecus[z][i].address = latest[zone_ecus[z][i].name]
  <2>1. Listed(zone_ecus[z], z, latest)
    BY <1>1 DEF MonitorInv, Registered
  <2> DEFINE list == zone_ecus[z]
  <2>2. DOMAIN list = 1..Len(list)
    BY <2>1 DEF Listed
  <2> HIDE DEF list
  <2>3. \A i \in DOMAIN list : Index(list, list[i].name) = {i}
    BY <2>1, <2>2 DEF Listed, Index, list
  <2> QED BY <2>1, <2>2, <2>3 DEF Listed, list
<1>2. ecu_registry = UNION {{zone_ecus[z][i].name : i \in DOMAIN zone_ecus[z]} : z \in Zones}
  BY DEF MonitorInv, Registered, Names
<1>3. \A f \in {g \in tx : g.type \notin {"AuthRX", "PairingRequest"}} :
        /\ f.to \in {zone_ecus[f.zone][i].address : i \in DOMAIN zone_ecus[f.zone]}
        /\ \A s \in DOMAIN f.speeds : s \in DOMAIN f.meant /\ f.speeds[s] \in f.meant[s]
  BY DEF MonitorInv, Transmitted, Rightful
<1> QED BY <1>1, <1>2, <1>3 DEF CommandsFitRegistry

LEMMA InitMonitorInv == Init => MonitorInv
<1> SUFFICES ASSUME Init PROVE MonitorInv
  OBVIOUS
<1>1. Typed /\ Dragged /\ Transmitted
  BY DEF Init, Typed, Dragged, Transmitted
<1>2. \A z \in Zones : Listed(zone_ecus[z], z, latest)
  BY MaxNumAssumption DEF Init, Listed
<1>3. ecu_registry = UNION {Names(zone_ecus[z]) : z \in Zones}
  BY DEF Init, Names
<1> QED BY <1>1, <1>2, <1>3 DEF MonitorInv, Registered

-----------------------------------------------------------------------------
(* What the changes make of a list.                                          *)
LEMMA OtherListed ==
  ASSUME NEW list, NEW zone, NEW known, NEW e, Listed(list, zone, known), ZoneOf[e.name] # zone
  PROVE  Listed(list, zone, Learnt(known, e))
<1>1. \A i \in 1..Len(list) : Learnt(known, e)[list[i].name] = known[list[i].name]
  BY DEF Listed, Learnt
<1> QED BY <1>1 DEF Listed

LEMMA AppendListed ==
  ASSUME NEW list, NEW zone, NEW known, NEW e \in Nodes, Listed(list, zone, known),
         DOMAIN known = DOMAIN ZoneOf, Len(list) < MaxNum,
         ZoneOf[e.name] = zone, e.name \notin Names(list)
  PROVE  /\ Listed(Append(list, e), zone, Learnt(known, e))
         /\ Names(Append(list, e)) = Names(list) \cup {e.name}
<1> DEFINE longer == Append(list, e)
           late == Learnt(known, e)
<1>1. /\ list \in Seq(Nodes) /\ Len(list) \in Nat /\ DOMAIN list = 1..Len(list)
      /\ e.name \in DOMAIN ZoneOf
  BY HeartbeatsAssumption DEF Listed, Nodes
<1>2. /\ longer \in Seq(Nodes) /\ Len(longer) = Len(list) + 1 /\ DOMAIN longer = 1..Len(list) + 1
      /\ \A i \in 1..Len(list) : longer[i] = list[i]
      /\ longer[Len(list) + 1] = e
  BY <1>1, AppendProperties
<1>3. \A i \in 1..Len(list) : list[i].name # e.name
  BY <1>1 DEF Names
<1>4. late[e.name] = e.address /\ \A i \in 1..Len(list) : late[list[i].name] = known[list[i].name]
  BY <1>1, <1>3 DEF Learnt
<1>5. \A i \in 1..Len(longer) : i \in 1..Len(list) \/ i = Len(list) + 1
  BY <1>1, <1>2
<1> HIDE DEF longer, late
<1>6. Listed(longer, zone, late)
  <2>1. Len(longer) <= MaxNum
    BY <1>1, <1>2, MaxNumAssumption
  <2>2. ASSUME NEW i \in 1..Len(longer)
        PROVE  /\ ZoneOf[longer[i].name] = zone
               /\ \A j \in 1..Len(longer) : longer[j].name = longer[i].name => j = i
               /\ longer[i].address = late[longer[i].name]
    <3>1. CASE i = Len(list) + 1
      BY <3>1, <1>2, <1>3, <1>4, <1>5
    <3>2. CASE i \in 1..Len(list)
      BY <3>2, <1>2, <1>3, <1>4, <1>5 DEF Listed
    <3> QED BY <2>2, <1>5, <3>1, <3>2
  <2> QED BY <1>2, <2>1, <2>2 DEF Listed
<1>7. Names(longer) = Names(list) \cup {e.name}
  <2>1. ASSUME NEW n \in Names(longer) PROVE n \in Names(list) \cup {e.name}
    BY <2>1, <1>1, <1>2, <1>5 DEF Names
  <2>2. ASSUME NEW n \in Names(list) \cup {e.name} PROVE n \in Names(longer)
    <3>1. CASE n = e.name
      BY <3>1, <1>1, <1>2 DEF Names
    <3>2. CASE n \in Names(list)
      <4>1. PICK i \in 1..Len(list) : n = list[i].name
        BY <3>2, <1>1 DEF Names
      <4>2. i \in DOMAIN longer /\ longer[i] = list[i]
        BY <1>1, <1>2
      <4> QED BY <4>1, <4>2 DEF Names
    <3> QED BY <2>2, <3>1, <3>2
  <2> QED BY <2>1, <2>2
<1> QED BY <1>6, <1>7 DEF longer, late

(* A node that is known takes the place that it has.                         *)
LEMMA UpdateListed ==
  ASSUME NEW list, NEW zone, NEW known, NEW e \in Nodes, Listed(list, zone, known),
         DOMAIN known = DOMAIN ZoneOf
  PROVE  /\ Listed(Updated(list, e), zone, Learnt(known, e))
         /\ Names(Updated(list, e)) = Names(list)
<1> DEFINE newer == Updated(list, e)
           late == Learnt(known, e)
<1>1. /\ list \in Seq(Nodes) /\ Len(list) \in Nat /\ DOMAIN list = 1..Len(list)
      /\ e.name \in DOMAIN ZoneOf
  BY HeartbeatsAssumption DEF Listed, Nodes
<1>2. /\ DOMAIN newer = 1..Len(list)
      /\ \A i \in 1..Len(list) : newer[i] = IF list[i].name = e.name THEN e ELSE list[i]
  BY <1>1 DEF Index, Updated
<1>3. newer \in Seq(Nodes) /\ Len(newer) = Len(list)
  <2>1. \A i \in 1..Len(list) : list[i] \in Nodes
    BY <1>1
  <2>2. newer \in [1..Len(list) -> Nodes]
    BY <1>1, <2>1 DEF Updated
  <2> QED BY <1>1, <2>2
<1>4. \A i \in 1..Len(list) : newer[i].name = list[i].name
  BY <1>2
<1>5. \A i \in 1..Len(list) : newer[i].address = late[newer[i].name]
  <2> SUFFICES ASSUME NEW i \in 1..Len(list) PROVE newer[i].address = late[newer[i].name]
    OBVIOUS
  <2>1. CASE list[i].name = e.name
    BY <2>1, <1>1, <1>2 DEF Learnt
  <2>2. CASE list[i].name # e.name
    BY <2>2, <1>2 DEF Listed, Learnt
  <2> QED BY <2>1, <2>2
<1> HIDE DEF late, newer
<1>6. Listed(newer, zone, late)
  <2>1. Len(newer) <= MaxNum
    BY <1>3 DEF Listed
  <2>2. ASSUME NEW i \in 1..Len(newer)
        PROVE  /\ ZoneOf[newer[i].name] = zone
               /\ \A j \in 1..Len(newer) : newer[j].name = newer[i].name => j = i
               /\ newer[i].address = late[newer[i].name]
    BY <1>3, <1>4, <1>5 DEF Listed
  <2> QED BY <1>3, <2>1, <2>2 DEF Listed
<1>7. Names(newer) = Names(list)
  BY <1>1, <1>2, <1>4 DEF Names
<1> QED BY <1>6, <1>7 DEF late, newer

(* Without one element, what follows it moves up.                            *)
LEMMA RemoveAtIs ==
  ASSUME NEW T, NEW list \in Seq(T), NEW k \in 1..Len(list)
  PROVE  /\ RemoveAt(list, k) \in Seq(T) /\ Len(RemoveAt(list, k)) = Len(list) - 1
         /\ \A i \in 1..Len(list) - 1 :
              RemoveAt(list, k)[i] = IF i < k THEN list[i] ELSE list[i + 1]
<1> DEFINE before == SubSeq(list, 1, k - 1)
           after == SubSeq(list, k + 1, Len(list))
<1>1. /\ before \in Seq(T) /\ Len(before) = k - 1
      /\ \A i \in 1..k - 1 : before[i] = list[i]
  <2>1. \A i \in 1..k - 1 : i \in 1..Len(list)
    OBVIOUS
  <2> QED BY <2>1, SubSeqProperties
<1>2. /\ after \in Seq(T) /\ Len(after) = Len(list) - k
      /\ \A i \in 1..Len(list) - k : after[i] = list[k + i]
  <2>1. \A i \in k + 1..Len(list) : i \in 1..Len(list)
    OBVIOUS
  <2> QED BY <2>1, SubSeqProperties
<1>3. RemoveAt(list, k) = before \o after
  BY DEF RemoveAt
<1> HIDE DEF before, after
<1>4. /\ before \o after \in Seq(T) /\ Len(before \o after) = Len(before) + Len(after)
      /\ \A i \in 1..Len(before) + Len(after) : (before \o after)[i] =
           IF i <= Len(before) THEN before[i] ELSE after[i - Len(before)]
  BY <1>1, <1>2, ConcatProperties
<1>5. Len(before) + Len(after) = Len(list) - 1
  BY <1>1, <1>2
<1>6. ASSUME NEW i \in 1..Len(list) - 1
      PROVE  RemoveAt(list, k)[i] = IF i < k THEN list[i] ELSE list[i + 1]
  <2>1. CASE i < k
    BY <2>1, <1>1, <1>3, <1>4, <1>5
  <2>2. CASE i >= k
    <3>1. i - (k - 1) \in 1..Len(list) - k /\ k + (i - (k - 1)) = i + 1 /\ ~(i <= k - 1)
      BY <2>2
    <3>2. RemoveAt(list, k)[i] = after[i - (k - 1)]
      BY <3>1, <1>1, <1>3, <1>4, <1>5
    <3> QED BY <2>2, <3>1, <3>2, <1>2
  <2> QED BY <2>1, <2>2
<1> QED BY <1>3, <1>4, <1>5, <1>6

LEMMA WithoutListed ==
  ASSUME NEW list, NEW zone, NEW known, NEW n, Listed(list, zone, known)
  PROVE  /\ Listed(Without(list, n), zone, known)
         /\ Names(Without(list, n)) = Names(list) \ {n}
         /\ n \in Names(list) => Len(Without(list, n)) = Len(list) - 1
<1>1. list \in Seq(Nodes) /\ Len(list) \in Nat /\ DOMAIN list = 1..Len(list)
  BY DEF Listed
<1>2. CASE Index(list, n) = {}
  <2>1. Without(list, n) = list /\ n \notin Names(list)
    BY <1>2 DEF Without, Index, Names
  <2> QED BY <2>1
<1>3. CASE Index(list, n) # {}
  <2>1. PICK k \in Index(list, n) : Without(list, n) = RemoveAt(list, k)
    BY <1>3 DEF Without
  <2>2. k \in 1..Len(list) /\ list[k].name = n
    BY <1>1, <2>1 DEF Index
  <2>3. \A j \in 1..Len(list) : list[j].name = n <=> j = k
    BY <2>2 DEF Listed
  <2> DEFINE rest == Without(list, n)
             From(i) == IF i < k THEN i ELSE i + 1
  <2>4. /\ rest \in Seq(Nodes) /\ Len(rest) = Len(list) - 1 /\ DOMAIN rest = 1..Len(list) - 1
        /\ \A i \in 1..Len(list) - 1 : rest[i] = list[From(i)]
    <3>1. /\ rest \in Seq(Nodes) /\ Len(rest) = Len(list) - 1
          /\ \A i \in 1..Len(list) - 1 : rest[i] = IF i < k THEN list[i] ELSE list[i + 1]
      BY <1>1, <2>1, <2>2, RemoveAtIs
    <3> QED BY <3>1
  <2>5. \A i \in 1..Len(list) - 1 : From(i) \in 1..Len(list) /\ From(i) # k
    BY <1>1, <2>2
  <2>6. \A i, j \in 1..Len(list) - 1 : From(i) = From(j) => i = j
    BY <1>1, <2>2
  <2>7. \A i \in 1..Len(list) : i # k => \E j \in 1..Len(list) - 1 : From(j) = i
    <3> SUFFICES ASSUME NEW i \in 1..Len(list), i # k
                 PROVE  \E j \in 1..Len(list) - 1 : From(j) = i
      OBVIOUS
    <3>1. CASE i < k
      BY <3>1, <1>1, <2>2
    <3>2. CASE i > k
      <4>1. i - 1 \in 1..Len(list) - 1 /\ From(i - 1) = i
        BY <3>2, <1>1, <2>2
      <4> QED BY <4>1
    <3> QED BY <1>1, <2>2, <3>1, <3>2
  <2> HIDE DEF rest, From
  <2>8. Listed(rest, zone, known)
    <3>1. Len(rest) <= MaxNum
      BY <1>1, <2>4, MaxNumAssumption DEF Listed
    <3>2. ASSUME NEW i \in 1..Len(rest)
          PROVE  /\ ZoneOf[rest[i].name] = zone
                 /\ rest[i].address = known[rest[i].name]
      <4>1. From(i) \in 1..Len(list) /\ rest[i] = list[From(i)]
        BY <3>2, <2>4, <2>5
      <4> QED BY <4>1 DEF Listed
    <3>3. ASSUME NEW i \in 1..Len(rest), NEW j \in 1..Len(rest), rest[j].name = rest[i].name
          PROVE  j = i
      <4>1. /\ From(i) \in 1..Len(list) /\ rest[i] = list[From(i)]
            /\ From(j) \in 1..Len(list) /\ rest[j] = list[From(j)]
        BY <3>3, <2>4, <2>5
      <4>2. From(j) = From(i)
        BY <3>3, <4>1 DEF Listed
      <4> QED BY <3>3, <4>2, <2>4, <2>6
    <3> QED BY <2>4, <3>1, <3>2, <3>3 DEF Listed
  <2>9. Names(rest) = Names(list) \ {n}
    <3>1. ASSUME NEW m \in Names(rest) PROVE m \in Names(list) \ {n}
      <4>1. PICK i \in 1..Len(list) - 1 : m = list[From(i)].name
        BY <2>4 DEF Names
      <4> QED BY <4>1, <1>1, <2>3, <2>5 DEF Names
    <3>2. ASSUME NEW m \in Names(list) \ {n} PROVE m \in Names(rest)
      <4>1. PICK i \in 1..Len(list) : m = list[i].name
        BY <1>1 DEF Names
      <4>2. i # k
        BY <4>1, <2>3
      <4>3. PICK j \in 1..Len(list) - 1 : From(j) = i
        BY <4>2, <2>7
      <4>4. rest[j].name = m /\ j \in DOMAIN rest
        BY <4>1, <4>3, <2>4
      <4> QED BY <4>4 DEF Names
    <3> QED BY <3>1, <3>2
  <2> QED BY <2>4, <2>8, <2>9 DEF rest
<1> QED BY <1>2, <1>3

-----------------------------------------------------------------------------
(* A heartbeat.                                                              *)
LEMMA AllNames ==
  ASSUME NEW lists
  PROVE  UNION {Names(lists[z]) : z \in Zones} = Names(lists["Front"]) \cup Names(lists["Back"])
  BY DEF Zones

LEMMA AdmitKeeps ==
  ASSUME Typed, Registered, NEW e \in Nodes, ZoneOf[e.name] \in Zones, Admit(e),
         latest' = [latest EXCEPT ![e.name] = e.address]
  PROVE  Registered' /\ DOMAIN zone_ecus' = Zones
<1>0. PICK zone, list : zone = ZoneOf[e.name] /\ list = zone_ecus[zone]
  OBVIOUS
<1> DEFINE late == Learnt(latest, e)
<1>1. /\ zone \in Zones /\ DOMAIN zone_ecus = Zones /\ DOMAIN latest = DOMAIN ZoneOf
      /\ \A z \in Zones : Listed(zone_ecus[z], z, latest)
      /\ ecu_registry = UNION {Names(zone_ecus[z]) : z \in Zones}
  BY <1>0 DEF Typed, Registered
<1>2. list \in Seq(Nodes) /\ Len(list) \in Nat /\ DOMAIN list = 1..Len(list)
  BY <1>0, <1>1 DEF Listed
<1>3. \A z \in Zones \ {zone} : Listed(zone_ecus[z], z, late)
  BY <1>0, <1>1, OtherListed DEF late
<1>4. Index(list, e.name) = {} <=> e.name \notin Names(list)
  BY DEF Index, Names
<1>a. Listed(list, zone, latest) /\ DOMAIN latest = DOMAIN ZoneOf /\ list = zone_ecus[zone]
  BY <1>0, <1>1
<1>b. latest' = late
  BY DEF Learnt
<1> HIDE DEF late
<1>5. CASE Index(list, e.name) # {}
  <2> DEFINE newer == Updated(list, e)
  <2>1. zone_ecus' = [zone_ecus EXCEPT ![zone] = newer] /\ ecu_registry' = ecu_registry \cup {e.name}
    BY <1>0, <1>5 DEF Admit, Updated
  <2>2. Listed(newer, zone, late) /\ Names(newer) = Names(list)
    BY <1>a, UpdateListed DEF late
  <2> HIDE DEF newer
  <2>3. \A z \in Zones : Listed(zone_ecus'[z], z, late) /\ Names(zone_ecus'[z]) = Names(zone_ecus[z])
    BY <1>a, <1>1, <1>3, <2>1, <2>2
  <2>4. ecu_registry' = UNION {Names(zone_ecus'[z]) : z \in Zones}
    <3>1. ecu_registry = Names(zone_ecus["Front"]) \cup Names(zone_ecus["Back"])
      BY <1>1, AllNames
    <3>2. ecu_registry' = Names(zone_ecus'["Front"]) \cup Names(zone_ecus'["Back"])
      BY <1>a, <1>1, <1>4, <1>5, <2>1, <2>3, <3>1 DEF Zones
    <3> QED BY <3>2, AllNames
  <2> QED BY <1>b, <1>1, <2>1, <2>3, <2>4 DEF Registered
<1>6. CASE Index(list, e.name) = {} /\ Len(list) < MaxNum
  <2> DEFINE longer == Append(list, e)
  <2>1. zone_ecus' = [zone_ecus EXCEPT ![zone] = longer] /\ ecu_registry' = ecu_registry \cup {e.name}
    BY <1>0, <1>6 DEF Admit
  <2>2. Listed(longer, zone, late) /\ Names(longer) = Names(list) \cup {e.name}
    <3>1. /\ Listed(list, zone, latest) /\ DOMAIN latest = DOMAIN ZoneOf
          /\ e.name \notin Names(list) /\ Len(list) < MaxNum /\ ZoneOf[e.name] = zone
      BY <1>a, <1>0, <1>4, <1>6
    <3>2. Listed(longer, zone, Learnt(latest, e)) /\ Names(longer) = Names(list) \cup {e.name}
      BY <3>1, AppendListed
    <3> QED BY <3>2 DEF late
  <2> HIDE DEF longer
  <2>3. /\ \A z \in Zones : Listed(zone_ecus'[z], z, late)
        /\ \A z \in Zones : Names(zone_ecus'[z]) =
             IF z = zone THEN Names(zone_ecus[z]) \cup {e.name} ELSE Names(zone_ecus[z])
    BY <1>a, <1>1, <1>3, <2>1, <2>2
  <2>4. ecu_registry' = UNION {Names(zone_ecus'[z]) : z \in Zones}
    <3>1. ecu_registry = Names(zone_ecus["Front"]) \cup Names(zone_ecus["Back"])
      BY <1>1, AllNames
    <3>2. ecu_registry' = Names(zone_ecus'["Front"]) \cup Names(zone_ecus'["Back"])
      BY <1>1, <2>1, <2>3, <3>1 DEF Zones
    <3> QED BY <3>2, AllNames
  <2> QED BY <1>b, <1>1, <2>1, <2>3, <2>4 DEF Registered
<1>7. CASE Index(list, e.name) = {} /\ ~(Len(list) < MaxNum)
  <2> DEFINE oldest == Head(list).name
             shorter == Without(list, oldest)
             longer == Append(shorter, e)
  <2>1. /\ zone_ecus' = [Removed(oldest) EXCEPT ![zone] = Append(@, e)]
        /\ ecu_registry' = (ecu_registry \ {oldest}) \cup {e.name}
    BY <1>0, <1>7 DEF Admit
  <2>2. oldest \in Names(list)
    <3>1. 1 \in 1..Len(list) /\ Head(list) = list[1]
      BY <1>2, <1>7, MaxNumAssumption, HeadTailProperties, EmptySeq
    <3> QED BY <1>2, <3>1 DEF Names
  <2>3. \A z \in Zones : /\ Listed(Without(zone_ecus[z], oldest), z, latest)
                         /\ Names(Without(zone_ecus[z], oldest)) = Names(zone_ecus[z]) \ {oldest}
    BY <1>1, WithoutListed
  <2>4. Len(shorter) < MaxNum
    <3>1. Len(shorter) = Len(list) - 1
      BY <1>a, <2>2, WithoutListed
    <3>2. Len(list) <= MaxNum
      BY <1>a DEF Listed
    <3> HIDE DEF shorter
    <3> QED BY <1>2, <3>1, <3>2, MaxNumAssumption
  <2>5. /\ Listed(longer, zone, late)
        /\ Names(longer) = (Names(list) \ {oldest}) \cup {e.name}
    <3>1. Listed(shorter, zone, latest) /\ Names(shorter) = Names(list) \ {oldest}
      BY <1>a, <1>1, <2>3
    <3>2. e.name \notin Names(shorter) /\ ZoneOf[e.name] = zone
      BY <1>0, <1>4, <1>7, <3>1
    <3> HIDE DEF shorter, oldest
    <3> QED BY <1>a, <3>1, <3>2, <2>4, AppendListed DEF late
  <2>6. \A z \in Zones \ {zone} : Listed(Without(zone_ecus[z], oldest), z, late)
    BY <1>0, <2>3, OtherListed DEF late
  <2>7. /\ DOMAIN zone_ecus' = Zones
        /\ \A z \in Zones : zone_ecus'[z] = IF z = zone THEN longer ELSE Without(zone_ecus[z], oldest)
    BY <1>a, <1>1, <2>1 DEF Removed
  <2> HIDE DEF longer, shorter, oldest
  <2>8. /\ \A z \in Zones : Listed(zone_ecus'[z], z, late)
        /\ \A z \in Zones : Names(zone_ecus'[z]) =
             IF z = zone THEN (Names(zone_ecus[z]) \ {oldest}) \cup {e.name}
             ELSE Names(zone_ecus[z]) \ {oldest}
    BY <1>a, <2>3, <2>5, <2>6, <2>7
  <2>9. ecu_registry' = UNION {Names(zone_ecus'[z]) : z \in Zones}
    <3>1. ecu_registry = Names(zone_ecus["Front"]) \cup Names(zone_ecus["Back"])
      BY <1>1, AllNames
    <3>2. ecu_registry' = Names(zone_ecus'["Front"]) \cup Names(zone_ecus'["Back"])
      BY <1>1, <2>1, <2>8, <3>1 DEF Zones
    <3> QED BY <3>2, AllNames
  <2> QED BY <1>b, <2>7, <2>8, <2>9 DEF Registered
<1> QED BY <1>5, <1>6, <1>7

LEMMA RemoveKeeps ==
  ASSUME Typed, Registered, NEW n, zone_ecus' = Removed(n), ecu_registry' = ecu_registry \ {n},
         latest' = latest
  PROVE  Registered' /\ DOMAIN zone_ecus' = Zones
<1>1. \A z \in Zones : zone_ecus'[z] = Without(zone_ecus[z], n)
  BY DEF Removed
<1>2. \A z \in Zones : /\ Listed(zone_ecus'[z], z, latest')
                       /\ Names(zone_ecus'[z]) = Names(zone_ecus[z]) \ {n}
  BY <1>1, WithoutListed DEF Registered
<1>3. ecu_registry' = UNION {Names(zone_ecus'[z]) : z \in Zones}
  <2>1. ecu_registry = Names(zone_ecus["Front"]) \cup Names(zone_ecus["Back"])
    BY AllNames DEF Registered
  <2>2. ecu_registry' = Names(zone_ecus'["Front"]) \cup Names(zone_ecus'["Back"])
    BY <1>2, <2>1 DEF Zones
  <2> QED BY <2>2, AllNames
<1> QED BY <1>2, <1>3 DEF Registered, Removed

LEMMA UpdateGuiKeeps ==
  ASSUME Typed, Dragged, NEW h \in Heartbeats, NEW zone \in Zones, UpdateGui(zone, h.speeds)
  PROVE  Dragged' /\ DOMAIN motor_states' = Zones /\ \A z \in Zones : DOMAIN motor_states'[z] = Sides
<1>1. DOMAIN h.speeds = Sides
  BY HeartbeatsAssumption
<1>2. DOMAIN motor_states' = Zones /\ \A z \in Zones : DOMAIN motor_states'[z] = Sides
  BY <1>1 DEF Typed, UpdateGui
<1>3. CASE drag.zone # zone
  <2>1. drag' = drag
    BY <1>3 DEF UpdateGui
  <2> QED BY <1>2, <2>1 DEF Dragged
<1>4. CASE drag.zone = zone
  <2>1. drag # NoDrag
    BY <1>4 DEF NoDrag, Zones
  <2>2. DOMAIN drag = {"zone", "side", "shown", "meant"} /\ drag.zone \in Zones /\ drag.side \in Sides
    BY <2>1 DEF Dragged
  <2>3. drag' = [drag EXCEPT !.shown = h.speeds[drag.side], !.meant = @ \cup {h.speeds[drag.side]}]
    BY <1>4 DEF UpdateGui
  <2>4. /\ DOMAIN drag' = {"zone", "side", "shown", "meant"} /\ drag'.zone = drag.zone
        /\ drag'.side = drag.side /\ drag'.shown = h.speeds[drag.side]
        /\ drag'.meant = drag.meant \cup {h.speeds[drag.side]}
    BY <2>2, <2>3
  <2>5. drag'.zone \in Zones /\ drag'.side \in Sides /\ drag'.shown \in drag'.meant
    BY <2>2, <2>4
  <2> QED BY <1>2, <2>4, <2>5 DEF Dragged
<1> QED BY <1>3, <1>4

LEMMA TailPending ==
  ASSUME Typed, pending # <<>>, pending' = Tail(pending)
  PROVE  pending' \in Seq(Payloads) /\ Head(pending) \in Payloads
BY HeadTailProperties DEF Typed

LEMMA ProcessHeartbeatKeeps == MonitorInv /\ ProcessHeartbeat => MonitorInv'
<1> SUFFICES ASSUME MonitorInv, ProcessHeartbeat PROVE MonitorInv'
  OBVIOUS
<1>1. pending' \in Seq(Payloads) /\ Head(pending) \in Payloads
  BY TailPending DEF MonitorInv, ProcessHeartbeat
<1>2. PICK beat \in Heartbeats : Head(pending).payload = beat
  BY <1>1 DEF ProcessHeartbeat, Payloads
<1>3. PICK e \in Nodes : e = [name |-> beat.name, address |-> beat.address]
  BY <1>2 DEF Nodes
<1>4. /\ ZoneOf[e.name] \in Zones /\ Admit(e) /\ UpdateGui(ZoneOf[e.name], beat.speeds)
      /\ latest' = [latest EXCEPT ![e.name] = e.address]
  BY <1>2, <1>3 DEF ProcessHeartbeat
<1>5. Registered' /\ DOMAIN zone_ecus' = Zones
  BY <1>4, AdmitKeeps DEF MonitorInv
<1>6. Dragged' /\ DOMAIN motor_states' = Zones /\ \A z \in Zones : DOMAIN motor_states'[z] = Sides
  BY <1>4, UpdateGuiKeeps DEF MonitorInv
<1>7. DOMAIN latest' = DOMAIN ZoneOf
  BY <1>4 DEF MonitorInv, Typed
<1>8. Typed'
  BY <1>1, <1>5, <1>6, <1>7 DEF Typed
<1>9. Transmitted'
  BY DEF ProcessHeartbeat, Transmitted
<1> QED BY <1>5, <1>6, <1>8, <1>9 DEF MonitorInv

LEMMA RemoveZecuKeeps == MonitorInv /\ RemoveZecu => MonitorInv'
<1> SUFFICES ASSUME MonitorInv, RemoveZecu PROVE MonitorInv'
  OBVIOUS
<1>1. PICK item : zone_ecus' = Removed(item.name) /\ ecu_registry' = ecu_registry \ {item.name}
  BY DEF RemoveZecu
<1>2. latest' = latest /\ pending' = pending /\ motor_states' = motor_states /\ drag' = drag /\ tx' = {}
  BY DEF RemoveZecu
<1>3. Registered' /\ DOMAIN zone_ecus' = Zones
  BY <1>1, <1>2, RemoveKeeps DEF MonitorInv
<1>4. Typed' /\ Dragged' /\ Transmitted'
  BY <1>2, <1>3 DEF MonitorInv, Typed, Dragged, Transmitted
<1> QED BY <1>3, <1>4 DEF MonitorInv

-----------------------------------------------------------------------------
(* Events that leave the registries and the motors alone.                    *)
LEMMA QuietKeeps ==
  ASSUME MonitorInv, UNCHANGED <<registries, motor_states, latest>>,
         pending' \in Seq(Payloads), Dragged',
         \A f \in tx' : f.type \in {"AuthRX", "PairingRequest"}
  PROVE  MonitorInv'
BY DEF MonitorInv, Typed, Registered, Transmitted, registries, Listed

LEMMA QuietKeepMonitorInv ==
  MonitorInv /\ (\/ Receive \/ HandleAuthTx \/ DropHeartbeat \/ OpenDiscoveryDialog \/ ParseBroadcast
                 \/ ConnectToEcu \/ Cleanup \/ DragSlider \/ CloseEvent)
    => MonitorInv'
<1> SUFFICES ASSUME MonitorInv,
                    \/ Receive \/ HandleAuthTx \/ DropHeartbeat \/ OpenDiscoveryDialog
                    \/ ParseBroadcast \/ ConnectToEcu \/ Cleanup \/ DragSlider \/ CloseEvent
             PROVE  MonitorInv'
  OBVIOUS
<1>1. UNCHANGED <<registries, motor_states, latest>>
  BY DEF Receive, HandleAuthTx, DropHeartbeat, OpenDiscoveryDialog, ParseBroadcast, ConnectToEcu,
         Cleanup, DragSlider, CloseEvent
<1>2. pending' \in Seq(Payloads)
  <2>1. CASE Receive
    <3>1. PICK p \in Payloads : pending' = Append(pending, p)
      BY <2>1 DEF Receive, Payloads
    <3>2. pending \in Seq(Payloads)
      BY DEF MonitorInv, Typed
    <3> QED BY <3>1, <3>2, AppendProperties
  <2>2. CASE HandleAuthTx \/ DropHeartbeat
    BY <2>2, TailPending DEF MonitorInv, HandleAuthTx, DropHeartbeat
  <2>3. CASE \/ OpenDiscoveryDialog \/ ParseBroadcast \/ ConnectToEcu \/ Cleanup
             \/ DragSlider \/ CloseEvent
    BY <2>3 DEF MonitorInv, Typed, OpenDiscoveryDialog, ParseBroadcast, ConnectToEcu, Cleanup,
                DragSlider, CloseEvent
  <2> QED BY <2>1, <2>2, <2>3
<1>3. Dragged'
  <2>1. CASE DragSlider
    BY <2>1 DEF DragSlider, Dragged
  <2>2. CASE UNCHANGED drag
    BY <2>2 DEF MonitorInv, Dragged
  <2> QED BY <2>1, <2>2 DEF Receive, HandleAuthTx, DropHeartbeat, OpenDiscoveryDialog,
                            ParseBroadcast, ConnectToEcu, Cleanup, CloseEvent
<1>4. \A f \in tx' : f.type \in {"AuthRX", "PairingRequest"}
  BY DEF Receive, HandleAuthTx, DropHeartbeat, OpenDiscoveryDialog, ParseBroadcast, ConnectToEcu,
         Cleanup, DragSlider, CloseEvent
<1> QED BY <1>1, <1>2, <1>3, <1>4, QuietKeeps

-----------------------------------------------------------------------------
(* Commands.                                                                 *)
LEMMA FramesAreRightful ==
  ASSUME NEW zone, NEW type, NEW speeds, NEW meant,
         \A s \in DOMAIN speeds : s \in DOMAIN meant /\ speeds[s] \in meant[s],
         NEW f \in Frames(zone, type, speeds, meant)
  PROVE  Rightful(f, zone_ecus)
<1>1. PICK i \in DOMAIN zone_ecus[zone] :
        f = [type |-> type, to |-> zone_ecus[zone][i].address, zone |-> zone,
             speeds |-> speeds, meant |-> meant]
  BY DEF Frames
<1>2. f.to = zone_ecus[zone][i].address /\ f.zone = zone /\ f.speeds = speeds /\ f.meant = meant
  BY <1>1
<1> QED BY <1>2 DEF Rightful

LEMMA TransmitMotorUpdateIsRightful ==
  ASSUME NEW zone, NEW sides, NEW states, NEW meant,
         \A s \in sides : s \in DOMAIN meant /\ states[zone][s] \in meant[s],
         NEW f \in TransmitMotorUpdate(zone, sides, states, meant)
  PROVE  Rightful(f, zone_ecus)
<1>1. PICK speeds : speeds = [s \in sides |-> states[zone][s]]
  OBVIOUS
<1>2. f \in Frames(zone, FrameType(sides), speeds, meant)
  BY <1>1 DEF TransmitMotorUpdate
<1>3. \A s \in DOMAIN speeds : s \in DOMAIN meant /\ speeds[s] \in meant[s]
  BY <1>1
<1> QED BY <1>2, <1>3, FramesAreRightful

LEMMA ToAllIsRightful ==
  ASSUME NEW type, NEW v, NEW f \in ToAll(type, v)
  PROVE  Rightful(f, zone_ecus)
<1>1. PICK speeds, meant : speeds = [s \in Sides |-> v] /\ meant = [s \in Sides |-> {v}]
  OBVIOUS
<1>2. PICK z \in Zones : f \in Frames(z, type, speeds, meant)
  BY <1>1 DEF ToAll
<1>3. \A s \in DOMAIN speeds : s \in DOMAIN meant /\ speeds[s] \in meant[s]
  BY <1>1
<1> QED BY <1>2, <1>3, FramesAreRightful

LEMMA CommandKeeps ==
  ASSUME MonitorInv, UNCHANGED <<registries, latest, pending>>, Dragged',
         DOMAIN motor_states' = Zones, \A z \in Zones : DOMAIN motor_states'[z] = Sides,
         \A f \in tx' : Rightful(f, zone_ecus)
  PROVE  MonitorInv'
BY DEF MonitorInv, Typed, Registered, Transmitted, registries, Listed

LEMMA SetKeeps ==
  ASSUME MonitorInv, NEW values, Set(values)
  PROVE  MonitorInv'
<1> DEFINE States == [z \in Zones |-> [s \in Sides |-> IF <<z, s>> \in DOMAIN values
                                         THEN values[<<z, s>>] ELSE motor_states[z][s]]]
           sides(z) == {s \in Sides : <<z, s>> \in DOMAIN values}
           Meant(z) == [s \in sides(z) |-> {values[<<z, s>>]}]
<1>1. motor_states' = States /\ tx' = UNION {TransmitMotorUpdate(z, sides(z), States, Meant(z)) : z \in Zones}
  BY DEF Set
<1>2. PICK states : states = States
  OBVIOUS
<1>3. \A z \in Zones : \A s \in sides(z) : s \in DOMAIN Meant(z) /\ states[z][s] \in Meant(z)[s]
  BY <1>2
<1>4. tx' = UNION {TransmitMotorUpdate(z, sides(z), states, Meant(z)) : z \in Zones}
  BY <1>1, <1>2
<1>5. DOMAIN motor_states' = Zones /\ \A z \in Zones : DOMAIN motor_states'[z] = Sides
  BY <1>1
<1> HIDE DEF States, sides, Meant
<1>6. ASSUME NEW f \in tx' PROVE Rightful(f, zone_ecus)
  <2>1. PICK z \in Zones : f \in TransmitMotorUpdate(z, sides(z), states, Meant(z))
    BY <1>4
  <2> QED BY <1>3, <2>1, TransmitMotorUpdateIsRightful
<1>7. UNCHANGED <<registries, latest, pending>> /\ Dragged'
  BY DEF Set, MonitorInv, Dragged
<1> QED BY <1>5, <1>6, <1>7, CommandKeeps

LEMMA OnSliderReleasedKeeps == MonitorInv /\ OnSliderReleased => MonitorInv'
<1> SUFFICES ASSUME MonitorInv, OnSliderReleased PROVE MonitorInv'
  OBVIOUS
<1>1. drag.zone \in Zones /\ drag.side \in Sides /\ drag.shown \in drag.meant
  BY DEF OnSliderReleased, MonitorInv, Dragged
<1>2. PICK zone, side, states, meant :
        /\ zone = drag.zone /\ side = drag.side /\ meant = [s \in {side} |-> drag.meant]
        /\ states = [motor_states EXCEPT ![zone][side] = drag.shown]
  OBVIOUS
<1>3. motor_states' = states /\ tx' = TransmitMotorUpdate(zone, {side}, states, meant)
  BY <1>2 DEF OnSliderReleased
<1>4. DOMAIN states = Zones /\ (\A z \in Zones : DOMAIN states[z] = Sides) /\ states[zone][side] = drag.shown
  BY <1>1, <1>2 DEF MonitorInv, Typed
<1>5. \A s \in {side} : s \in DOMAIN meant /\ states[zone][s] \in meant[s]
  BY <1>1, <1>2, <1>4
<1>6. \A f \in tx' : Rightful(f, zone_ecus)
  BY <1>3, <1>5, TransmitMotorUpdateIsRightful
<1>7. UNCHANGED <<registries, latest, pending>> /\ Dragged'
  BY DEF OnSliderReleased, Dragged
<1> QED BY <1>3, <1>4, <1>6, <1>7, CommandKeeps

LEMMA ToAllKeeps == MonitorInv /\ (OnStartStopClicked \/ OnForwardClicked) => MonitorInv'
<1> SUFFICES ASSUME MonitorInv, OnStartStopClicked \/ OnForwardClicked PROVE MonitorInv'
  OBVIOUS
<1>1. PICK type, v : tx' = ToAll(type, v)
  BY DEF OnStartStopClicked, OnForwardClicked
<1>2. \A f \in tx' : Rightful(f, zone_ecus)
  BY <1>1, ToAllIsRightful
<1>3. UNCHANGED <<registries, latest, pending, motor_states>> /\ Dragged'
  BY DEF OnStartStopClicked, OnForwardClicked, MonitorInv, Dragged
<1> QED BY <1>2, <1>3, CommandKeeps DEF MonitorInv, Typed

-----------------------------------------------------------------------------
LEMMA NextMonitorInv == MonitorInv /\ [Next]_monitorVars => MonitorInv'
<1> SUFFICES ASSUME MonitorInv, [Next]_monitorVars PROVE MonitorInv'
  OBVIOUS
<1>1. CASE \/ Receive \/ HandleAuthTx \/ DropHeartbeat \/ OpenDiscoveryDialog \/ ParseBroadcast
           \/ ConnectToEcu \/ Cleanup \/ DragSlider \/ CloseEvent
  BY <1>1, QuietKeepMonitorInv
<1>2. CASE ProcessHeartbeat
  BY <1>2, ProcessHeartbeatKeeps
<1>3. CASE RemoveZecu
  BY <1>3, RemoveZecuKeeps
<1>4. CASE OnVisSpeedSet \/ OnControlComboSpeedSet
  <2>1. PICK values : Set(values)
    BY <1>4 DEF OnVisSpeedSet, OnControlComboSpeedSet
  <2> QED BY <2>1, SetKeeps
<1>5. CASE OnSliderReleased
  BY <1>5, OnSliderReleasedKeeps
<1>6. CASE OnStartStopClicked \/ OnForwardClicked
  BY <1>6, ToAllKeeps
<1>7. CASE UNCHANGED monitorVars
  BY <1>7 DEF monitorVars, MonitorInv, Typed, Registered, Listed, Dragged, Transmitted
<1> QED BY <1>1, <1>2, <1>3, <1>4, <1>5, <1>6, <1>7 DEF Next

(* However heartbeats, removals, telemetry and commands interleave, for any  *)
(* nodes, any room and a queue of any length: the zones and the plots know   *)
(* the same nodes, each once and at its last address (MonitorMain.py:475,    *)
(* 968), and what is commanded goes to such an address with no speed that    *)
(* neither operator nor telemetry put there (MonitorMain.py:1071, 1420).     *)
THEOREM CommandsReachTheirNodes == Spec => []CommandsFitRegistry
<1> QED BY InitMonitorInv, NextMonitorInv, MonitorInvImplies, PTL DEF Spec
=============================================================================
