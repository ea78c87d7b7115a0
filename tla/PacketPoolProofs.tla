-------------------------- MODULE PacketPoolProofs --------------------------
(***************************************************************************)
(* Proofs about PacketPool for any number of slots, producers, consumers   *)
(* and packets.                                                            *)
(***************************************************************************)
EXTENDS PacketPool, FiniteSetTheorems, TLAPS

\* Who is inside a slot, as first-order facts: the inductive form of OneOwner.
Ownership ==
  /\ \A p \in Producers : ppc[p] \in Copying =>
       pidx[p] \in Slots /\ state[pidx[p]] = "WRITING"
  /\ \A p, q \in Producers :
       ppc[p] \in Copying /\ ppc[q] \in Copying /\ pidx[p] = pidx[q] => p = q
  /\ \A s \in Slots : state[s] = "WRITING" => \E p \in Producers : Writes(p, s)
  /\ \A c \in Consumers : cpc[c] = "hold" =>
       cbest[c] \in Slots /\ state[cbest[c]] = "READING"
  /\ \A c, d \in Consumers :
       cpc[c] = "hold" /\ cpc[d] = "hold" /\ cbest[c] = cbest[d] => c = d
  /\ \A s \in Slots : state[s] = "READING" => \E c \in Consumers : Reads(c, s)

\* A push carries its packet from the scan to the publication.
Carries(p) == ppc[p] \in Copying \cup {"scan"}

\* What a push has copied so far is in its slot.
Copied ==
  \A p \in Producers :
    /\ Carries(p) => ppkt[p] \in Valid
    /\ ppc[p] \in {"addr", "publish"} => body[pidx[p]] = ppkt[p]
    /\ ppc[p] = "publish" => addr[pidx[p]] = ppkt[p]

\* A packet is in one place only: carried by one push, or in one slot.
Visible(s) == state[s] \in {"READY", "READING"}
Distinct ==
  /\ \A p, q \in Producers :
       Carries(p) /\ Carries(q) /\ ppkt[p] = ppkt[q] => p = q
  /\ \A p \in Producers, s \in Slots :
       Carries(p) /\ Visible(s) => body[s] # ppkt[p]
  /\ \A s, t \in Slots :
       Visible(s) /\ Visible(t) /\ body[s] = body[t] => s = t

-----------------------------------------------------------------------------
USE DEF Slots, Valid, Copying, None

\* The slot a get compares exists: what makes TypeOK inductive.
Compared == \A c \in Consumers : cpc[c] = "prio" => cidx[c] \in Slots

LEMMA InitTypeOK == Init => TypeOK /\ Compared
  BY NSlotsAssumption DEF Init, TypeOK, Compared

LEMMA HeadByteType ==
  ASSUME TypeOK, NEW s \in Int PROVE HeadByte(s) \in 0 .. 255
  BY PacketsAssumption DEF HeadByte, TypeOK

LEMMA NextTypeOK == TypeOK /\ Compared /\ [Next]_vars => TypeOK'
<1> SUFFICES ASSUME TypeOK, Compared, [Next]_vars PROVE TypeOK'
  OBVIOUS
<1> USE NSlotsAssumption, PacketsAssumption
<1>1. ASSUME NEW p \in Producers, Producer(p) PROVE TypeOK'
  <2>1. ASSUME NEW k \in Packets, PushRefused(p, k) PROVE TypeOK'
    BY <2>1 DEF TypeOK, PushRefused, slotVars, consVars
  <2>2. ASSUME NEW k \in Packets, PushBegin(p, k) PROVE TypeOK'
    BY <2>2 DEF TypeOK, PushBegin, slotVars, consVars, In
  <2>3. CASE PushClaim(p)
    BY <2>3 DEF TypeOK, PushClaim, consVars, In
  <2>4. CASE PushSkip(p)
    BY <2>4 DEF TypeOK, PushSkip, slotVars, consVars
  <2>5. CASE PushOverflow(p)
    BY <2>5 DEF TypeOK, PushOverflow, slotVars, consVars
  <2>6. CASE PushCopyData(p)
    BY <2>6 DEF TypeOK, PushCopyData, consVars
  <2>7. CASE PushCopyAddr(p)
    BY <2>7 DEF TypeOK, PushCopyAddr, consVars
  <2>8. CASE PushPublish(p)
    BY <2>8 DEF TypeOK, PushPublish, consVars
  <2>9. CASE PushReturn(p)
    <3>1. pidx' \in [Producers -> 0 .. NSlots]
      BY <2>9 DEF TypeOK, PushReturn
    <3>2. pcnt' \in [Producers -> 0 .. 255]
      BY <2>9 DEF TypeOK, PushReturn
    <3>3. QED BY <2>9, <3>1, <3>2 DEF TypeOK, PushReturn, slotVars, consVars
  <2>10. CASE SizeBegin(p)
    BY <2>10 DEF TypeOK, SizeBegin, slotVars, consVars
  <2>11. CASE SizeCount(p)
    <3> DEFINE n == IF state[pidx[p]] = "READY"
                      THEN (pcnt[p] + 1) % 256 ELSE pcnt[p]
    <3>1. n \in 0 .. 255
      <4>1. pcnt[p] \in 0 .. 255
        BY DEF TypeOK
      <4>2. (pcnt[p] + 1) % 256 \in 0 .. 255
        BY <4>1
      <4>3. QED BY <4>1, <4>2
    <3>2. pcnt' = [pcnt EXCEPT ![p] = n] /\ pidx[p] + 1 \in 0 .. NSlots
      BY <2>11 DEF SizeCount
    <3> HIDE DEF n
    <3>3. pcnt' \in [Producers -> 0 .. 255]
      BY <3>1, <3>2 DEF TypeOK
    <3>4. pidx' \in [Producers -> 0 .. NSlots]
      BY <2>11, <3>2 DEF TypeOK, SizeCount
    <3>5. UNCHANGED <<slotVars, ppc, ppkt, freeAtPush, consVars>>
      BY <2>11 DEF SizeCount
    <3>6. QED
      BY <3>3, <3>4, <3>5 DEF TypeOK, slotVars, consVars
  <2>12. CASE SizeReturn(p)
    BY <2>12 DEF TypeOK, SizeReturn, slotVars, consVars
  <2> QED BY <1>1, <2>1, <2>2, <2>3, <2>4, <2>5, <2>6, <2>7, <2>8, <2>9,
             <2>10, <2>11, <2>12 DEF Producer, PushStep, SizeStep
<1>2. ASSUME NEW c \in Consumers, Consumer(c) PROVE TypeOK'
  <2>1. CASE GetBegin(c)
    BY <2>1 DEF TypeOK, GetBegin, slotVars, prodVars, In
  <2>2. CASE GetSeeReady(c)
    BY <2>2 DEF TypeOK, GetSeeReady, slotVars, prodVars
  <2>3. CASE GetSkip(c)
    <3>1. cidx[c] + 1 \in 0 .. NSlots
      BY <2>3 DEF GetSkip
    <3>2. cidx' \in [Consumers -> 0 .. NSlots]
      BY <2>3, <3>1 DEF TypeOK, GetSkip
    <3>3. QED
      BY <2>3, <3>2 DEF TypeOK, GetSkip, slotVars, prodVars
  <2>4. CASE GetCompare(c)
    <3> DEFINE b == HeadByte(cidx[c])
    <3>1. cidx[c] \in Slots
      BY <2>4 DEF Compared, GetCompare
    <3>0. b \in 0 .. 255
      BY <3>1, HeadByteType
    <3> HIDE DEF b
    <3>2. cprio' \in [Consumers -> 0 .. 255]
      <4>1. cprio' = [cprio EXCEPT ![c] = IF Better(c) THEN b ELSE cprio[c]]
        BY <2>4 DEF GetCompare, b
      <4>2. QED BY <3>0, <4>1 DEF TypeOK
    <3>3. cidx' \in [Consumers -> 0 .. NSlots]
      BY <2>4, <3>1 DEF TypeOK, GetCompare
    <3>4. cbest' \in [Consumers -> Slots \cup {None}]
      BY <2>4, <3>1 DEF TypeOK, GetCompare
    <3>5. cpc' \in [Consumers -> {"idle", "load", "prio", "hold", "null"}]
      BY <2>4 DEF TypeOK, GetCompare
    <3>6. QED
      BY <2>4, <3>2, <3>3, <3>4, <3>5 DEF TypeOK, GetCompare, slotVars, prodVars
  <2>5. CASE GetClaim(c)
    BY <2>5 DEF TypeOK, GetClaim, prodVars, In
  <2>6. CASE GetNull(c)
    BY <2>6 DEF TypeOK, GetNull, slotVars, prodVars
  <2>7. CASE NullReturn(c)
    BY <2>7 DEF TypeOK, NullReturn, Forget, slotVars, prodVars
  <2>8. CASE Release(c)
    <3>1. state' \in [Slots -> {"FREE", "WRITING", "READY", "READING"}]
      BY <2>8 DEF TypeOK, Release
    <3>2. QED
      BY <2>8, <3>1 DEF TypeOK, Release, Forget, prodVars
  <2> QED BY <1>2, <2>1, <2>2, <2>3, <2>4, <2>5, <2>6, <2>7, <2>8 DEF Consumer
<1>3. CASE UNCHANGED vars
  BY <1>3 DEF TypeOK, vars, slotVars, prodVars, consVars
<1> QED BY <1>1, <1>2, <1>3 DEF Next

LEMMA NextCompared == TypeOK /\ Compared /\ [Next]_vars => Compared'
<1> SUFFICES ASSUME TypeOK, Compared, [Next]_vars PROVE Compared'
  OBVIOUS
<1> USE DEF Compared, TypeOK
<1>1. ASSUME NEW p \in Producers, Producer(p) PROVE Compared'
  BY <1>1 DEF Producer, PushStep, SizeStep, PushRefused, PushBegin, PushClaim,
       PushSkip, PushOverflow, PushCopyData, PushCopyAddr, PushPublish,
       PushReturn, SizeBegin, SizeCount, SizeReturn, consVars
<1>2. ASSUME NEW c \in Consumers, Consumer(c) PROVE Compared'
  <2>1. CASE GetBegin(c)
    BY <2>1 DEF GetBegin
  <2>2. CASE GetSeeReady(c)
    BY <2>2 DEF GetSeeReady, In
  <2>3. CASE GetSkip(c)
    BY <2>3 DEF GetSkip
  <2>4. CASE GetCompare(c)
    BY <2>4 DEF GetCompare
  <2>5. CASE GetClaim(c) \/ GetNull(c)
    BY <2>5 DEF GetClaim, GetNull
  <2>6. CASE NullReturn(c) \/ Release(c)
    BY <2>6 DEF NullReturn, Release, Forget
  <2> QED BY <1>2, <2>1, <2>2, <2>3, <2>4, <2>5, <2>6 DEF Consumer
<1>3. CASE UNCHANGED vars
  BY <1>3 DEF vars, consVars
<1> QED BY <1>1, <1>2, <1>3 DEF Next

(* Every variable of the pool keeps its type: indices stay within the slots *)
(* (or at the end of a scan) and only valid packets are ever stored.        *)
THEOREM TypeCorrect == Spec => []TypeOK
<1>1. TypeOK /\ Compared /\ [Next]_vars => (TypeOK /\ Compared)'
  BY NextTypeOK, NextCompared
<1>2. QED BY InitTypeOK, <1>1, PTL DEF Spec

-----------------------------------------------------------------------------
LEMMA InitOwnership == Init => Ownership
  BY DEF Init, Ownership, Writes, Reads

LEMMA NextOwnership == TypeOK /\ Ownership /\ [Next]_vars => Ownership'
<1> SUFFICES ASSUME TypeOK, Ownership, [Next]_vars PROVE Ownership'
  OBVIOUS
<1> USE DEF Ownership, Writes, Reads
<1>0. /\ ppc  \in [Producers -> Copying \cup {"idle", "scan", "refused",
                                   "dropped", "stored", "count", "counted"}]
      /\ pidx \in [Producers -> 0 .. NSlots]
      /\ state \in [Slots -> {"FREE", "WRITING", "READY", "READING"}]
      /\ cpc  \in [Consumers -> {"idle", "load", "prio", "hold", "null"}]
      /\ cbest \in [Consumers -> Slots \cup {None}]
  BY DEF TypeOK
<1>1. ASSUME NEW p \in Producers, Producer(p) PROVE Ownership'
  <2>1. ASSUME NEW k \in Packets, PushRefused(p, k) PROVE Ownership'
    BY <1>0, <2>1 DEF PushRefused, slotVars, consVars
  <2>2. ASSUME NEW k \in Packets, PushBegin(p, k) PROVE Ownership'
    BY <1>0, <2>2 DEF PushBegin, slotVars, consVars
  <2>3. CASE PushClaim(p)
    BY <1>0, <2>3 DEF PushClaim, consVars, In
  <2>4. CASE PushSkip(p)
    BY <1>0, <2>4 DEF PushSkip, slotVars, consVars
  <2>5. CASE PushOverflow(p)
    BY <1>0, <2>5 DEF PushOverflow, slotVars, consVars
  <2>6. CASE PushCopyData(p)
    BY <1>0, <2>6 DEF PushCopyData, consVars
  <2>7. CASE PushCopyAddr(p)
    BY <1>0, <2>7 DEF PushCopyAddr, consVars
  <2>8. CASE PushPublish(p)
    BY <1>0, <2>8 DEF PushPublish, consVars
  <2>9. CASE PushReturn(p)
    BY <1>0, <2>9 DEF PushReturn, slotVars, consVars
  <2>10. CASE SizeBegin(p)
    BY <1>0, <2>10 DEF SizeBegin, slotVars, consVars
  <2>11. CASE SizeCount(p)
    BY <1>0, <2>11 DEF SizeCount, slotVars, consVars
  <2>12. CASE SizeReturn(p)
    BY <1>0, <2>12 DEF SizeReturn, slotVars, consVars
  <2> QED BY <1>1, <2>1, <2>2, <2>3, <2>4, <2>5, <2>6, <2>7, <2>8, <2>9,
             <2>10, <2>11, <2>12 DEF Producer, PushStep, SizeStep
<1>2. ASSUME NEW c \in Consumers, Consumer(c) PROVE Ownership'
  <2>1. CASE GetBegin(c)
    BY <1>0, <2>1 DEF GetBegin, slotVars, prodVars
  <2>2. CASE GetSeeReady(c)
    BY <1>0, <2>2 DEF GetSeeReady, slotVars, prodVars
  <2>3. CASE GetSkip(c)
    BY <1>0, <2>3 DEF GetSkip, slotVars, prodVars
  <2>4. CASE GetCompare(c)
    BY <1>0, <2>4 DEF GetCompare, slotVars, prodVars
  <2>5. CASE GetClaim(c)
    BY <1>0, <2>5 DEF GetClaim, prodVars, In
  <2>6. CASE GetNull(c)
    BY <1>0, <2>6 DEF GetNull, slotVars, prodVars
  <2>7. CASE NullReturn(c)
    BY <1>0, <2>7 DEF NullReturn, Forget, slotVars, prodVars
  <2>8. CASE Release(c)
    BY <1>0, <2>8 DEF Release, Forget, prodVars
  <2> QED BY <1>2, <2>1, <2>2, <2>3, <2>4, <2>5, <2>6, <2>7, <2>8 DEF Consumer
<1>3. CASE UNCHANGED vars
  BY <1>3 DEF vars, slotVars, prodVars, consVars
<1> QED BY <1>1, <1>2, <1>3 DEF Next

-----------------------------------------------------------------------------
Contents == Copied /\ WholePackets /\ Distinct

LEMMA InitContents == Init => Contents
  BY DEF Init, Contents, Copied, WholePackets, Distinct, Carries, Visible

\* A step of a push, and a step of a get, each against the slots' contents.
LEMMA NextContents ==
  TypeOK /\ Ownership /\ Contents /\ [Next]_vars => Contents'
<1> SUFFICES ASSUME TypeOK, Ownership, Contents, [Next]_vars PROVE Contents'
  OBVIOUS
<1> USE DEF Contents, Copied, WholePackets, Distinct, Carries, Visible
<1>0. /\ ppc  \in [Producers -> Copying \cup {"idle", "scan", "refused",
                                   "dropped", "stored", "count", "counted"}]
      /\ pidx \in [Producers -> 0 .. NSlots]
      /\ ppkt \in [Producers -> Valid \cup {Blank}]
      /\ state \in [Slots -> {"FREE", "WRITING", "READY", "READING"}]
      /\ body \in [Slots -> Valid \cup {Blank}]
      /\ addr \in [Slots -> Valid \cup {Blank}]
      /\ cpc  \in [Consumers -> {"idle", "load", "prio", "hold", "null"}]
      /\ cbest \in [Consumers -> Slots \cup {None}]
  BY DEF TypeOK
<1>w. /\ \A p \in Producers : ppc[p] \in Copying =>
           pidx[p] \in Slots /\ state[pidx[p]] = "WRITING"
      /\ \A p, q \in Producers :
           ppc[p] \in Copying /\ ppc[q] \in Copying /\ pidx[p] = pidx[q]
             => p = q
  BY DEF Ownership
<1>r. \A c \in Consumers : cpc[c] = "hold" =>
        cbest[c] \in Slots /\ state[cbest[c]] = "READING"
  BY DEF Ownership
<1>1. ASSUME NEW p \in Producers, Producer(p) PROVE Contents'
  <2>1. ASSUME NEW k \in Packets, PushRefused(p, k) PROVE Contents'
    BY <1>0, <2>1 DEF PushRefused, slotVars, consVars
  <2>2. ASSUME NEW k \in Packets, PushBegin(p, k) PROVE Contents'
    BY <1>0, <2>2 DEF PushBegin, slotVars, consVars, InUse
  <2>3. CASE PushClaim(p)
    BY <1>0, <2>3 DEF PushClaim, consVars, In
  <2>4. CASE PushSkip(p)
    BY <1>0, <2>4 DEF PushSkip, slotVars, consVars
  <2>5. CASE PushOverflow(p)
    BY <1>0, <2>5 DEF PushOverflow, slotVars, consVars
  <2>6. CASE PushCopyData(p)
    BY <1>0, <1>w, <2>6 DEF PushCopyData, consVars
  <2>7. CASE PushCopyAddr(p)
    BY <1>0, <1>w, <2>7 DEF PushCopyAddr, consVars
  <2>8. CASE PushPublish(p)
    BY <1>0, <1>w, <2>8 DEF PushPublish, consVars
  <2>9. CASE PushReturn(p)
    BY <1>0, <2>9 DEF PushReturn, slotVars, consVars
  <2>10. CASE SizeBegin(p)
    BY <1>0, <2>10 DEF SizeBegin, slotVars, consVars
  <2>11. CASE SizeCount(p)
    BY <1>0, <2>11 DEF SizeCount, slotVars, consVars
  <2>12. CASE SizeReturn(p)
    BY <1>0, <2>12 DEF SizeReturn, slotVars, consVars
  <2> QED BY <1>1, <2>1, <2>2, <2>3, <2>4, <2>5, <2>6, <2>7, <2>8, <2>9,
             <2>10, <2>11, <2>12 DEF Producer, PushStep, SizeStep
<1>2. ASSUME NEW c \in Consumers, Consumer(c) PROVE Contents'
  <2>1. CASE GetBegin(c)
    BY <1>0, <2>1 DEF GetBegin, slotVars, prodVars
  <2>2. CASE GetSeeReady(c)
    BY <1>0, <2>2 DEF GetSeeReady, slotVars, prodVars
  <2>3. CASE GetSkip(c)
    BY <1>0, <2>3 DEF GetSkip, slotVars, prodVars
  <2>4. CASE GetCompare(c)
    BY <1>0, <2>4 DEF GetCompare, slotVars, prodVars
  <2>5. CASE GetClaim(c)
    BY <1>0, <2>5 DEF GetClaim, prodVars, In
  <2>6. CASE GetNull(c)
    BY <1>0, <2>6 DEF GetNull, slotVars, prodVars
  <2>7. CASE NullReturn(c)
    BY <1>0, <2>7 DEF NullReturn, Forget, slotVars, prodVars
  <2>8. CASE Release(c)
    BY <1>0, <1>r, <2>8 DEF Release, Forget, prodVars
  <2> QED BY <1>2, <2>1, <2>2, <2>3, <2>4, <2>5, <2>6, <2>7, <2>8 DEF Consumer
<1>3. CASE UNCHANGED vars
  BY <1>3 DEF vars, slotVars, prodVars, consVars
<1> QED BY <1>1, <1>2, <1>3 DEF Next

-----------------------------------------------------------------------------
\* The inductive invariant.
IInv == TypeOK /\ Compared /\ Ownership /\ Contents

LEMMA Inductive == Spec => []IInv
<1>1. Init => IInv
  BY InitTypeOK, InitOwnership, InitContents DEF IInv
<1>2. IInv /\ [Next]_vars => IInv'
  BY NextTypeOK, NextCompared, NextOwnership, NextContents DEF IInv
<1>3. QED BY <1>1, <1>2, PTL DEF Spec

\* A set all of whose members are equal has none or one.
LEMMA AtMostOne ==
  ASSUME NEW S, \A x, y \in S : x = y
  PROVE  Cardinality(S) = IF S = {} THEN 0 ELSE 1
<1>1. CASE S = {}
  BY <1>1, FS_EmptySet
<1>2. CASE S # {}
  <2>1. PICK x \in S : S = {x}
    BY <1>2
  <2>2. QED BY <2>1, <1>2, FS_Singleton
<1>3. QED BY <1>1, <1>2

LEMMA OwnershipIsOneOwner == Ownership => OneOwner
<1> SUFFICES ASSUME Ownership, NEW s \in Slots
             PROVE  /\ Cardinality({p \in Producers : Writes(p, s)}) =
                         IF state[s] = "WRITING" THEN 1 ELSE 0
                    /\ Cardinality({c \in Consumers : Reads(c, s)}) =
                         IF state[s] = "READING" THEN 1 ELSE 0
  BY DEF OneOwner
<1> DEFINE W == {p \in Producers : Writes(p, s)}
           R == {c \in Consumers : Reads(c, s)}
<1>1. /\ \A p, q \in W : p = q
      /\ W = {} <=> state[s] # "WRITING"
  BY DEF Ownership, Writes
<1>2. /\ \A c, d \in R : c = d
      /\ R = {} <=> state[s] # "READING"
  BY DEF Ownership, Reads
<1> HIDE DEF W, R
<1>3. Cardinality(W) = IF W = {} THEN 0 ELSE 1
  BY <1>1, AtMostOne
<1>4. Cardinality(R) = IF R = {} THEN 0 ELSE 1
  BY <1>2, AtMostOne
<1>5. QED BY <1>1, <1>2, <1>3, <1>4 DEF W, R

(* No two tasks are inside a slot, and no claimed slot is without a task,   *)
(* for any number of producers and consumers.                               *)
THEOREM MutualExclusion == Spec => []OneOwner
  BY Inductive, OwnershipIsOneOwner, PTL DEF IInv

(* A consumer never sees half a packet, or one that failed the size check.  *)
THEOREM NoTornPacket == Spec => []WholePackets
  BY Inductive, PTL DEF IInv, Contents

-----------------------------------------------------------------------------
\* The refinement mapping, as definitions of their own.
Offered == {body[s] : s \in In("READY")}
Taken   == [c \in Consumers |-> IF cpc[c] = "hold" THEN body[cbest[c]] ELSE Blank]

\* A step that leaves states, the contents of claimed slots and the slots held
\* alone is a stutter of the exchange.
LEMMA ExchangeStutter ==
  ASSUME TypeOK, Ownership,
         state' = state,
         \A s \in Slots : Visible(s) => body'[s] = body[s],
         \A c \in Consumers :
           /\ (cpc'[c] = "hold") <=> (cpc[c] = "hold")
           /\ cpc[c] = "hold" => cbest'[c] = cbest[c]
  PROVE  UNCHANGED <<Offered, Taken>>
<1>1. Offered' = Offered
  BY DEF Offered, In, Visible
<1>2. Taken' = Taken
  BY DEF Taken, Ownership, Visible
<1>3. QED BY <1>1, <1>2

LEMMA PublishOffers ==
  ASSUME IInv, NEW p \in Producers, PushPublish(p)
  PROVE  /\ ppkt[p] \in Valid \ Offered
         /\ \A c \in Consumers : Taken[c] # ppkt[p]
         /\ Offered' = Offered \cup {ppkt[p]}
         /\ Taken' = Taken
<1> DEFINE s == pidx[p]
<1>1. /\ s \in Slots /\ state[s] = "WRITING"
      /\ ppkt[p] \in Valid /\ body[s] = ppkt[p]
      /\ \A t \in Slots : Visible(t) => body[t] # ppkt[p]
  BY DEF IInv, Ownership, Contents, Copied, Distinct, Carries, PushPublish
<1>2. /\ state' = [state EXCEPT ![s] = "READY"]
      /\ UNCHANGED <<body, cpc, cbest>>
      /\ state \in [Slots -> {"FREE", "WRITING", "READY", "READING"}]
  BY DEF PushPublish, IInv, TypeOK, consVars
<1> HIDE DEF s
<1>3. ppkt[p] \notin Offered
  BY <1>1 DEF Offered, In, Visible
<1>4. \A c \in Consumers : Taken[c] # ppkt[p]
  BY <1>1, PacketsAssumption DEF Taken, IInv, Ownership, Visible
<1>5. Offered' = Offered \cup {ppkt[p]}
  BY <1>1, <1>2 DEF Offered, In
<1>6. Taken' = Taken
  BY <1>2 DEF Taken
<1>7. QED BY <1>1, <1>3, <1>4, <1>5, <1>6

LEMMA ClaimTakes ==
  ASSUME IInv, NEW c \in Consumers, GetClaim(c)
  PROVE  \E k \in Valid : Exchange!Take(c, k)
<1> DEFINE s == cbest[c]
           k == body[s]
<1>1. /\ s \in Slots /\ state[s] = "READY"
      /\ cpc \in [Consumers -> {"idle", "load", "prio", "hold", "null"}]
      /\ state \in [Slots -> {"FREE", "WRITING", "READY", "READING"}]
  BY DEF GetClaim, In, IInv, TypeOK
<1>2. /\ k \in Valid
      /\ \A t \in Slots : Visible(t) /\ body[t] = k => t = s
  BY <1>1 DEF IInv, Contents, WholePackets, Distinct, Visible
<1>3. /\ state' = [state EXCEPT ![s] = "READING"]
      /\ cpc' = [cpc EXCEPT ![c] = "hold"]
      /\ cpc[c] = "load"
      /\ UNCHANGED <<body, cbest>>
  BY DEF GetClaim
<1> HIDE DEF k
<1>4. Taken[c] = Blank /\ k \in Offered
  BY <1>1, <1>3 DEF Taken, Offered, In, k
<1>5. Offered' = Offered \ {k}
  <2> HIDE DEF s
  <2>1. k = body[s]
    BY DEF k, s
  <2>2. QED BY <1>1, <1>2, <1>3, <2>1 DEF Offered, In, Visible
<1>6. Taken' = [Taken EXCEPT ![c] = k]
  BY <1>1, <1>3 DEF Taken, k
<1>7. QED BY <1>2, <1>4, <1>5, <1>6 DEF Exchange!Take, Offered, Taken

LEMMA ReleaseLetsGo ==
  ASSUME IInv, NEW c \in Consumers, Release(c)
  PROVE  Exchange!LetGo(c)
<1> DEFINE s == cbest[c]
<1>1. /\ s \in Slots /\ state[s] = "READING" /\ cpc[c] = "hold"
      /\ body[s] \in Valid
      /\ \A d \in Consumers \ {c} : cpc[d] = "hold" => cbest[d] # s
      /\ cpc \in [Consumers -> {"idle", "load", "prio", "hold", "null"}]
      /\ cbest \in [Consumers -> Slots \cup {None}]
      /\ state \in [Slots -> {"FREE", "WRITING", "READY", "READING"}]
  BY DEF Release, IInv, TypeOK, Ownership, Contents, WholePackets
<1>2. /\ state' = [state EXCEPT ![s] = "FREE"]
      /\ cpc' = [cpc EXCEPT ![c] = "idle"]
      /\ cbest' = [cbest EXCEPT ![c] = None]
      /\ body' = body
  BY DEF Release, Forget
<1>3. Taken[c] # Blank
  BY <1>1, PacketsAssumption DEF Taken
<1>4. Offered' = Offered
  BY <1>1, <1>2 DEF Offered, In
<1>5. Taken' = [Taken EXCEPT ![c] = Blank]
  BY <1>1, <1>2 DEF Taken
<1>6. QED BY <1>3, <1>4, <1>5 DEF Exchange!LetGo, Offered, Taken

\* PushClaim and PushCopyData change only slots nobody may read.
LEMMA ProducerStep ==
  ASSUME IInv, NEW p \in Producers, Producer(p)
  PROVE  [Exchange!Next]_(Exchange!vars)
<1> USE DEF IInv
<1>1. CASE PushPublish(p)
  <2>1. \E k \in Valid : Exchange!Offer(k)
    BY <1>1, PublishOffers DEF Exchange!Offer, Offered, Taken
  <2>2. QED BY <2>1 DEF Exchange!Next
<1>2. CASE PushClaim(p)
  <2>1. /\ pidx[p] \in Slots /\ state[pidx[p]] = "FREE"
        /\ state' = [state EXCEPT ![pidx[p]] = "WRITING"]
        /\ UNCHANGED <<body, cpc, cbest>>
        /\ state \in [Slots -> {"FREE", "WRITING", "READY", "READING"}]
    BY <1>2 DEF PushClaim, In, consVars, TypeOK
  <2>2. In("READY")' = In("READY")
    BY <2>1 DEF In
  <2>3. QED BY <2>1, <2>2 DEF Exchange!vars
<1>3. CASE PushCopyData(p)
  <2>1. /\ state[pidx[p]] = "WRITING" /\ pidx[p] \in Slots
        /\ body' = [body EXCEPT ![pidx[p]] = ppkt[p]]
        /\ UNCHANGED <<state, cpc, cbest>>
        /\ body \in [Slots -> Valid \cup {Blank}]
    BY <1>3 DEF PushCopyData, consVars, Ownership, TypeOK
  <2>2. \A s \in Slots : Visible(s) => body'[s] = body[s]
    BY <2>1 DEF Visible
  <2>3. UNCHANGED <<Offered, Taken>>
    BY <2>1, <2>2, ExchangeStutter
  <2>4. QED BY <2>3 DEF Exchange!vars, Offered, Taken
<1>4. CASE ~(PushPublish(p) \/ PushClaim(p) \/ PushCopyData(p))
  <2>1. UNCHANGED <<state, body, cpc, cbest>>
    BY <1>4 DEF Producer, PushStep, SizeStep, PushRefused, PushBegin, PushSkip,
         PushOverflow, PushCopyAddr, PushReturn, SizeBegin, SizeCount,
         SizeReturn, slotVars, consVars
  <2>2. UNCHANGED <<Offered, Taken>>
    BY <2>1, ExchangeStutter
  <2>3. QED BY <2>2 DEF Exchange!vars, Offered, Taken
<1>5. QED BY <1>1, <1>2, <1>3, <1>4

LEMMA ConsumerStep ==
  ASSUME IInv, NEW c \in Consumers, Consumer(c)
  PROVE  [Exchange!Next]_(Exchange!vars)
<1> USE DEF IInv
<1>1. CASE GetClaim(c)
  BY <1>1, ClaimTakes DEF Exchange!Next
<1>2. CASE Release(c)
  BY <1>2, ReleaseLetsGo DEF Exchange!Next
<1>3. CASE ~(GetClaim(c) \/ Release(c))
  <2>1. UNCHANGED <<state, body>>
    BY <1>3 DEF Consumer, GetBegin, GetSeeReady, GetSkip, GetCompare, GetNull,
         NullReturn, slotVars
  <2>2. ASSUME NEW d \in Consumers
        PROVE  /\ (cpc'[d] = "hold") <=> (cpc[d] = "hold")
               /\ cpc[d] = "hold" => cbest'[d] = cbest[d]
    <3>0. /\ cpc  \in [Consumers -> {"idle", "load", "prio", "hold", "null"}]
          /\ cbest \in [Consumers -> Slots \cup {None}]
      BY DEF TypeOK
    <3>1. QED BY <3>0, <1>3 DEF Consumer, GetBegin, GetSeeReady, GetSkip,
                    GetCompare, GetNull, NullReturn, Forget
  <2>3. UNCHANGED <<Offered, Taken>>
    BY <2>1, <2>2, ExchangeStutter
  <2>4. QED BY <2>3 DEF Exchange!vars, Offered, Taken
<1>4. QED BY <1>1, <1>2, <1>3

(* The pool implements the exchange: every packet offered is whole, is taken *)
(* by one consumer at most, and none is taken that was not offered.          *)
THEOREM PoolImplementsExchange == Spec => ImplementsExchange
<1>1. Init => Exchange!Init
  BY DEF Init, Exchange!Init, In
<1>2. IInv /\ [Next]_vars => [Exchange!Next]_(Exchange!vars)
  <2>1. IInv /\ Next => [Exchange!Next]_(Exchange!vars)
    BY ProducerStep, ConsumerStep DEF Next
  <2>2. UNCHANGED vars => UNCHANGED Exchange!vars
    BY DEF vars, slotVars, prodVars, consVars, Exchange!vars, In
  <2>3. QED BY <2>1, <2>2
<1>3. QED BY <1>1, <1>2, Inductive, PTL
          DEF Spec, ImplementsExchange, Exchange!Spec

-----------------------------------------------------------------------------

(***************************************************************************)
(* What PacketPool promises a task that is alone on its side of the pool:  *)
(* the one consumer (Eth_Runtime of RxPool, the communication task of      *)
(* TxPool) and the one producer (the communication task, of RxPool).       *)
(***************************************************************************)

(* A get of the only consumer: what was READY when it began still is, and    *)
(* the best slot so far is no worse than any of those already passed.        *)
Scanning(c) == cpc[c] \in {"load", "prio"}
Passed(c) ==
  \A s \in readyAtGet[c] :
    /\ state[s] = "READY"
    /\ s < cidx[c] => cbest[c] # None /\ cprio[c] <= HeadByte(s)
BestSoFar(c) ==
  cbest[c] # None => state[cbest[c]] = "READY" /\ cprio[c] = HeadByte(cbest[c])
Claimed(c) ==
  \A s \in readyAtGet[c] : Visible(s) /\ HeadByte(cbest[c]) <= HeadByte(s)

GetInv(c) ==
  /\ cpc[c] \in {"idle", "null"} => readyAtGet[c] = {}
  /\ cpc[c] = "idle" => cidx[c] = 0 /\ cbest[c] = None
  /\ Scanning(c) => Passed(c) /\ BestSoFar(c)
  /\ cpc[c] = "prio" => state[cidx[c]] = "READY"
  /\ cpc[c] = "hold" => Claimed(c)

SoleConsumer == \A c \in Consumers : Consumers = {c} => GetInv(c)

(* A push of the only producer: what was FREE when it began still is, and    *)
(* none of that has been passed.  A count that is still zero has passed no   *)
(* READY slot, and it does not wrap round at 256.                            *)
PushInv(p) ==
  /\ ppc[p] = "idle" => pidx[p] = 0 /\ pcnt[p] = 0
  /\ ppc[p] = "scan" => \A s \in freeAtPush[p] : state[s] = "FREE" /\ s >= pidx[p]
  /\ ppc[p] = "dropped" => freeAtPush[p] = {}

CountInv(p) ==
  /\ ppc[p] = "idle" => pidx[p] = 0 /\ pcnt[p] = 0
  /\ ppc[p] = "count" =>
       /\ pcnt[p] <= pidx[p]
       /\ pcnt[p] = 0 => \A s \in Slots : s < pidx[p] => state[s] # "READY"
  /\ ppc[p] = "counted" /\ pcnt[p] = 0 => In("READY") = {}

SoleProducer == \A p \in Producers : Producers = {p} => PushInv(p)
SoleCounter  == \A p \in Producers : Producers = {p} => CountInv(p)
-----------------------------------------------------------------------------
USE DEF Slots, Valid, Copying, None

\* A producer leaves alone what is offered or lent, and all locals of a get.
LEMMA ProducerKeeps ==
  ASSUME IInv, NEW p \in Producers, Producer(p)
  PROVE  /\ UNCHANGED consVars
         /\ \A s \in Slots : Visible(s) =>
              state'[s] = state[s] /\ body'[s] = body[s]
<1> USE DEF IInv, TypeOK, Ownership, Visible, slotVars
<1>1. CASE PushClaim(p)
  BY <1>1 DEF PushClaim, In
<1>2. CASE PushCopyData(p)
  BY <1>2 DEF PushCopyData
<1>3. CASE PushPublish(p)
  BY <1>3 DEF PushPublish
<1>4. CASE ~(PushClaim(p) \/ PushCopyData(p) \/ PushPublish(p))
  BY <1>4 DEF Producer, PushStep, SizeStep, PushRefused, PushBegin, PushSkip,
     PushOverflow, PushCopyAddr, PushReturn, SizeBegin, SizeCount, SizeReturn
<1> QED BY <1>1, <1>2, <1>3, <1>4

\* A consumer leaves alone what is free, makes nothing READY, and leaves alone
\* all locals of a push or a count.
LEMMA ConsumerKeeps ==
  ASSUME IInv, NEW c \in Consumers, Consumer(c)
  PROVE  /\ UNCHANGED <<prodVars, body>>
         /\ \A s \in Slots :
              /\ state[s] = "FREE" => state'[s] = "FREE"
              /\ state'[s] = "READY" => state[s] = "READY"
<1> USE DEF IInv, TypeOK, Ownership, slotVars
<1>1. CASE GetClaim(c)
  BY <1>1 DEF GetClaim, In
<1>2. CASE Release(c)
  BY <1>2 DEF Release
<1>3. CASE ~(GetClaim(c) \/ Release(c))
  BY <1>3 DEF Consumer, GetBegin, GetSeeReady, GetSkip, GetCompare, GetNull, NullReturn
<1> QED BY <1>1, <1>2, <1>3

LEMMA GetInvProducer ==
  ASSUME IInv, NEW c \in Consumers, GetInv(c), NEW p \in Producers, Producer(p)
  PROVE  GetInv(c)'
<1>1. /\ UNCHANGED consVars
      /\ \A s \in Slots : Visible(s) => state'[s] = state[s] /\ body'[s] = body[s]
  BY ProducerKeeps
<1>2. \A s \in Slots : Visible(s) => Visible(s)' /\ HeadByte(s)' = HeadByte(s)
  BY <1>1 DEF Visible, HeadByte
<1>3. /\ readyAtGet[c] \subseteq Slots
      /\ cbest[c] # None => cbest[c] \in Slots
      /\ cpc[c] = "prio" => cidx[c] \in Slots
      /\ cpc[c] = "hold" => cbest[c] \in Slots /\ Visible(cbest[c])
  BY DEF IInv, TypeOK, Compared, Ownership, Visible
<1>4. Scanning(c) => Passed(c)' /\ BestSoFar(c)'
  BY <1>1, <1>2, <1>3 DEF GetInv, Passed, BestSoFar, Visible, consVars
<1>5. cpc[c] = "hold" => Claimed(c)'
  BY <1>1, <1>2, <1>3 DEF GetInv, Claimed, consVars
<1>6. cpc[c] = "prio" => state'[cidx[c]] = "READY"
  BY <1>1, <1>3 DEF GetInv, Visible
<1> QED BY <1>1, <1>4, <1>5, <1>6 DEF GetInv, Scanning, consVars

LEMMA GetInvConsumer ==
  ASSUME IInv, NEW c \in Consumers, GetInv(c), Consumer(c)
  PROVE  GetInv(c)'
<1>0. /\ state \in [Slots -> {"FREE", "WRITING", "READY", "READING"}]
      /\ cpc  \in [Consumers -> {"idle", "load", "prio", "hold", "null"}]
      /\ cidx \in [Consumers -> 0 .. NSlots]
      /\ cbest \in [Consumers -> Slots \cup {None}]
      /\ cprio \in [Consumers -> 0 .. 255]
      /\ readyAtGet \in [Consumers -> SUBSET Slots]
      /\ \A s \in Slots : HeadByte(s) \in 0 .. 255
  <2>1. \A s \in Slots : HeadByte(s) \in 0 .. 255
    BY HeadByteType, NSlotsAssumption DEF IInv
  <2> QED BY <2>1 DEF IInv, TypeOK
<1> USE DEF GetInv, Scanning
<1>1. CASE GetBegin(c)
  BY <1>0, <1>1 DEF GetBegin, slotVars, In, Passed, BestSoFar
<1>2. CASE GetSeeReady(c)
  BY <1>0, <1>2 DEF GetSeeReady, slotVars, In, Passed, BestSoFar, HeadByte
<1>3. CASE GetSkip(c)
  <2>1. /\ cpc' = cpc /\ cpc[c] = "load" /\ cidx'[c] = cidx[c] + 1
        /\ UNCHANGED <<state, body, cbest, cprio, readyAtGet>>
        /\ state[cidx[c]] # "READY"
    BY <1>0, <1>3 DEF GetSkip, slotVars, In
  <2>2. \A s \in Slots : HeadByte(s)' = HeadByte(s)
    BY <2>1 DEF HeadByte
  <2>3. Passed(c)'
    BY <1>0, <2>1, <2>2 DEF Passed
  <2>4. BestSoFar(c)'
    BY <1>0, <2>1, <2>2 DEF BestSoFar
  <2> QED BY <2>1, <2>3, <2>4
<1>4. CASE GetCompare(c)
  <2> DEFINE h == HeadByte(cidx[c])
  <2>1. /\ cpc[c] = "prio" /\ cpc'[c] = "load" /\ cidx'[c] = cidx[c] + 1
        /\ cidx[c] \in Slots /\ state[cidx[c]] = "READY" /\ h \in 0 .. 255
        /\ UNCHANGED <<state, body, readyAtGet>>
    BY <1>0, <1>4 DEF GetCompare, slotVars, IInv, Compared
  <2>2. \A s \in Slots : HeadByte(s)' = HeadByte(s)
    BY <2>1 DEF HeadByte
  <2>3. /\ cbest'[c] = IF cbest[c] = None \/ h < cprio[c] THEN cidx[c] ELSE cbest[c]
        /\ cprio'[c] = IF cbest[c] = None \/ h < cprio[c] THEN h ELSE cprio[c]
    BY <1>0, <1>4 DEF GetCompare, Better
  <2>4. Passed(c) /\ BestSoFar(c)
    BY <2>1
  <2>5. BestSoFar(c)'
    BY <1>0, <2>1, <2>2, <2>3, <2>4 DEF BestSoFar
  <2>6. Passed(c)'
    <3> SUFFICES ASSUME NEW s \in readyAtGet[c]
                 PROVE  /\ state'[s] = "READY"
                        /\ s < cidx[c] + 1 => cbest'[c] # None /\ cprio'[c] <= HeadByte(s)
      BY <1>0, <2>1, <2>2 DEF Passed
    <3>1. s \in Slots /\ state[s] = "READY"
      BY <1>0, <2>4 DEF Passed
    <3>t. HeadByte(s) \in 0 .. 255 /\ cprio[c] \in 0 .. 255
      BY <1>0, <3>1
    <3>2. CASE s < cidx[c]
      <4>1. cbest[c] # None /\ cprio[c] <= HeadByte(s)
        BY <2>4, <3>2 DEF Passed
      <4> HIDE DEF h
      <4>2. CASE h < cprio[c]
        <5>1. cbest'[c] = cidx[c] /\ cprio'[c] = h
          BY <2>3, <4>2
        <5>2. cbest'[c] # None
          BY <2>1, <5>1
        <5>3. cprio'[c] <= HeadByte(s)
          <6> DEFINE g == HeadByte(s)
          <6>1. h \in Int /\ g \in Int /\ cprio[c] \in Int /\ cprio[c] <= g
            BY <2>1, <3>t, <4>1
          <6> HIDE DEF g
          <6>2. cprio'[c] <= g
            BY <4>2, <5>1, <6>1
          <6> QED BY <6>2 DEF g
        <5> QED BY <2>1, <3>1, <5>2, <5>3
      <4>3. CASE ~(h < cprio[c])
        <5>1. cbest'[c] = cbest[c] /\ cprio'[c] = cprio[c]
          BY <2>3, <4>1, <4>3
        <5> QED BY <2>1, <3>1, <4>1, <5>1
      <4> QED BY <4>2, <4>3
    <3>3. CASE s = cidx[c]
      <4>1. h = HeadByte(s)
        BY <3>3
      <4>2. h <= HeadByte(s)
        BY <3>t, <4>1
      <4>3. cbest'[c] # None /\ cprio'[c] <= h
        <5> HIDE DEF h
        <5>1. CASE cbest[c] = None \/ h < cprio[c]
          BY <2>1, <2>3, <5>1
        <5>2. CASE ~(cbest[c] = None \/ h < cprio[c])
          BY <2>1, <2>3, <3>t, <5>2
        <5> QED BY <5>1, <5>2
      <4> QED BY <2>1, <3>1, <4>1, <4>3
    <3> QED BY <1>0, <2>1, <3>1, <3>2, <3>3
  <2> QED BY <2>1, <2>5, <2>6
<1>5. CASE GetClaim(c)
  <2>1. /\ cpc[c] = "load" /\ cidx[c] = NSlots /\ cpc'[c] = "hold"
        /\ cbest[c] \in Slots /\ cbest[c] # None
        /\ state' = [state EXCEPT ![cbest[c]] = "READING"]
        /\ UNCHANGED <<body, cidx, cbest, cprio, readyAtGet>>
    BY <1>0, <1>5 DEF GetClaim, In
  <2>2. \A s \in Slots : HeadByte(s)' = HeadByte(s)
    BY <2>1 DEF HeadByte
  <2>3. Claimed(c)'
    BY <1>0, <2>1, <2>2 DEF Passed, BestSoFar, Claimed, Visible
  <2> QED BY <2>1, <2>3
<1>6. CASE GetNull(c)
  BY <1>0, <1>6 DEF GetNull, In, Passed, BestSoFar
<1>7. CASE NullReturn(c) \/ Release(c)
  BY <1>0, <1>7 DEF NullReturn, Release, Forget
<1> QED BY <1>1, <1>2, <1>3, <1>4, <1>5, <1>6, <1>7 DEF Consumer

LEMMA NextSoleConsumer == IInv /\ SoleConsumer /\ [Next]_vars => SoleConsumer'
<1> SUFFICES ASSUME IInv, SoleConsumer, [Next]_vars,
                    NEW c \in Consumers, Consumers = {c}
             PROVE  GetInv(c)'
  BY DEF SoleConsumer
<1>0. GetInv(c)
  BY DEF SoleConsumer
<1>1. CASE \E p \in Producers : Producer(p)
  BY <1>0, <1>1, GetInvProducer
<1>2. CASE \E d \in Consumers : Consumer(d)
  BY <1>0, <1>2, GetInvConsumer
<1>3. CASE UNCHANGED vars
  BY <1>0, <1>3 DEF vars, slotVars, consVars, GetInv, Scanning, Passed, BestSoFar,
     Claimed, Visible, HeadByte
<1> QED BY <1>1, <1>2, <1>3 DEF Next

LEMMA SoleConsumerInvariant == Spec => []SoleConsumer
<1>1. Init => SoleConsumer
  BY DEF Init, SoleConsumer, GetInv, Scanning
<1> QED BY <1>1, Inductive, NextSoleConsumer, PTL DEF Spec

(* The only consumer is never handed a packet while one with a smaller first *)
(* byte, READY since before its get began, is passed over, however producers *)
(* fill slots behind and before its scan.                                    *)
THEOREM BestIsClaimed == Spec => []ClaimsBestSeen
<1>1. SoleConsumer => ClaimsBestSeen
  BY DEF SoleConsumer, GetInv, Claimed, ClaimsBestSeen
<1> QED BY <1>1, SoleConsumerInvariant, PTL

(* The only consumer is told NULL only if nothing was READY when its get     *)
(* began: its drain loop leaves nothing behind.                              *)
THEOREM NullIsTrue == Spec => []NullMeansNothing
<1>1. SoleConsumer => NullMeansNothing
  BY DEF SoleConsumer, GetInv, NullMeansNothing
<1> QED BY <1>1, SoleConsumerInvariant, PTL

-----------------------------------------------------------------------------
LEMMA PushInvConsumer ==
  ASSUME IInv, NEW p \in Producers, PushInv(p), NEW c \in Consumers, Consumer(c)
  PROVE  PushInv(p)'
<1>1. /\ UNCHANGED prodVars
      /\ \A s \in Slots : state[s] = "FREE" => state'[s] = "FREE"
  BY ConsumerKeeps
<1>2. freeAtPush[p] \subseteq Slots
  BY DEF IInv, TypeOK
<1> QED BY <1>1, <1>2 DEF PushInv, prodVars

LEMMA PushInvProducer ==
  ASSUME IInv, NEW p \in Producers, PushInv(p), Producer(p)
  PROVE  PushInv(p)'
<1>0. /\ state \in [Slots -> {"FREE", "WRITING", "READY", "READING"}]
      /\ ppc \in [Producers -> Copying \cup {"idle", "scan", "refused", "dropped",
                                             "stored", "count", "counted"}]
      /\ pidx \in [Producers -> 0 .. NSlots]
      /\ pcnt \in [Producers -> 0 .. 255]
      /\ freeAtPush \in [Producers -> SUBSET Slots]
  BY DEF IInv, TypeOK
<1> USE DEF PushInv
<1>1. ASSUME NEW k \in Packets, PushBegin(p, k) PROVE PushInv(p)'
  BY <1>0, <1>1 DEF PushBegin, slotVars, In
<1>2. CASE PushClaim(p)
  BY <1>0, <1>2 DEF PushClaim
<1>3. CASE PushSkip(p)
  <2>1. /\ ppc' = ppc /\ state' = state /\ freeAtPush' = freeAtPush
        /\ ppc[p] = "scan" /\ pidx[p] \in Slots /\ state[pidx[p]] # "FREE"
        /\ pidx'[p] = pidx[p] + 1
    BY <1>0, <1>3 DEF PushSkip, slotVars, In
  <2> QED BY <1>0, <2>1
<1>4. CASE PushOverflow(p)
  BY <1>0, <1>4 DEF PushOverflow, slotVars
<1>5. CASE PushReturn(p)
  BY <1>0, <1>5 DEF PushReturn
<1>6. CASE \/ \E k \in Packets : PushRefused(p, k)
           \/ PushCopyData(p) \/ PushCopyAddr(p) \/ PushPublish(p)
           \/ SizeBegin(p) \/ SizeStep(p)
  BY <1>0, <1>6 DEF PushRefused, PushCopyData, PushCopyAddr, PushPublish, SizeBegin,
     SizeStep, SizeCount, SizeReturn
<1> QED BY <1>1, <1>2, <1>3, <1>4, <1>5, <1>6 DEF Producer, PushStep

LEMMA NextSoleProducer == IInv /\ SoleProducer /\ [Next]_vars => SoleProducer'
<1> SUFFICES ASSUME IInv, SoleProducer, [Next]_vars,
                    NEW p \in Producers, Producers = {p}
             PROVE  PushInv(p)'
  BY DEF SoleProducer
<1>0. PushInv(p)
  BY DEF SoleProducer
<1>1. CASE \E q \in Producers : Producer(q)
  BY <1>0, <1>1, PushInvProducer
<1>2. CASE \E c \in Consumers : Consumer(c)
  BY <1>0, <1>2, PushInvConsumer
<1>3. CASE UNCHANGED vars
  BY <1>0, <1>3 DEF vars, slotVars, prodVars, PushInv
<1> QED BY <1>1, <1>2, <1>3 DEF Next

(* The only producer drops a packet only if the pool was full when its push  *)
(* began.                                                                    *)
THEOREM DropIsTrue == Spec => []DropMeansFull
<1>1. Init => SoleProducer
  BY DEF Init, SoleProducer, PushInv
<1>2. SoleProducer => DropMeansFull
  BY DEF SoleProducer, PushInv, DropMeansFull
<1> QED BY <1>1, <1>2, Inductive, NextSoleProducer, PTL DEF Spec

-----------------------------------------------------------------------------
(* The count is a uint8_t: it is right for pools of fewer than 256 slots.    *)
LEMMA CountInvConsumer ==
  ASSUME IInv, NEW p \in Producers, CountInv(p), NEW c \in Consumers, Consumer(c)
  PROVE  CountInv(p)'
<1>1. /\ UNCHANGED prodVars
      /\ \A s \in Slots : state'[s] = "READY" => state[s] = "READY"
  BY ConsumerKeeps
<1> QED BY <1>1 DEF CountInv, prodVars, In

LEMMA CountInvProducer ==
  ASSUME NSlots < 256, IInv, NEW p \in Producers, CountInv(p), Producer(p)
  PROVE  CountInv(p)'
<1>0. /\ state \in [Slots -> {"FREE", "WRITING", "READY", "READING"}]
      /\ ppc \in [Producers -> Copying \cup {"idle", "scan", "refused", "dropped",
                                             "stored", "count", "counted"}]
      /\ pidx \in [Producers -> 0 .. NSlots]
      /\ pcnt \in [Producers -> 0 .. 255]
      /\ NSlots \in Nat
  BY NSlotsAssumption DEF IInv, TypeOK
<1> USE DEF CountInv
<1>1. CASE SizeBegin(p)
  BY <1>0, <1>1 DEF SizeBegin, slotVars
<1>2. CASE SizeCount(p)
  <2>1. /\ ppc' = ppc /\ ppc[p] = "count" /\ state' = state
        /\ pidx[p] \in Slots /\ pidx'[p] = pidx[p] + 1
        /\ pcnt'[p] = IF state[pidx[p]] = "READY" THEN (pcnt[p] + 1) % 256 ELSE pcnt[p]
        /\ pcnt[p] \in 0 .. 255 /\ pcnt[p] <= pidx[p]
    BY <1>0, <1>2 DEF SizeCount, slotVars
  <2>2. (pcnt[p] + 1) % 256 = pcnt[p] + 1
    <3>1. \A n \in 0 .. 255 : n % 256 = n
      OBVIOUS
    <3>2. pidx[p] \in 0 .. NSlots - 1 /\ NSlots \in Nat /\ NSlots < 256
      BY <1>0, <2>1
    <3>3. pcnt[p] + 1 \in 0 .. 255
      BY <2>1, <3>2
    <3> QED BY <3>1, <3>3
  <2>3. pcnt'[p] <= pidx'[p]
    <3>1. pidx[p] \in 0 .. NSlots
      BY <1>0
    <3>2. pcnt'[p] = pcnt[p] \/ pcnt'[p] = pcnt[p] + 1
      BY <2>1, <2>2
    <3> QED BY <2>1, <3>1, <3>2
  <2>4. ASSUME pcnt'[p] = 0, NEW s \in Slots, s < pidx'[p] PROVE state'[s] # "READY"
    <3>1. pcnt[p] = 0 /\ state[pidx[p]] # "READY"
      BY <2>1, <2>2, <2>4
    <3> QED BY <1>0, <2>1, <2>4, <3>1
  <2> QED BY <2>1, <2>3, <2>4
<1>3. CASE SizeReturn(p)
  BY <1>0, <1>3 DEF SizeReturn, slotVars, In
<1>4. CASE PushReturn(p)
  BY <1>0, <1>4 DEF PushReturn
<1>5. CASE \/ \E k \in Packets : PushRefused(p, k) \/ PushBegin(p, k)
           \/ PushClaim(p) \/ PushSkip(p) \/ PushOverflow(p)
           \/ PushCopyData(p) \/ PushCopyAddr(p) \/ PushPublish(p)
  BY <1>0, <1>5 DEF PushRefused, PushBegin, PushClaim, PushSkip, PushOverflow,
     PushCopyData, PushCopyAddr, PushPublish
<1> QED BY <1>1, <1>2, <1>3, <1>4, <1>5 DEF Producer, PushStep, SizeStep

LEMMA NextSoleCounter ==
  ASSUME NSlots < 256
  PROVE  IInv /\ SoleCounter /\ [Next]_vars => SoleCounter'
<1> SUFFICES ASSUME IInv, SoleCounter, [Next]_vars,
                    NEW p \in Producers, Producers = {p}
             PROVE  CountInv(p)'
  BY DEF SoleCounter
<1>0. CountInv(p)
  BY DEF SoleCounter
<1>1. CASE \E q \in Producers : Producer(q)
  BY <1>0, <1>1, CountInvProducer
<1>2. CASE \E c \in Consumers : Consumer(c)
  BY <1>0, <1>2, CountInvConsumer
<1>3. CASE UNCHANGED vars
  BY <1>0, <1>3 DEF vars, slotVars, prodVars, CountInv, In
<1> QED BY <1>1, <1>2, <1>3 DEF Next

(* In a pool of fewer than 256 slots, the only producer that counts zero     *)
(* READY packets is right when it acts on it.  (With 256 slots the uint8_t   *)
(* count of a full pool is zero.)                                            *)
THEOREM ZeroIsTrue ==
  ASSUME NSlots < 256
  PROVE  Spec => []ZeroMeansEmpty
<1>1. Init => SoleCounter
  BY DEF Init, SoleCounter, CountInv
<1>2. SoleCounter => ZeroMeansEmpty
  BY DEF SoleCounter, CountInv, ZeroMeansEmpty
<1>3. IInv /\ SoleCounter /\ [Next]_vars => SoleCounter'
  BY NextSoleCounter
<1> QED BY <1>1, <1>2, <1>3, Inductive, PTL DEF Spec
=============================================================================
