------------------------------ MODULE Ranging -------------------------------
(* The ultrasonic sensors: UltraSonic.c, whose object HCSR04Runtime creates, *)
(* fills for ever and may delete, and HCSR04_GetLatestDistanceMm             *)
(* (UltraSonic/Module.c), by which other tasks read the latest distances.    *)
EXTENDS Integers, Sequences, FiniteSets

CONSTANTS
  Sensors,    \* 0..SensorCount - 1
  Readers,    \* tasks that ask for a distance
  Pulses,     \* durations of an echo, in microseconds
  PinsWork    \* may gpio_config fail: {TRUE}, or {TRUE, FALSE}

EchoTimeout == 24000
NoEcho == EchoTimeout + 1        \* no echo started, or one that did not end
Invalid == 65535                 \* 0xFFFF

VARIABLES
  object,     \* g_ultra's object: "none", "new", "ready" or "deleted"
  distance,   \* DistanceMm
  holder,     \* Lock: the task that holds it, or "none"
  phase,      \* what HCSR04Runtime does next
  sensor,     \* the sensor it reads
  behind,     \* the samples behind each distance
  reader,     \* what each reader does: the step, the sensor, dist
  dangling    \* a reader uses an object that was deleted

vars == <<object, distance, holder, phase, sensor, behind, reader, dangling>>
Runtime == "HCSR04Runtime"
Idle == [step |-> "idle", index |-> 0, dist |-> 0, fair |-> TRUE]

Init ==
  /\ object = "none" /\ holder = "none"
  /\ distance = [i \in Sensors |-> 0]
  /\ phase = "create" /\ sensor = 0
  /\ reader = [r \in Readers |-> Idle]
  /\ behind = [i \in Sensors |-> <<>>]
  /\ dangling = FALSE

(* HCSR04_ReadOneRaw: a pulse in the critical section, or a timeout.         *)
Millimetres(pulse) == (pulse * 1000) \div 5820
Sample(pulse) == IF pulse <= EchoTimeout THEN <<Millimetres(pulse)>> ELSE <<>>

(* HCSR04_ReadFiltered: of no sample, of one, the mean of two, the median.   *)
Saturated(d) == IF d > 65535 THEN 65535 ELSE d

Between(v, a, b) == (v >= a /\ v <= b) \/ (v >= b /\ v <= a)

Filtered_first(s) == IF Len(s) = 0 THEN Invalid ELSE Saturated(s[1])

Median(s) ==
  IF Between(s[1], s[2], s[3]) THEN s[1] ELSE IF Between(s[2], s[1], s[3]) THEN s[2] ELSE s[3]

Filtered(s) ==
  IF Len(s) = 0 THEN Invalid
  ELSE Saturated(IF Len(s) = 1 THEN s[1]
                 ELSE IF Len(s) = 2 THEN (s[1] + s[2]) \div 2 ELSE Median(s))

(* UltraSonic_CreateDefault: memory cleared to 0, and the lock.  g_ultra is  *)
(* set before UltraSonic_Init.                                               *)
CreateDefault ==
  /\ phase = "create"
  /\ \/ object' = "new" /\ phase' = "init"
     \/ object' = "none" /\ phase' = "ended"
  /\ UNCHANGED <<distance, holder, sensor, behind, reader, dangling>>

(* UltraSonic_Init: 0xFFFF under the lock, or a timeout after 20 ms, and     *)
(* then the pins.                                                            *)
InitDistances ==
  /\ phase = "init" /\ holder = "none"
  /\ distance' = [i \in Sensors |-> Invalid]
  /\ phase' = "pins"
  /\ UNCHANGED <<object, holder, sensor, behind, reader, dangling>>

InitTimeout ==
  /\ phase = "init" /\ holder # "none"
  /\ phase' = "delete"
  /\ UNCHANGED <<object, distance, holder, sensor, behind, reader, dangling>>

HCSR04_InitPins ==
  /\ phase = "pins"
  /\ \E works \in PinsWork :
       IF works THEN object' = "ready" /\ phase' = "sample" ELSE UNCHANGED object /\ phase' = "delete"
  /\ UNCHANGED <<distance, holder, sensor, behind, reader, dangling>>

(* UltraSonic_Delete, whoever may have the object in hand.  Lock and members *)
(* are freed one after the other, and only then is g_ultra cleared: a reader *)
(* that enters meanwhile has the object in hand, too, and is left out with   *)
(* the others.                                                               *)
Delete ==
  /\ phase = "delete"
  /\ object' = "deleted" /\ phase' = "ended"
  /\ dangling' = (\E r \in Readers : reader[r].step \in {"take", "read"})
  /\ UNCHANGED <<distance, holder, sensor, behind, reader>>

(* UltraSonic_ReadAll, one sensor after the other, without the lock while it *)
(* measures.  A lock that is not had in 20 ms leaves the old distance.       *)
Readings == [1..3 -> Pulses \cup {NoEcho}]

Valid(readings) == Sample(readings[1]) \o Sample(readings[2]) \o Sample(readings[3])

NextSensor == sensor' = (sensor + 1) % Cardinality(Sensors)

WriteDistance ==
  /\ phase = "sample" /\ holder = "none"
  /\ \E readings \in Readings :
       /\ distance' = [distance EXCEPT ![sensor] = Filtered(Valid(readings))]
       /\ behind' = [behind EXCEPT ![sensor] = Valid(readings)]
  /\ NextSensor
  /\ UNCHANGED <<object, holder, phase, reader, dangling>>

WriteTimeout ==
  /\ phase = "sample" /\ holder # "none"
  /\ NextSensor
  /\ UNCHANGED <<object, distance, holder, phase, behind, reader, dangling>>

(* HCSR04_GetLatestDistanceMm, UltraSonic_GetDistance: 0 without an object,  *)
(* and when the lock is not had in 50 ms.                                    *)
Step(r, step) == reader' = [reader EXCEPT ![r].step = step]

GetLatestDistanceMm(r) ==
  /\ reader[r].step = "idle"
  /\ \E i \in Sensors :
       reader' = [reader EXCEPT ![r] = [step |-> IF object \in {"new", "ready"} THEN "take" ELSE "answered",
                                        index |-> i, dist |-> 0, fair |-> TRUE]]
  /\ UNCHANGED <<object, distance, holder, phase, sensor, behind, dangling>>

TakeLock(r) ==
  /\ reader[r].step = "take" /\ holder = "none"
  /\ holder' = r
  /\ Step(r, "read")
  /\ UNCHANGED <<object, distance, phase, sensor, behind, dangling>>

TakeTimeout(r) ==
  /\ reader[r].step = "take" /\ holder # "none"
  /\ Step(r, "answered")
  /\ UNCHANGED <<object, distance, holder, phase, sensor, behind, dangling>>

(* A value is a fair filter of samples: 0xFFFF for none, otherwise no less   *)
(* than half of them and no more than half of them, so that of three samples *)
(* one false echo never shows.                                               *)
Fair(v, s) ==
  IF s = <<>> THEN v = Invalid
  ELSE /\ 2 * Cardinality({i \in DOMAIN s : s[i] <= v}) >= Len(s)
       /\ 2 * Cardinality({i \in DOMAIN s : s[i] >= v}) >= Len(s)

ReadDistance(r) ==
  /\ reader[r].step = "read"
  /\ LET i == reader[r].index IN
     reader' = [reader EXCEPT ![r] = [step |-> "answered", index |-> i, dist |-> distance[i],
                                      fair |-> \/ Fair(distance[i], behind[i])
                                               \/ object = "new" /\ distance[i] = 0]]
  /\ holder' = "none"
  /\ UNCHANGED <<object, distance, phase, sensor, behind, dangling>>

Use(r) ==
  /\ reader[r].step = "answered"
  /\ reader' = [reader EXCEPT ![r] = Idle]
  /\ UNCHANGED <<object, distance, holder, phase, sensor, behind, dangling>>

Next ==
  /\ ~dangling
  /\ \/ CreateDefault \/ InitDistances \/ InitTimeout \/ HCSR04_InitPins \/ Delete
     \/ WriteDistance \/ WriteTimeout
     \/ \E r \in Readers : \/ GetLatestDistanceMm(r) \/ TakeLock(r) \/ TakeTimeout(r)
                           \/ ReadDistance(r) \/ Use(r)

Spec == Init /\ [][Next]_vars

-----------------------------------------------------------------------------
(* What a reader gets from a sensor that works is the filter of samples of   *)
(* that same sensor, taken whole; 0 or 0xFFFF say that there is none, yet 0  *)
(* (no object yet, memory just cleared, lock busy: Module.c:8) is also what  *)
(* the smallest echo gives.  No lock held over the filter is needed for it.  *)
AnswersAreMeasured ==
  \A r \in Readers : reader[r].fair
=============================================================================
