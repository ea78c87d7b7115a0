----------------------------- MODULE MotorProofs -----------------------------
(***************************************************************************)
(* Proofs about Motor for any number of setters and reporters, any speeds, *)
(* whatever malloc leaves, any duty resolution and any number of retries.  *)
(***************************************************************************)
EXTENDS Motor, TLAPS

InCallSteps == {"trigger", "verify"}

(* Where each task may be.  The object exists from HBridge_Create on, only   *)
(* then are there calls, and only MotorRuntime keeps the lock over a step.   *)
Places ==
  /\ pc[Runtime] \notin {"idle"}
  /\ \A t \in Setters : pc[t] \in InCallSteps \cup {"idle"}
  /\ \A t \in Reporters : pc[t] = "idle"
  /\ created = "yes" <=> pc[Runtime] \notin {"create", "deleted"}
  /\ \A t \in Setters : pc[t] # "idle" => created = "yes"
  /\ lock = Runtime <=> pc[Runtime] = "clear"

(* Between RuntimeApply and RuntimeClear nobody can raise the flag.          *)
NothingPending == pc[Runtime] = "clear" => "ModifiedSpeed" \notin flags

(* MotorRuntime's own two calls replace what malloc left: the speed of motor *)
(* 0 is one that somebody asked for when the first call returns, though      *)
(* setters may have changed it since, and that of motor 1 after the second.  *)
Asked(m) == speed[m] \in Speeds
BootOrder ==
  /\ pc[Runtime] \notin InCallSteps => tries[Runtime] = 0
  /\ pc[Runtime] \in InCallSteps =>
       \E m \in Channels :
         /\ want[Runtime] = [Nothing EXCEPT ![m] = 0]
         /\ m = 1 => Asked(0)
         /\ pc[Runtime] = "verify" \/ tries[Runtime] > 0 => Asked(m)
  /\ pc[Runtime] \in {"stop1", "boot", "loop", "clear"} => Asked(0)
  /\ pc[Runtime] \in {"boot", "loop", "clear"} => Asked(1)

MotorInv == TypeOK /\ Places /\ NothingPending /\ AppliedWhenClear /\ BootOrder /\ NoWildSpeed
-----------------------------------------------------------------------------
USE MotorAssumption DEF Channels, Tasks, InCallSteps

LEMMA DutyType ==
  ASSUME NEW s \in Int PROVE Duty(s) \in [fwd : 0..MaxDuty, rev : 0..MaxDuty]
  BY DEF Duty, Clamped

LEMMA InitMotorInv == Init => MotorInv
<1> SUFFICES ASSUME Init PROVE MotorInv
  OBVIOUS
<1>1. TypeOK
  <2>1. Duty(0) \in [fwd : 0..MaxDuty, rev : 0..MaxDuty]
    BY DutyType
  <2>2. duty \in [Channels -> [fwd : 0..MaxDuty, rev : 0..MaxDuty]]
    BY <2>1 DEF Init
  <2>3. speed \in [Channels -> Speeds \cup Wild \cup {0}]
    BY DEF Init
  <2>4. want \in [Tasks -> [Channels -> Speeds \cup {0, Any}]]
    BY DEF Init, Nothing
  <2>5. tries \in [Tasks -> 0..(MaxRetries - 1)] /\ calls \in [Tasks -> 0..MaxCalls]
    BY DEF Init
  <2>6. /\ pc \in [Tasks -> {"create", "deleted", "stop0", "stop1", "boot", "loop",
                            "clear", "idle", "trigger", "verify"}]
        /\ result \in [Tasks -> {"none", "STAT_OKE", "STAT_ERR_TIMEOUT", "STAT_ERR_NULL"}]
        /\ seen \in [Reporters -> Speeds \cup Wild \cup {0}]
        /\ flags \subseteq Flags /\ created \in {"no", "lock", "yes"}
        /\ lock \in {Free, Runtime} /\ fault \in BOOLEAN
    BY DEF Init
  <2> QED BY <2>2, <2>3, <2>4, <2>5, <2>6 DEF TypeOK
<1>2. Places /\ NothingPending /\ AppliedWhenClear /\ BootOrder /\ NoWildSpeed
  BY DEF Init, Places, NothingPending, AppliedWhenClear, BootOrder, NoWildSpeed
<1> QED BY <1>1, <1>2 DEF MotorInv

(* A request: a speed or Any for each motor.                                 *)
Requests == [Channels -> Speeds \cup {0, Any}]

LEMMA CallTypeOK ==
  ASSUME TypeOK, NEW t \in Tasks, NEW request \in Requests, NEW from,
         Call(t, request, from)
  PROVE  /\ pc' \in [Tasks -> {"create", "deleted", "stop0", "stop1", "boot", "loop",
                               "clear", "idle", "trigger", "verify"}]
         /\ want' \in [Tasks -> Requests]
         /\ tries' = tries
         /\ result' \in [Tasks -> {"none", "STAT_OKE", "STAT_ERR_TIMEOUT", "STAT_ERR_NULL"}]
  BY DEF TypeOK, Call, Goto, Requests

LEMMA ReturnTypeOK ==
  ASSUME TypeOK, NEW t \in Tasks, NEW code \in {"STAT_OKE", "STAT_ERR_TIMEOUT"},
         Return(t, code)
  PROVE  /\ pc' \in [Tasks -> {"create", "deleted", "stop0", "stop1", "boot", "loop",
                               "clear", "idle", "trigger", "verify"}]
         /\ want' \in [Tasks -> Requests]
         /\ tries' \in [Tasks -> 0..(MaxRetries - 1)]
         /\ result' \in [Tasks -> {"none", "STAT_OKE", "STAT_ERR_TIMEOUT", "STAT_ERR_NULL"}]
<1>1. Nothing \in Requests
  BY DEF Nothing, Requests
<1>2. want \in [Tasks -> Requests]
  BY DEF TypeOK, Requests
<1> QED BY <1>1, <1>2 DEF TypeOK, Return, Goto

LEMMA ApplyTypeOK ==
  ASSUME TypeOK, HBridge_Apply
  PROVE  /\ duty' \in [Channels -> [fwd : 0..MaxDuty, rev : 0..MaxDuty]]
         /\ flags' \subseteq Flags
<1>1. \A m \in Channels : speed[m] \in Int
  BY DEF TypeOK
<1>2. \A m \in Channels : Duty(speed[m]) \in [fwd : 0..MaxDuty, rev : 0..MaxDuty]
  BY <1>1, DutyType
<1> QED BY <1>2 DEF TypeOK, HBridge_Apply

LEMMA NextTypeOK == TypeOK /\ [Next]_vars => TypeOK'
<1> SUFFICES ASSUME TypeOK, [Next]_vars PROVE TypeOK'
  OBVIOUS
<1> USE DEF object, locals
<1>1. CASE CreateLock
  BY <1>1 DEF TypeOK, CreateLock
<1>2. CASE HBridge_Create
  <2>1. \A m \in Channels : speed[m] \in Int
    BY DEF TypeOK
  <2>2. \A m \in Channels : Duty(speed[m]) \in [fwd : 0..MaxDuty, rev : 0..MaxDuty]
    BY <2>1, DutyType
  <2>3. duty' \in [Channels -> [fwd : 0..MaxDuty, rev : 0..MaxDuty]]
    BY <1>2, <2>2 DEF TypeOK, HBridge_Create
  <2>4. flags' \subseteq Flags
    BY <1>2 DEF TypeOK, HBridge_Create, Flags
  <2> QED BY <1>2, <2>3, <2>4 DEF TypeOK, HBridge_Create, Goto
<1>3. CASE BootStop
  <2>1. /\ [Nothing EXCEPT ![0] = 0] \in Requests
        /\ [Nothing EXCEPT ![1] = 0] \in Requests
    BY DEF Nothing, Requests
  <2>2. PICK request \in Requests, from \in {"stop0", "stop1"} : Call(Runtime, request, from)
    BY <1>3, <2>1 DEF BootStop, MotorSetSpeed0, MotorSetSpeed1
  <2> QED BY <1>3, <2>2, CallTypeOK DEF TypeOK, BootStop, Requests
<1>4. CASE BootApply
  BY <1>4, ApplyTypeOK DEF TypeOK, BootApply, Goto
<1>5. CASE RuntimeApply
  BY <1>5, ApplyTypeOK DEF TypeOK, RuntimeApply, Goto
<1>6. CASE RuntimeClear
  BY <1>6 DEF TypeOK, RuntimeClear, Goto
<1>7. ASSUME NEW t \in Setters, EngineControl(t) PROVE TypeOK'
  <2>1. PICK request \in Requests : Call(t, request, "idle")
    <3>1. PICK s0 \in Speeds, s1 \in Speeds :
            \/ MotorSetSpeed0(t, s0, "idle")
            \/ MotorSetSpeed1(t, s1, "idle")
            \/ MotorSetSpeed(t, s0, s1, "idle")
      BY <1>7 DEF EngineControl
    <3>2. /\ [Nothing EXCEPT ![0] = s0] \in Requests
          /\ [Nothing EXCEPT ![1] = s1] \in Requests
          /\ [m \in Channels |-> IF m = 0 THEN s0 ELSE s1] \in Requests
      BY DEF Nothing, Requests
    <3> QED BY <3>1, <3>2 DEF MotorSetSpeed0, MotorSetSpeed1, MotorSetSpeed
  <2>2. calls' \in [Tasks -> 0..MaxCalls]
    BY <1>7 DEF TypeOK, EngineControl
  <2> QED BY <1>7, <2>1, <2>2, CallTypeOK DEF TypeOK, EngineControl, Requests
<1>8. ASSUME NEW t \in Setters \cup {Runtime}, Trigger(t) PROVE TypeOK'
  <2>1. CASE UNCHANGED <<speed, flags>>
    BY <1>8, <2>1 DEF TypeOK, Trigger, Goto
  <2>2. CASE HBridge_SetSpeed(want[t])
    <3>1. want[t] \in Requests
      BY DEF TypeOK, Requests
    <3>2. speed' \in [Channels -> Speeds \cup Wild \cup {0}]
      BY <2>2, <3>1 DEF TypeOK, HBridge_SetSpeed, Requests
    <3>3. flags' \subseteq Flags
      BY <2>2 DEF TypeOK, HBridge_SetSpeed, Flags
    <3> QED BY <1>8, <3>2, <3>3 DEF TypeOK, Trigger, Goto
  <2> QED BY <1>8, <2>1, <2>2 DEF Trigger
<1>9. ASSUME NEW t \in Setters \cup {Runtime}, WaitForSpeedAt(t) PROVE TypeOK'
  <2>1. CASE Return(t, "STAT_OKE") \/ Return(t, "STAT_ERR_TIMEOUT")
    BY <1>9, <2>1, ReturnTypeOK DEF TypeOK, WaitForSpeedAt, Requests
  <2>2. CASE /\ tries[t] + 1 < MaxRetries
             /\ tries' = [tries EXCEPT ![t] = @ + 1]
             /\ Goto(t, "trigger")
             /\ UNCHANGED <<want, result>>
    BY <1>9, <2>2 DEF TypeOK, WaitForSpeedAt, Goto
  <2> QED BY <1>9, <2>1, <2>2 DEF WaitForSpeedAt
<1>10. ASSUME NEW t \in Reporters, Report(t) PROVE TypeOK'
  BY <1>10 DEF TypeOK, Report, MotorGetSpeed0, MotorGetSpeed1, GetSpeed, GetTimeout
<1>11. CASE UNCHANGED vars
  BY <1>11 DEF TypeOK, vars
<1> QED BY <1>1, <1>2, <1>3, <1>4, <1>5, <1>6, <1>7, <1>8, <1>9, <1>10, <1>11
        DEF Next, MotorRuntime, InCall

(* Every variable keeps its type, in all tasks and at every step of a call.  *)
THEOREM MotorTypeCorrect == Spec => []TypeOK
<1>1. Init => TypeOK
  BY InitMotorInv DEF MotorInv
<1> QED BY <1>1, NextTypeOK, PTL DEF Spec

-----------------------------------------------------------------------------
LEMMA NextPlaces == TypeOK /\ Places /\ [Next]_vars => Places'
<1> SUFFICES ASSUME TypeOK, Places, [Next]_vars PROVE Places'
  OBVIOUS
<1> USE DEF Places, Goto, object, locals
<1>0. pc \in [Tasks -> {"create", "deleted", "stop0", "stop1", "boot", "loop",
                        "clear", "idle", "trigger", "verify"}]
  BY DEF TypeOK
<1>1. CASE CreateLock \/ HBridge_Create
  BY <1>0, <1>1 DEF CreateLock, HBridge_Create
<1>2. CASE BootStop
  BY <1>0, <1>2 DEF BootStop, MotorSetSpeed0, MotorSetSpeed1, Call
<1>3. CASE BootApply \/ RuntimeApply \/ RuntimeClear
  BY <1>0, <1>3 DEF BootApply, RuntimeApply, RuntimeClear
<1>4. ASSUME NEW t \in Setters, EngineControl(t) PROVE Places'
  <2>1. /\ pc[t] = "idle" /\ UNCHANGED <<created, lock>>
        /\ UNCHANGED pc \/ (created = "yes" /\ Goto(t, "trigger"))
    BY <1>4 DEF EngineControl, MotorSetSpeed0, MotorSetSpeed1, MotorSetSpeed, Call
  <2> QED BY <1>0, <2>1
<1>5. ASSUME NEW t \in Setters \cup {Runtime}, Trigger(t) PROVE Places'
  BY <1>0, <1>5 DEF Trigger
<1>6. ASSUME NEW t \in Setters \cup {Runtime}, WaitForSpeedAt(t) PROVE Places'
  <2>1. PICK step \in {"idle", "trigger", "stop1", "boot"} :
          /\ pc' = [pc EXCEPT ![t] = step]
          /\ t = Runtime => step # "idle"
          /\ t # Runtime => step \in {"idle", "trigger"}
    <3>1. CASE \E code \in {"STAT_OKE", "STAT_ERR_TIMEOUT"} : Return(t, code)
      BY <3>1 DEF Return
    <3>2. CASE Goto(t, "trigger")
      BY <3>2
    <3> QED BY <1>6, <3>1, <3>2 DEF WaitForSpeedAt
  <2>2. pc[t] = "verify" /\ UNCHANGED <<created, lock>>
    BY <1>6 DEF WaitForSpeedAt
  <2>3. CASE t = Runtime
    BY <1>0, <2>1, <2>2, <2>3
  <2>4. CASE t # Runtime
    BY <1>0, <2>1, <2>2, <2>4
  <2> QED BY <2>3, <2>4
<1>7. ASSUME NEW t \in Reporters, Report(t) PROVE Places'
  BY <1>7 DEF Report, MotorGetSpeed0, MotorGetSpeed1, GetSpeed, GetTimeout
<1>8. CASE UNCHANGED vars
  BY <1>8 DEF vars
<1> QED BY <1>1, <1>2, <1>3, <1>4, <1>5, <1>6, <1>7, <1>8 DEF Next, MotorRuntime, InCall

(* The steps that touch the object or the lock: all others leave them.       *)
LEMMA ObjectSteps ==
  ASSUME [Next]_vars
  PROVE  \/ CreateLock \/ HBridge_Create \/ BootApply \/ RuntimeApply \/ RuntimeClear
         \/ \E t \in Setters \cup {Runtime} : Trigger(t)
         \/ UNCHANGED <<object, lock>>
<1>1. CASE BootStop
  BY <1>1 DEF BootStop
<1>2. ASSUME NEW t \in Setters, EngineControl(t) PROVE UNCHANGED <<object, lock>>
  BY <1>2 DEF EngineControl
<1>3. ASSUME NEW t \in Setters \cup {Runtime}, WaitForSpeedAt(t) PROVE UNCHANGED <<object, lock>>
  BY <1>3 DEF WaitForSpeedAt
<1>4. ASSUME NEW t \in Reporters, Report(t) PROVE UNCHANGED <<object, lock>>
  BY <1>4 DEF Report, MotorGetSpeed0, MotorGetSpeed1, GetSpeed, GetTimeout
<1>5. CASE UNCHANGED vars
  BY <1>5 DEF vars, object
<1> QED BY <1>1, <1>2, <1>3, <1>4, <1>5 DEF Next, MotorRuntime, InCall

(* RuntimeApply lowers the flag as it takes the lock, and nobody but         *)
(* RuntimeClear touches the object while the lock is held.                   *)
LEMMA NextNothingPending ==
  Places /\ Places' /\ NothingPending /\ [Next]_vars => NothingPending'
<1> SUFFICES ASSUME Places, Places', NothingPending, [Next]_vars PROVE NothingPending'
  OBVIOUS
<1> USE DEF Places, NothingPending, object
<1>1. CASE CreateLock \/ HBridge_Create \/ BootApply \/ RuntimeClear
  BY <1>1 DEF CreateLock, HBridge_Create, BootApply, RuntimeClear
<1>2. CASE RuntimeApply
  BY <1>2 DEF RuntimeApply, HBridge_Apply
<1>3. ASSUME NEW t \in Setters \cup {Runtime}, Trigger(t) PROVE NothingPending'
  BY <1>3 DEF Trigger
<1>4. CASE UNCHANGED <<object, lock>>
  BY <1>4
<1> QED BY <1>1, <1>2, <1>3, <1>4, ObjectSteps

LEMMA NextAppliedWhenClear ==
  Places /\ NothingPending /\ AppliedWhenClear /\ [Next]_vars => AppliedWhenClear'
<1> SUFFICES ASSUME Places, NothingPending, AppliedWhenClear, [Next]_vars
             PROVE  AppliedWhenClear'
  OBVIOUS
<1> USE DEF AppliedWhenClear, object
<1>1. CASE CreateLock
  BY <1>1 DEF CreateLock
<1>2. CASE HBridge_Create
  BY <1>2 DEF HBridge_Create
<1>3. CASE BootApply \/ RuntimeApply
  BY <1>3 DEF BootApply, RuntimeApply, HBridge_Apply
<1>4. CASE RuntimeClear
  BY <1>4 DEF RuntimeClear, Places, NothingPending
<1>5. ASSUME NEW t \in Setters \cup {Runtime}, Trigger(t) PROVE AppliedWhenClear'
  BY <1>5 DEF Trigger, HBridge_SetSpeed
<1>6. CASE UNCHANGED <<object, lock>>
  BY <1>6
<1> QED BY <1>1, <1>2, <1>3, <1>4, <1>5, <1>6, ObjectSteps

(* Once the object exists, a speed that was asked for is only replaced by    *)
(* another one.                                                              *)
LEMMA AskedForGood ==
  ASSUME TypeOK, [Next]_vars, NEW m \in Channels, Asked(m) PROVE Asked(m)'
<1> USE DEF Asked, object
<1>1. CASE CreateLock \/ HBridge_Create \/ BootApply \/ RuntimeApply \/ RuntimeClear
  BY <1>1 DEF CreateLock, HBridge_Create, BootApply, RuntimeApply, RuntimeClear
<1>2. ASSUME NEW t \in Setters \cup {Runtime}, Trigger(t) PROVE Asked(m)'
  BY <1>2 DEF Trigger, HBridge_SetSpeed, TypeOK
<1>3. CASE UNCHANGED <<object, lock>>
  BY <1>3
<1> QED BY <1>1, <1>2, <1>3, ObjectSteps

(* The steps that touch what BootOrder says of MotorRuntime itself.          *)
LEMMA RuntimeSteps ==
  ASSUME TypeOK, Places, [Next]_vars
  PROVE  \/ CreateLock \/ HBridge_Create \/ BootStop
         \/ BootApply \/ RuntimeApply \/ RuntimeClear
         \/ Trigger(Runtime) \/ WaitForSpeedAt(Runtime)
         \/ /\ pc'[Runtime] = pc[Runtime]
            /\ want'[Runtime] = want[Runtime]
            /\ tries'[Runtime] = tries[Runtime]
<1> USE DEF Goto, TypeOK
<1> DEFINE Kept == /\ pc'[Runtime] = pc[Runtime]
                   /\ want'[Runtime] = want[Runtime]
                   /\ tries'[Runtime] = tries[Runtime]
<1>1. ASSUME NEW t \in Setters, EngineControl(t) PROVE Kept
  BY <1>1 DEF EngineControl, MotorSetSpeed0, MotorSetSpeed1, MotorSetSpeed, Call
<1>2. ASSUME NEW t \in Setters, Trigger(t) PROVE Kept
  BY <1>2 DEF Trigger, locals
<1>3. ASSUME NEW t \in Setters, WaitForSpeedAt(t) PROVE Kept
  BY <1>3 DEF WaitForSpeedAt, Return
<1>4. ASSUME NEW t \in Reporters, Report(t) PROVE Kept
  BY <1>4 DEF Report, MotorGetSpeed0, MotorGetSpeed1, GetSpeed, GetTimeout
<1>5. CASE UNCHANGED vars
  BY <1>5 DEF vars
<1> QED BY <1>1, <1>2, <1>3, <1>4, <1>5 DEF Next, MotorRuntime, InCall

LEMMA NextBootOrder == TypeOK /\ Places /\ BootOrder /\ [Next]_vars => BootOrder'
<1> SUFFICES ASSUME TypeOK, Places, BootOrder, [Next]_vars PROVE BootOrder'
  OBVIOUS
<1> USE DEF Goto
<1>0. /\ pc \in [Tasks -> {"create", "deleted", "stop0", "stop1", "boot", "loop",
                           "clear", "idle", "trigger", "verify"}]
      /\ want \in [Tasks -> Requests]
      /\ tries \in [Tasks -> 0..(MaxRetries - 1)]
  BY DEF TypeOK, Requests
<1>k. \A m \in Channels : Asked(m) => Asked(m)'
  BY AskedForGood
<1>1. CASE CreateLock \/ HBridge_Create
  BY <1>0, <1>k, <1>1 DEF BootOrder, CreateLock, HBridge_Create, locals
<1>2. CASE BootStop
  <2>1. created = "yes"
    BY <1>2 DEF BootStop, MotorSetSpeed0, MotorSetSpeed1, Call, Places
  <2>2. PICK m \in Channels :
          /\ pc[Runtime] = IF m = 0 THEN "stop0" ELSE "stop1"
          /\ pc' = [pc EXCEPT ![Runtime] = "trigger"]
          /\ want' = [want EXCEPT ![Runtime] = [Nothing EXCEPT ![m] = 0]]
          /\ tries' = tries
    <3>1. CASE MotorSetSpeed0(Runtime, 0, "stop0")
      <4> WITNESS 0 \in Channels
      <4> QED BY <2>1, <3>1 DEF MotorSetSpeed0, Call
    <3>2. CASE MotorSetSpeed1(Runtime, 0, "stop1")
      <4> WITNESS 1 \in Channels
      <4> QED BY <2>1, <3>2 DEF MotorSetSpeed1, Call
    <3> QED BY <1>2, <3>1, <3>2 DEF BootStop
  <2>3. /\ pc'[Runtime] = "trigger"
        /\ want'[Runtime] = [Nothing EXCEPT ![m] = 0]
        /\ tries'[Runtime] = 0
        /\ m = 1 => Asked(0)
    BY <1>0, <2>2 DEF BootOrder
  <2>4. m = 1 => Asked(0)'
    BY <1>k, <2>3
  <2>5. \E n \in Channels :
          /\ want'[Runtime] = [Nothing EXCEPT ![n] = 0]
          /\ n = 1 => Asked(0)'
          /\ pc'[Runtime] = "verify" \/ tries'[Runtime] > 0 => Asked(n)'
    <3> WITNESS m \in Channels
    <3> QED BY <2>3, <2>4
  <2> QED BY <2>3, <2>5 DEF BootOrder
<1>3. CASE BootApply \/ RuntimeApply \/ RuntimeClear
  BY <1>0, <1>k, <1>3 DEF BootOrder, BootApply, RuntimeApply, RuntimeClear, locals
<1>4. CASE Trigger(Runtime)
  <2>1. PICK m \in Channels :
          want[Runtime] = [Nothing EXCEPT ![m] = 0] /\ (m = 1 => Asked(0))
    BY <1>4 DEF BootOrder, Trigger
  <2>2. want[Runtime][m] = 0
    BY <2>1 DEF Nothing
  <2>3. Asked(m)'
    <3>1. CASE Done(Runtime)
      <4>1. want[Runtime][m] = speed[m]
        BY <2>2, <3>1 DEF Done, Matches, TypeOK
      <4>2. speed' = speed
        BY <1>4, <3>1 DEF Trigger
      <4> QED BY <2>2, <4>1, <4>2 DEF Asked
    <3>2. CASE ~Done(Runtime)
      BY <1>4, <2>2, <3>2 DEF Trigger, HBridge_SetSpeed, Asked
    <3> QED BY <3>1, <3>2
  <2> QED BY <1>0, <1>k, <1>4, <2>1, <2>3 DEF BootOrder, Trigger, locals
<1>5. CASE WaitForSpeedAt(Runtime)
  <2>1. PICK m \in Channels :
          /\ want[Runtime] = [Nothing EXCEPT ![m] = 0]
          /\ m = 1 => Asked(0)
          /\ Asked(m)
    BY <1>5 DEF BootOrder, WaitForSpeedAt
  <2>2. CASE /\ tries' = [tries EXCEPT ![Runtime] = @ + 1]
             /\ pc' = [pc EXCEPT ![Runtime] = "trigger"]
             /\ want' = want
    BY <1>0, <1>k, <2>1, <2>2 DEF BootOrder
  <2>3. CASE \E code \in {"STAT_OKE", "STAT_ERR_TIMEOUT"} : Return(Runtime, code)
    <3>1. want[Runtime][0] # Any <=> m = 0
      BY <2>1 DEF Nothing
    <3> QED BY <1>0, <1>k, <2>1, <2>3, <3>1 DEF BootOrder, Return
  <2> QED BY <1>5, <2>2, <2>3 DEF WaitForSpeedAt
<1>6. CASE /\ pc'[Runtime] = pc[Runtime]
           /\ want'[Runtime] = want[Runtime]
           /\ tries'[Runtime] = tries[Runtime]
  BY <1>k, <1>6 DEF BootOrder
<1> QED BY <1>1, <1>2, <1>3, <1>4, <1>5, <1>6, RuntimeSteps

(* When MotorRuntime enters its loop it has just applied, or applied before  *)
(* and nothing was stored since.                                             *)
LEMMA NextNoWildSpeed ==
  TypeOK /\ Places /\ AppliedWhenClear /\ BootOrder /\ BootOrder' /\ NoWildSpeed /\ [Next]_vars
    => NoWildSpeed'
<1> SUFFICES ASSUME TypeOK, Places, AppliedWhenClear, BootOrder, BootOrder', NoWildSpeed,
                    [Next]_vars,
                    pc'[Runtime] \in {"loop", "clear"}, NEW m \in Channels
             PROVE  /\ speed'[m] \in Speeds
                    /\ \E s \in Speeds : duty'[m] = Duty(s)
  BY DEF NoWildSpeed
<1> USE DEF object, Goto
<1>1. speed'[m] \in Speeds
  BY DEF BootOrder, Asked
<1>2. pc[Runtime] \in {"boot", "loop", "clear"}
  <2>0. /\ pc \in [Tasks -> {"create", "deleted", "stop0", "stop1", "boot", "loop",
                             "clear", "idle", "trigger", "verify"}]
    BY DEF TypeOK
  <2>1. CASE BootStop
    BY <2>0, <2>1 DEF BootStop, MotorSetSpeed0, MotorSetSpeed1, Call, Places
  <2>2. CASE CreateLock \/ HBridge_Create \/ Trigger(Runtime)
    BY <2>0, <2>2 DEF CreateLock, HBridge_Create, Trigger
  <2>3. CASE WaitForSpeedAt(Runtime)
    BY <2>0, <2>3 DEF WaitForSpeedAt, Return
  <2>4. CASE BootApply \/ RuntimeApply \/ RuntimeClear
    BY <2>4 DEF BootApply, RuntimeApply, RuntimeClear
  <2> QED BY <2>1, <2>2, <2>3, <2>4, RuntimeSteps
<1>3. \E s \in Speeds : duty'[m] = Duty(s)
  <2>0. speed[m] \in Speeds /\ created = "yes"
    BY <1>2 DEF BootOrder, Asked, Places
  <2>1. CASE BootApply \/ RuntimeApply
    <3>1. duty'[m] = Duty(speed[m]) \/ (duty' = duty /\ "ModifiedSpeed" \notin flags)
      BY <2>1 DEF BootApply, RuntimeApply, HBridge_Apply
    <3> QED BY <2>0, <3>1 DEF AppliedWhenClear
  <2>2. CASE UNCHANGED duty
    <3>1. pc[Runtime] \in {"loop", "clear"} \/ BootApply
      BY <1>2, RuntimeSteps DEF CreateLock, HBridge_Create, BootStop, MotorSetSpeed0,
         MotorSetSpeed1, Call, RuntimeApply, RuntimeClear, Trigger, WaitForSpeedAt
    <3> QED BY <2>1, <2>2, <3>1 DEF NoWildSpeed
  <2>3. CASE CreateLock \/ HBridge_Create \/ RuntimeClear
    BY <1>2, <2>2, <2>3 DEF CreateLock, HBridge_Create, RuntimeClear
  <2>4. ASSUME NEW t \in Setters \cup {Runtime}, Trigger(t) PROVE UNCHANGED duty
    BY <2>4 DEF Trigger
  <2> QED BY <2>1, <2>2, <2>3, <2>4, ObjectSteps
<1> QED BY <1>1, <1>3

LEMMA NextMotorInv == MotorInv /\ [Next]_vars => MotorInv'
  BY NextTypeOK, NextPlaces, NextNothingPending, NextAppliedWhenClear, NextBootOrder,
     NextNoWildSpeed DEF MotorInv

LEMMA MotorInvariant == Spec => []MotorInv
  BY InitMotorInv, NextMotorInv, PTL DEF Spec

(* ModifiedSpeed is never clear while the hardware runs at other speeds than *)
(* those stored, though the loop of MotorRuntime applies first and clears    *)
(* all flags in a second step.                                               *)
THEOREM FlagsTellTheTruth == Spec => []AppliedWhenClear
  BY MotorInvariant, PTL DEF MotorInv

(* Whatever malloc left in the speeds and HBridge_Create drove the motors    *)
(* with is gone when MotorRuntime enters its loop.                           *)
THEOREM GarbageIsGone == Spec => []NoWildSpeed
  BY MotorInvariant, PTL DEF MotorInv

-----------------------------------------------------------------------------
(* A setter returns STAT_OKE in WaitForSpeedAt alone, where it has found the *)
(* flag clear and its own speeds stored, under the lock.                     *)
LEMMA OkStep ==
  MotorInv /\ [Next]_vars =>
    \A t \in Tasks : pc[t] = "verify" /\ result'[t] = "STAT_OKE" /\ result[t] # "STAT_OKE"
      => \A m \in Channels : want[t][m] # Any => duty[m] = Duty(want[t][m])
<1> SUFFICES ASSUME MotorInv, [Next]_vars, NEW t \in Tasks, pc[t] = "verify",
                    result'[t] = "STAT_OKE", result[t] # "STAT_OKE",
                    NEW m \in Channels, want[t][m] # Any
             PROVE  duty[m] = Duty(want[t][m])
  OBVIOUS
<1> USE DEF MotorInv
<1>1. t \in Setters \cup {Runtime} /\ created = "yes"
  BY DEF Places
<1>2. Done(t)
  <2>0. result \in [Tasks -> {"none", "STAT_OKE", "STAT_ERR_TIMEOUT", "STAT_ERR_NULL"}]
    BY DEF TypeOK
  <2>1. ASSUME NEW u \in Setters, EngineControl(u) PROVE FALSE
    BY <2>0, <2>1 DEF EngineControl, MotorSetSpeed0, MotorSetSpeed1, MotorSetSpeed, Call
  <2>2. CASE BootStop
    BY <2>0, <2>2 DEF BootStop, MotorSetSpeed0, MotorSetSpeed1, Call
  <2>3. ASSUME NEW u \in Setters \cup {Runtime}, WaitForSpeedAt(u) PROVE Done(t)
    BY <2>0, <2>3 DEF WaitForSpeedAt, Return
  <2>4. ASSUME NEW u \in Setters \cup {Runtime}, Trigger(u) PROVE FALSE
    BY <2>4 DEF Trigger, locals
  <2>5. ASSUME NEW u \in Reporters, Report(u) PROVE FALSE
    BY <2>5 DEF Report, MotorGetSpeed0, MotorGetSpeed1, GetSpeed, GetTimeout
  <2>6. CASE CreateLock \/ HBridge_Create \/ BootApply \/ RuntimeApply \/ RuntimeClear
    BY <2>6 DEF CreateLock, HBridge_Create, BootApply, RuntimeApply, RuntimeClear, locals
  <2>7. CASE UNCHANGED vars
    BY <2>7 DEF vars
  <2> QED BY <2>1, <2>2, <2>3, <2>4, <2>5, <2>6, <2>7 DEF Next, MotorRuntime, InCall
<1>3. speed[m] = want[t][m]
  BY <1>2 DEF Done, Matches
<1> QED BY <1>1, <1>2, <1>3 DEF Done, AppliedWhenClear

(* STAT_OKE means that at that moment the hardware runs at the speeds the    *)
(* caller asked for, whatever other setters did while it waited.             *)
THEOREM SuccessIsApplied == Spec => OkMeansApplied
<1>1. MotorInv /\ [Next]_vars =>
        [\A t \in Tasks : pc[t] = "verify" /\ result'[t] = "STAT_OKE" /\ result[t] # "STAT_OKE"
           => \A m \in Channels : want[t][m] # Any => duty[m] = Duty(want[t][m])]_vars
  BY OkStep
<1> QED BY <1>1, MotorInvariant, PTL DEF Spec, OkMeansApplied
=============================================================================
