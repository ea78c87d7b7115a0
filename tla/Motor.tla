------------------------------- MODULE Motor -------------------------------
(* The motor service (AppComm/HBridge): the H-bridge object that all tasks   *)
(* share under MotorLock, the setters that change its speeds and wait until  *)
(* MotorRuntime has applied them, the getters of the telemetry, and          *)
(* MotorRuntime itself from the creation of the object on.                   *)
(*                                                                           *)
(* MotorRuntime's sleep ends after 20 ms whether or not a setter notified    *)
(* it, so notifications only shorten it and are not modelled; nor is its     *)
(* 10 ms limit on the lock, after which it only goes round again.  The 30 s  *)
(* limit of the other tasks expires for those in Impatient.                  *)
(*                                                                           *)
(* A section between take and give is one step, as only the lock's holder    *)
(* touches what it guards; MotorRuntime's, which applies and then clears, is *)
(* two, and the lock is held between them.                                   *)
EXTENDS Integers, FiniteSets

CONSTANTS
  Setters,     \* tasks that call the setters (Eth_Runtime, HeartBeatRuntime)
  Reporters,   \* tasks that read the speeds for a heartbeat
  Impatient,   \* tasks whose take of MotorLock may time out
  Speeds,      \* speeds that are asked for
  Wild,        \* what malloc leaves in the speed fields
  MaxDuty,     \* the largest duty of the PWM resolution
  MaxRetries,  \* MOTOR_SET_SPEED_TIMEOUT_MS / MOTOR_RETRIGGER_CHANGE_SPEED
  MaxCalls,    \* bound on the calls of each setter task
  Any,         \* in a request: leave this motor alone
  Free         \* nobody holds MotorLock

Runtime == "MotorRuntime"
Channels == {0, 1}
Tasks == Setters \cup Reporters \cup {Runtime}
Flags == {"ModifiedPin", "ModifiedSpeed", "PWM_10bit"}

ASSUME MotorAssumption ==
  /\ 0 \in Speeds /\ Speeds \subseteq Int /\ Wild \subseteq Int /\ Wild # {}
  /\ MaxDuty \in Nat /\ MaxRetries \in Nat \ {0} /\ MaxCalls \in Nat
  /\ Any \notin Int /\ Free \notin Tasks
  /\ Runtime \notin Setters \cup Reporters /\ Setters \cap Reporters = {}
  /\ Impatient \subseteq Reporters

VARIABLES
  pc,       \* what each task does next
  speed,    \* Motor->Speed
  flags,    \* Motor->Flag
  created,  \* "no", "lock" (MotorLock only), "yes" (MotorLock and Motor)
  duty,     \* forward and reverse duty of each channel pair
  lock,     \* the holder of MotorLock between two steps
  want,     \* what each setter was asked for
  tries,    \* retries done in its loop
  result,   \* what the last call of each task returned
  calls,    \* calls made so far
  seen,     \* what a reporter's last getter answered
  fault     \* a NULL Motor was dereferenced: the chip reboots

vars == <<pc, speed, flags, created, duty, lock, want, tries, result, calls,
          seen, fault>>
object == <<speed, flags, created, duty>>
locals == <<want, tries, result, calls, seen>>

Nothing == [m \in Channels |-> Any]

(* What HBridge_Apply writes to the two channels of a motor.                 *)
Clamped(d) == IF d > MaxDuty THEN MaxDuty ELSE d
Duty(s) == [fwd |-> IF s > 0 THEN Clamped(s) ELSE 0,
            rev |-> IF s < 0 THEN Clamped(-s) ELSE 0]

Init ==
  /\ pc = [t \in Tasks |-> IF t = Runtime THEN "create" ELSE "idle"]
  /\ speed \in [Channels -> Wild]
  /\ flags = {}
  /\ created = "no"
  /\ duty = [m \in Channels |-> Duty(0)]
  /\ lock = Free
  /\ want = [t \in Tasks |-> Nothing]
  /\ tries = [t \in Tasks |-> 0]
  /\ result = [t \in Tasks |-> "none"]
  /\ calls = [t \in Tasks |-> 0]
  /\ seen = [t \in Reporters |-> 0]
  /\ fault = FALSE

Goto(t, step) == pc' = [pc EXCEPT ![t] = step]

(* The setters may only be called once MotorLock and Motor exist.  A request *)
(* names a speed for each motor, Any for one the function does not touch.    *)
Call(t, request, from) ==
  /\ pc[t] = from
  /\ IF created = "yes"
       THEN /\ Goto(t, "trigger")
            /\ want' = [want EXCEPT ![t] = request]
            /\ result' = [result EXCEPT ![t] = "none"]
       ELSE /\ result' = [result EXCEPT ![t] = "STAT_ERR_NULL"]
            /\ UNCHANGED <<pc, want>>
  /\ UNCHANGED tries

MotorSetSpeed0(t, s, from) == Call(t, [Nothing EXCEPT ![0] = s], from)
MotorSetSpeed1(t, s, from) == Call(t, [Nothing EXCEPT ![1] = s], from)
MotorSetSpeed(t, s0, s1, from) == Call(t, [m \in Channels |-> IF m = 0 THEN s0 ELSE s1], from)

EngineControl(t) ==
  /\ calls[t] < MaxCalls
  /\ calls' = [calls EXCEPT ![t] = @ + 1]
  /\ \E s0, s1 \in Speeds :
       \/ MotorSetSpeed0(t, s0, "idle")
       \/ MotorSetSpeed1(t, s1, "idle")
       \/ MotorSetSpeed(t, s0, s1, "idle")
  /\ UNCHANGED <<object, lock, seen, fault>>

Matches(request) == \A m \in Channels : request[m] \in {Any, speed[m]}
Done_unapplied(t) == Matches(want[t])

Done(t) == "ModifiedSpeed" \notin flags /\ Matches(want[t])

HBridge_SetSpeed(request) ==
  /\ speed' = [m \in Channels |-> IF request[m] = Any THEN speed[m] ELSE request[m]]
  /\ flags' = flags \cup {"ModifiedSpeed"}

Trigger(t) ==
  /\ pc[t] = "trigger" /\ lock = Free
  /\ IF Done(t) THEN UNCHANGED <<speed, flags>> ELSE HBridge_SetSpeed(want[t])
  /\ Goto(t, "verify")
  /\ UNCHANGED <<created, duty, lock, locals, fault>>

Return(t, code) ==
  /\ result' = [result EXCEPT ![t] = code]
  /\ want' = [want EXCEPT ![t] = Nothing]
  /\ tries' = [tries EXCEPT ![t] = 0]
  /\ Goto(t, IF t # Runtime THEN "idle"
             ELSE IF want[t][0] # Any THEN "stop1" ELSE "boot")

WaitForSpeedAt_offByOne(t) ==
  /\ pc[t] = "verify" /\ lock = Free
  /\ \/ Done(t) /\ Return(t, "STAT_OKE")
     \/ ~Done(t) /\ tries[t] = MaxRetries /\ Return(t, "STAT_ERR_TIMEOUT")
     \/ /\ ~Done(t) /\ tries[t] < MaxRetries
        /\ tries' = [tries EXCEPT ![t] = @ + 1]
        /\ Goto(t, "trigger")
        /\ UNCHANGED <<want, result>>
  /\ UNCHANGED <<object, lock, calls, seen, fault>>

WaitForSpeedAt_forever(t) ==
  /\ pc[t] = "verify" /\ lock = Free
  /\ \/ Done(t) /\ Return(t, "STAT_OKE")
     \/ ~Done(t) /\ Goto(t, "trigger") /\ UNCHANGED <<want, tries, result>>
  /\ UNCHANGED <<object, lock, calls, seen, fault>>

WaitForSpeedAt(t) ==
  /\ pc[t] = "verify" /\ lock = Free
  /\ \/ Done(t) /\ Return(t, "STAT_OKE")
     \/ ~Done(t) /\ tries[t] + 1 = MaxRetries /\ Return(t, "STAT_ERR_TIMEOUT")
     \/ /\ ~Done(t) /\ tries[t] + 1 < MaxRetries
        /\ tries' = [tries EXCEPT ![t] = @ + 1]
        /\ Goto(t, "trigger")
        /\ UNCHANGED <<want, result>>
  /\ UNCHANGED <<object, lock, calls, seen, fault>>

(* The getters test MotorLock, not Motor; without the lock they answer 0.    *)
GetSpeed(t, m) ==
  /\ IF created = "no" THEN seen' = [seen EXCEPT ![t] = 0] /\ UNCHANGED fault
     ELSE /\ lock = Free
          /\ IF created = "yes"
               THEN seen' = [seen EXCEPT ![t] = speed[m]] /\ UNCHANGED fault
               ELSE fault' = TRUE /\ UNCHANGED seen
  /\ UNCHANGED <<pc, object, lock, want, tries, result, calls>>

MotorGetSpeed0(t) == GetSpeed(t, 0)
MotorGetSpeed1(t) == GetSpeed(t, 1)

GetTimeout(t) ==
  /\ t \in Impatient /\ created # "no" /\ lock # Free
  /\ seen' = [seen EXCEPT ![t] = 0]
  /\ UNCHANGED <<pc, object, lock, want, tries, result, calls, fault>>

(* MotorRuntime: the mutex, then the object with whatever malloc left in its *)
(* speeds, which HBridge_Create applies.  Left-over bits of the flags act as *)
(* PWM_10bit does: they make the loop apply once more and are cleared there. *)
HBridge_Apply ==
  /\ duty' = IF "ModifiedSpeed" \in flags THEN [m \in Channels |-> Duty(speed[m])] ELSE duty
  /\ flags' = flags \ {"ModifiedPin", "ModifiedSpeed"}

CreateLock ==
  /\ pc[Runtime] = "create" /\ created = "no"
  /\ created' = "lock"
  /\ UNCHANGED <<pc, speed, flags, duty, lock, locals, fault>>

HBridge_Create ==
  /\ pc[Runtime] = "create" /\ created = "lock"
  /\ \/ /\ flags' = {"PWM_10bit"}
        /\ duty' = [m \in Channels |-> Duty(speed[m])]
        /\ created' = "yes"
        /\ Goto(Runtime, "stop0")
     \/ /\ Goto(Runtime, "deleted")
        /\ UNCHANGED <<flags, duty, created>>
  /\ UNCHANGED <<speed, lock, locals, fault>>

BootStop ==
  /\ \/ MotorSetSpeed0(Runtime, 0, "stop0")
     \/ MotorSetSpeed1(Runtime, 0, "stop1")
  /\ UNCHANGED <<object, lock, calls, seen, fault>>

BootApply_skipped ==
  /\ pc[Runtime] = "boot" /\ lock = Free
  /\ Goto(Runtime, "loop")
  /\ UNCHANGED <<object, lock, locals, fault>>

BootApply ==
  /\ pc[Runtime] = "boot" /\ lock = Free
  /\ HBridge_Apply
  /\ Goto(Runtime, "loop")
  /\ UNCHANGED <<speed, created, lock, locals, fault>>

RuntimeApply_givesFirst ==
  /\ pc[Runtime] = "loop" /\ lock = Free /\ flags # {}
  /\ HBridge_Apply
  /\ Goto(Runtime, "clear")
  /\ UNCHANGED <<speed, created, lock, locals, fault>>

RuntimeApply ==
  /\ pc[Runtime] = "loop" /\ lock = Free /\ flags # {}
  /\ HBridge_Apply
  /\ lock' = Runtime
  /\ Goto(Runtime, "clear")
  /\ UNCHANGED <<speed, created, locals, fault>>

RuntimeClear ==
  /\ pc[Runtime] = "clear"
  /\ flags' = {}
  /\ lock' = Free
  /\ Goto(Runtime, "loop")
  /\ UNCHANGED <<speed, created, duty, locals, fault>>

MotorRuntime == CreateLock \/ HBridge_Create \/ BootStop
                  \/ BootApply \/ RuntimeApply \/ RuntimeClear
InCall(t) == Trigger(t) \/ WaitForSpeedAt(t)
Report(t) == MotorGetSpeed0(t) \/ MotorGetSpeed1(t) \/ GetTimeout(t)

Next ==
  /\ ~fault
  /\ \/ MotorRuntime
     \/ \E t \in Setters : EngineControl(t)
     \/ \E t \in Setters \cup {Runtime} : InCall(t)
     \/ \E t \in Reporters : Report(t)

Spec == Init /\ [][Next]_vars
(* Every task runs, none is kept waiting for ever while its step is enabled.  *)
FairSpec ==
  /\ Spec
  /\ WF_vars(~fault /\ MotorRuntime)
  /\ \A t \in Setters \cup {Runtime} : WF_vars(~fault /\ InCall(t))

-----------------------------------------------------------------------------
(* Every variable keeps its type. *)
TypeOK ==
  /\ pc \in [Tasks -> {"create", "deleted", "stop0", "stop1", "boot", "loop",
                       "clear", "idle", "trigger", "verify"}]
  /\ speed \in [Channels -> Speeds \cup Wild \cup {0}]
  /\ flags \subseteq Flags
  /\ created \in {"no", "lock", "yes"}
  /\ duty \in [Channels -> [fwd : 0..MaxDuty, rev : 0..MaxDuty]]
  /\ lock \in {Free, Runtime}
  /\ want \in [Tasks -> [Channels -> Speeds \cup {0, Any}]]
  /\ tries \in [Tasks -> 0..(MaxRetries - 1)]
  /\ result \in [Tasks -> {"none", "STAT_OKE", "STAT_ERR_TIMEOUT", "STAT_ERR_NULL"}]
  /\ calls \in [Tasks -> 0..MaxCalls]
  /\ seen \in [Reporters -> Speeds \cup Wild \cup {0}]
  /\ fault \in BOOLEAN

(* A raised flag is never cleared for a speed that was not applied: whenever *)
(* ModifiedSpeed is clear the duties are those of the stored speeds, even    *)
(* though the loop applies and then clears all flags in two steps while      *)
(* setters raise them (Module.c:442-445).                                    *)
AppliedWhenClear ==
  created = "yes" /\ "ModifiedSpeed" \notin flags
    => \A m \in Channels : duty[m] = Duty(speed[m])

(* STAT_OKE means that at that moment the hardware runs at the speed the     *)
(* caller asked for, whatever other setters did while it waited.             *)
OkMeansApplied ==
  [][\A t \in Tasks : pc[t] = "verify" /\ result'[t] = "STAT_OKE" /\ result[t] # "STAT_OKE"
       => \A m \in Channels : want[t][m] # Any => duty[m] = Duty(want[t][m])]_vars

(* HBridge_Create drives the motors with whatever malloc left in the speeds. *)
(* Once MotorRuntime is in its loop that is over: the duties are those of    *)
(* speeds somebody asked for.                                                *)
NoWildSpeed ==
  pc[Runtime] \in {"loop", "clear"}
    => \A m \in Channels : speed[m] \in Speeds /\ \E s \in Speeds : duty[m] = Duty(s)

(* MotorRuntime calls the blocking setters before its loop, the only place   *)
(* that clears the flag they wait for, and setters with opposed requests     *)
(* retry against each other; all the same every call ends, and the hardware  *)
(* and the telemetry come to rest at the speeds last stored.                 *)
Settles ==
  <>\/ fault \/ pc[Runtime] = "deleted"
    \/ []/\ \A t \in Setters : pc[t] = "idle"
         /\ "ModifiedSpeed" \notin flags
         /\ \A m \in Channels : duty[m] = Duty(speed[m])
=============================================================================
