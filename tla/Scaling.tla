------------------------------ MODULE Scaling ------------------------------
(* Speeds in percent, which frames carry, and raw, which the motors take:    *)
(* LinearScale (AppBase/AppUtils.c), the two converters of HeartBeat/Module  *)
(* and the two of AppRT/Routing/TempControlFrame.c, which are an older copy. *)
(* A peer may command again the speed that the last heartbeat reported.      *)
EXTENDS Integers

CONSTANTS
  Percents,    \* speeds that a frame commands: int8_t
  MaxEchoes    \* bound on the reports commanded back

VARIABLES
  ordered,   \* the percentage first commanded
  raw,       \* the speed given to the motor
  reported,  \* the percentage that the heartbeat reports
  older,     \* the same from TempControlFrame.c's converter
  echoes     \* times a report was commanded back

scalingVars == <<ordered, raw, reported, older, echoes>>

(* Division in C.                                                            *)
Quotient(a, b) ==
  IF (a < 0) = (b < 0) THEN (IF a < 0 THEN -a ELSE a) \div (IF b < 0 THEN -b ELSE b)
  ELSE -((IF a < 0 THEN -a ELSE a) \div (IF b < 0 THEN -b ELSE b))

Within(left, right, v) ==
  IF left < right THEN (IF v <= left THEN left ELSE IF v >= right THEN right ELSE v)
  ELSE (IF v >= left THEN left ELSE IF v <= right THEN right ELSE v)

LinearScale_unclamped(in, out, inOffset, outOffset, value) ==
  LET range == in[2] - in[1] IN
  IF range = 0 THEN out[1] + outOffset
  ELSE Quotient((value + inOffset - in[1]) * (out[2] - out[1]), range) + out[1] + outOffset

(* in and out are <<left, right>>.  The products of all callers fit 32 bits. *)
LinearScale(in, out, inOffset, outOffset, value) ==
  LET x == Within(in[1], in[2], value + inOffset)
      range == in[2] - in[1]
  IN  IF range = 0 THEN out[1] + outOffset
      ELSE Within(out[1], out[2], Quotient((x - in[1]) * (out[2] - out[1]), range) + out[1] + outOffset)

ConvertRaw2Percent(v) ==
  CASE v \in -300..300 -> 0
    [] v < -300 -> LinearScale(<<-1024, -300>>, <<-100, 0>>, 0, 0, v)
    [] v > 300 -> LinearScale(<<300, 1024>>, <<0, 100>>, 0, 0, v)

ConvertPercent2Raw(p) ==
  CASE p = 0 -> 0
    [] p < 0 -> LinearScale(<<-100, 0>>, <<-1024, -300>>, 0, 0, p)
    [] p > 0 -> LinearScale(<<0, 100>>, <<300, 1024>>, 0, 0, p)

(* TempControlFrame.c: both halves alike, from the centre outwards.          *)
Least(a, b) == IF a < b THEN a ELSE b

ConvertRawToPercent(v) ==
  CASE v >= 300 -> ((Least(v, 1024) - 300) * 100) \div 724
    [] v <= -300 -> -(((Least(-v, 1024) - 300) * 100) \div 724)
    [] OTHER -> 0

ConvertPercentToRaw(p) ==
  CASE p > 0 -> 300 + (Least(p, 100) * 724) \div 100
    [] p < 0 -> -(300 + (Least(-p, 100) * 724) \div 100)
    [] OTHER -> 0

Init ==
  /\ ordered = 0 /\ raw = 0 /\ reported = 0 /\ older = 0 /\ echoes = 0

(* EngineControl1 to 3, App_HeartBeat_ParsePacket, and the next heartbeat.   *)
Obey(p) ==
  /\ raw' = ConvertPercent2Raw(p)
  /\ reported' = ConvertRaw2Percent(raw')
  /\ older' = ConvertRawToPercent(ConvertPercentToRaw(p))

EngineControl ==
  /\ \E p \in Percents : ordered' = p /\ Obey(p)
  /\ echoes' = 0

Echo ==
  /\ echoes < MaxEchoes
  /\ Obey(reported)
  /\ echoes' = echoes + 1
  /\ UNCHANGED ordered

Next == EngineControl \/ Echo

Sign(v) == IF v > 0 THEN 1 ELSE IF v < 0 THEN -1 ELSE 0
Commanded == Within(-100, 100, ordered)

(* The rounding towards zero of the two divisions (AppUtils.c:101) moves a   *)
(* speed by at most one percent each time it is reported and commanded back, *)
(* never turns it round, and never lets the motor leave its dead band unless *)
(* a speed other than 0 is commanded; both pairs of converters keep so.      *)
SpeedsAreKept ==
  LET drift == reported - Commanded
      moving == Sign(raw) # 0
  IN  /\ drift \in -(echoes + 1)..echoes + 1
      /\ Sign(reported) \in {0, Sign(Commanded)} /\ Sign(raw) \in {0, Sign(Commanded)}
      /\ moving => raw \in -1024..-300 \cup 300..1024
      /\ echoes = 0 => (moving <=> Commanded # 0) /\ older - Commanded \in -1..1
=============================================================================
