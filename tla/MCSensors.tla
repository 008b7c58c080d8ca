------------------------------ MODULE MCSensors ------------------------------
(***************************************************************************)
(* Behind hwmon_i2c a build has the real driver or a simulated one: every  *)
(* behaviour is about one of them, and the other is at rest.               *)
(***************************************************************************)
EXTENDS MCPeciSensor

CONSTANTS LAST_SECOND, StartTimes, MaxRun

ASSUME TimesAssumption ==
  /\ LAST_SECOND \in Nat /\ MaxRun \in Nat
  /\ StartTimes \subseteq 0..LAST_SECOND

VARIABLES driver, device, sample, seconds, ran

Fake == INSTANCE FakeSensors

fake_state == <<device, sample, seconds, ran>>

FakeAtRest == device = "temp" /\ sample = 25000 /\ seconds = 0 /\ ran = 0

SensorsInit ==
  \/ driver = "intel" /\ Init /\ FakeAtRest
  \/ driver = "fake" /\ Init /\ (\A r \in Rail : energy[r] = 0) /\ Fake!FakeInit

SensorsNext ==
  /\ UNCHANGED driver
  /\ \/ driver = "intel" /\ Next /\ UNCHANGED fake_state
     \/ driver = "fake" /\ Fake!FakeNext /\ UNCHANGED vars

SensorsSpec == SensorsInit /\ [][SensorsNext]_<<driver, vars, fake_state>>

\* The property of FakeSensors: the values make sense at every moment, also
\* behind the wrap of the uptime.
ReadingsAreSensible == Fake!ReadingsAreSensible
=============================================================================
