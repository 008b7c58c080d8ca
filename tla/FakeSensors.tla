----------------------------- MODULE FakeSensors -----------------------------
(***************************************************************************)
(* The three simulated sensors, fake_temp.c, fake_psu.c and                *)
(* fake_peci_cputemp.c: sample_fetch takes a counter of seconds modulo 100 *)
(* from the 32-bit uptime, channel_get computes every value from it.       *)
(***************************************************************************)
EXTENDS Integers

CONSTANTS
  LAST_SECOND,   \* last value of k_uptime_get_32() / 1000
  StartTimes,    \* seconds at which a behaviour begins
  MaxRun         \* bound: seconds a behaviour lasts

VARIABLES
  device,   \* the driver this behaviour is about
  sample,     \* its tick, or val_mc
  seconds,  \* k_uptime_get_32() / 1000, which wraps
  ran       \* seconds since the behaviour began

fake_vars == <<device, sample, seconds, ran>>

Device == {"temp", "psu", "peci"}

\* Division and remainder of C round towards zero.
Quotient(a, b) == IF a >= 0 THEN a \div b ELSE -((-a) \div b)

Remainder(a, b) == a - b * Quotient(a, b)

\* Fault: the uptime is converted to int before it is divided.
SignedSeconds == IF seconds > LAST_SECOND \div 2 THEN seconds - LAST_SECOND - 1 ELSE seconds

UptimeSeconds == seconds

InitialSample(d) == IF d = "temp" THEN 25000 ELSE 0

sample_fetch ==
  /\ sample' = InitialSample(device) + Remainder(UptimeSeconds, 100)
  /\ UNCHANGED <<device, seconds, ran>>

Drift(tick) == tick - 50

psu_channel_get(chan, rail) ==
  CASE chan = "VOLTAGE" -> IF rail = 2 THEN 3300 + Drift(sample) * 3
                           ELSE 12000 + Drift(sample) * 10
    [] chan = "POWER"   -> IF rail = 1 THEN 12000000 + Drift(sample) * 20000
                           ELSE 3000000 + Drift(sample) * 5000
    [] chan = "CURRENT" -> 1000 + Drift(sample) * 2
    [] chan = "TEMP"    -> 35000 + Drift(sample) * 100
    [] chan = "RPM"     -> 5000 + Drift(sample) * 20
    [] OTHER            -> 0

peci_channel_get(chan, rail) ==
  CASE chan = "TEMP" /\ rail = 0  -> 45 + Quotient(Drift(sample), 5)
    [] chan = "TEMP" /\ rail = 1  -> 15 + Quotient(Drift(sample), 10)
    [] chan = "TEMP" /\ rail > 1  -> 35 + Quotient(Drift(sample), 8)
    [] chan = "POWER" /\ rail = 0 -> 65 + Quotient(Drift(sample), 3)
    [] chan = "POWER" /\ rail > 0 -> 12 + Quotient(Drift(sample), 10)
    [] OTHER                      -> 0

\* fake_temp answers any channel.
channel_get(chan, rail) ==
  CASE device = "temp" -> sample
    [] device = "psu"  -> psu_channel_get(chan, rail)
    [] device = "peci" -> peci_channel_get(chan, rail)

SecondPasses ==
  /\ ran < MaxRun
  /\ ran' = ran + 1
  /\ seconds' = IF seconds = LAST_SECOND THEN 0 ELSE seconds + 1
  /\ UNCHANGED <<device, sample>>

FakeInit ==
  /\ device \in Device
  /\ sample = InitialSample(device)
  /\ seconds \in StartTimes
  /\ ran = 0

FakeNext == sample_fetch \/ SecondPasses

(***************************************************************************)
(* Properties                                                              *)
(***************************************************************************)

Channel == {"VOLTAGE", "POWER", "CURRENT", "TEMP", "RPM"}

\* "25000..25099 mC" (fake_temp.c:52), "calibrated to yield sensible dbus
\* readings" (fake_psu.c:41): at every moment, also behind the wrap of the
\* 32-bit uptime, input power and voltage are above the output's, the CPU is
\* hotter than the memory and draws more, and nothing is negative.
ReadingsAreSensible ==
  /\ device = "temp" => sample \in 25000..25099
  /\ \A chan \in Channel, rail \in 0..3 : channel_get(chan, rail) >= 0
  /\ device = "psu" =>
       channel_get("VOLTAGE", 0) > channel_get("VOLTAGE", 2)
         /\ channel_get("POWER", 1) > channel_get("POWER", 2)
  /\ device = "peci" =>
       channel_get("TEMP", 0) > channel_get("TEMP", 2)
         /\ channel_get("POWER", 0) > channel_get("POWER", 1)
=============================================================================
