------------------------------ MODULE PeciSensor ------------------------------
(***************************************************************************)
(* The Intel PECI sensor driver, intel_peci.c: temperatures relative to    *)
(* Tjmax, and power from two readings of an energy counter that wraps.     *)
(* Every transfer may fail on its own; sample_fetch is one step, because   *)
(* hwmon_i2c calls it from one thread and only it writes the data.         *)
(***************************************************************************)
EXTENDS Integers, Sequences

CONSTANTS
  Fail,           \* no answer, or one with another completion code
  DT_TJMAX,       \* tjmax of the device tree, or -1
  TjmaxReadings,  \* what the CPU may answer: Tjmax in degrees,
  RawReadings,    \* the 16-bit temperature below Tjmax in 1/64 degrees,
  DimmReadings,   \* the DIMM temperatures in 1/10 degrees
  EU,             \* and its energy unit: 2^EU units are a joule
  COUNTER,        \* the energy counters count modulo COUNTER (2^32), an int's range
  TimeSteps,      \* milliseconds that may pass at once
  EnergySteps,    \* energy units a rail may use meanwhile
  MaxTime         \* bound: uptime in milliseconds

Rail == {"pkg", "dram"}

PECI_CC_RSP_SUCCESS == 64  \* 0x40

ASSUME TjmaxAssumption == DT_TJMAX \in -128..127

ASSUME AnswersAssumption == TjmaxReadings \subseteq 0..255

ASSUME ReadingsAssumption == Fail \notin Int /\ RawReadings \subseteq Int

\* int16_t and uint16_t.
ASSUME WidthAssumption ==
  /\ RawReadings \subseteq -32768..32767
  /\ DimmReadings \subseteq 0..65535

ASSUME EnergyAssumption ==
  /\ EU \in 0..31 /\ 2^EU \in Nat \ {0}
  /\ COUNTER \in Nat \ {0}
  /\ TimeSteps \subseteq Nat
  /\ EnergySteps \subseteq Nat
  /\ MaxTime \in Nat

VARIABLES
  tjmax_dc, dts_dc, margin_dc, dimm_dc,  \* struct intel_peci_data
  eu,
  watts,         \* package_w, dram_w
  valid, energy_prev, time_prev_ms,
  uptime,        \* k_uptime_get()
  energy,        \* energy each rail has really used
  shots,         \* history: true energy and time of the last two readings
  raw            \* history: what the last GetTemp0 answered, if it did

data == <<tjmax_dc, dts_dc, margin_dc, dimm_dc, eu, watts, valid, energy_prev,
          time_prev_ms, shots, raw>>
vars == <<data, uptime, energy>>

(***************************************************************************)
(* Decoding                                                                *)
(***************************************************************************)

\* Byte 0 of the answer is compared with the completion code.
PassesCheck(r) == r % 256 = PECI_CC_RSP_SUCCESS

\* (raw >> 6) | 0x7E00 in 16 bits: the bits are set already if raw < 0.
StripAndExtend(r) == IF r < 0 THEN r \div 64 ELSE r \div 64 + 32256

\* intel_peci_read_dts: the temperature, or Fail.
read_dts(r, tjmax) ==
  IF r = Fail \/ ~PassesCheck(r) THEN Fail
  ELSE IF r = -32768 THEN 72
  ELSE StripAndExtend(r) + tjmax

\* intel_peci_read_dimm_temps: both channels in degrees, or Fail for both.
read_dimm_temps(answer) ==
  [channel \in 1..2 |-> IF answer = Fail THEN Fail ELSE answer[channel] \div 10]

\* intel_peci_read_power_units: the local starts at 0 and stays 0 on failure.
read_power_units(answer) == IF answer = Fail THEN 0 ELSE answer % 32

\* intel_peci_read_energy of a counter that runs on behind its 32 bits.
read_energy(used) == used % COUNTER

\* Fault: the signed difference the comment on the algorithm speaks of.
SignedDelta(prev, now) ==
  IF now - prev >= COUNTER \div 2 THEN now - prev - COUNTER
  ELSE IF now - prev < -(COUNTER \div 2) THEN now - prev + COUNTER
  ELSE now - prev

\* now - prev in unsigned arithmetic.
Delta(prev, now) == (now - prev) % COUNTER

\* (int): the two's complement of the width the counters have too.
ToInt(x) == ((x + COUNTER \div 2) % COUNTER) - COUNTER \div 2

\* intel_peci_energy_delta_to_watts for dt > 0: millijoules, milliwatts, watts.
ToWatts(prev, now, dt, unit) ==
  LET energy_mj == (Delta(prev, now) * 1000) \div 2^unit
      p_mw      == (energy_mj * 1000) \div dt
  IN  ToInt(p_mw \div 1000)

(***************************************************************************)
(* sample_fetch                                                            *)
(***************************************************************************)

\* The lazy read of Tjmax; a failure is the only one that ends the fetch.
Tjmax(answer) ==
  IF tjmax_dc > 0 THEN tjmax_dc
  ELSE IF DT_TJMAX < 0 THEN answer
  ELSE DT_TJMAX

KeepOld(new, old) == IF new = Fail THEN old ELSE new

\* Fault: the margin is computed behind the if.
MarginAnyway(d) == tjmax_dc' - (IF d = Fail THEN 0 ELSE d)

MarginOf(d) == IF d = Fail THEN margin_dc ELSE tjmax_dc' - d

\* Power of the rails whose reading succeeded, then the new first shot.
FetchEnergy(good) ==
  LET measured == IF eu' > 0 THEN good ELSE {}
      now(r)   == read_energy(energy[r])
      dt(r)    == uptime - time_prev_ms[r]
  IN /\ watts' = [r \in Rail |->
          IF r \in measured /\ valid[r] /\ dt(r) > 0
          THEN ToWatts(energy_prev[r], now(r), dt(r), eu')
          ELSE watts[r]]
     /\ energy_prev' = [r \in Rail |-> IF r \in measured THEN now(r) ELSE energy_prev[r]]
     /\ time_prev_ms' = [r \in Rail |-> IF r \in measured THEN uptime ELSE time_prev_ms[r]]
     /\ valid' = [r \in Rail |-> valid[r] \/ r \in measured]
     /\ shots' = [r \in Rail |->
          IF r \in measured
          THEN <<shots[r][2], [at |-> uptime, used |-> energy[r], known |-> TRUE]>>
          ELSE shots[r]]

sample_fetch ==
  \E tj \in TjmaxReadings \cup {Fail}, r \in RawReadings \cup {Fail},
     unit \in {EU, Fail}, good \in SUBSET Rail,
     dimm \in (DimmReadings \X DimmReadings) \cup {Fail} :
    /\ Tjmax(tj) # Fail
    /\ tjmax_dc' = Tjmax(tj)
    /\ LET d == read_dts(r, tjmax_dc') IN
       /\ dts_dc' = KeepOld(d, dts_dc)
       /\ margin_dc' = MarginOf(d)
    /\ raw' = r
    /\ eu' = IF eu = 0 THEN read_power_units(unit) ELSE eu
    /\ FetchEnergy(good)
    /\ dimm_dc' = [channel \in 1..2 |->
                    KeepOld(read_dimm_temps(dimm)[channel], dimm_dc[channel])]
    /\ UNCHANGED <<uptime, energy>>

\* intel_peci_channel_get: the value hwmon_i2c reads for a rail.
channel_get(chan, rail) ==
  CASE chan = "AMBIENT_TEMP" /\ rail = 0 -> dts_dc
    [] chan = "AMBIENT_TEMP" /\ rail = 1 -> margin_dc
    [] chan = "AMBIENT_TEMP" /\ rail = 2 -> dimm_dc[1]
    [] chan = "AMBIENT_TEMP" /\ rail = 3 -> dimm_dc[2]
    [] chan = "POWER" /\ rail = 0 -> watts["pkg"]
    [] chan = "POWER" /\ rail = 1 -> watts["dram"]
    [] OTHER -> 0

(***************************************************************************)
(* Specification                                                           *)
(***************************************************************************)

\* Time passes and the rails use energy.
Advance ==
  /\ \E ms \in TimeSteps, e \in [Rail -> EnergySteps] :
       /\ uptime + ms <= MaxTime
       /\ uptime' = uptime + ms
       /\ energy' = [r \in Rail |-> energy[r] + e[r]]
  /\ UNCHANGED data

Init ==
  /\ tjmax_dc = IF DT_TJMAX > 0 THEN DT_TJMAX ELSE 0
  /\ dts_dc = 0 /\ margin_dc = 0 /\ dimm_dc = <<0, 0>>
  /\ eu = 0
  /\ watts = [r \in Rail |-> 0]
  /\ valid = [r \in Rail |-> FALSE]
  /\ energy_prev = [r \in Rail |-> 0]
  /\ time_prev_ms = [r \in Rail |-> 0]
  /\ uptime = 0
  /\ energy \in [Rail -> {0, COUNTER - 1}]
  /\ shots = [r \in Rail |-> <<[at |-> 0, used |-> 0, known |-> FALSE],
                               [at |-> 0, used |-> 0, known |-> FALSE]>>]
  /\ raw = Fail

Next == sample_fetch \/ Advance

Spec == Init /\ [][Next]_vars

(***************************************************************************)
(* Properties                                                              *)
(***************************************************************************)

\* Unsigned subtraction "gives the right positive delta automatically"
\* (intel_peci.c:438): the power shown is the average of the energy really used
\* between the last two successful readings, over failed readings in between,
\* rails that fail independently, two roundings and the wrap of the counter, as
\* long as the counter has not gone round and an int holds the average.
PowerIsAverage ==
  \A r \in Rail :
    LET first   == shots[r][1]
        last    == shots[r][2]
        used    == last.used - first.used
        average == (used * 1000) \div (2^eu * (last.at - first.at))
    IN  first.known /\ last.at > first.at /\ used < COUNTER /\ average < COUNTER \div 2
        => channel_get("POWER", IF r = "pkg" THEN 0 ELSE 1) = average

\* Temperature and margin shown belong together: they add up to Tjmax once a
\* temperature has been read, although both reads may fail in any order.
MarginMatches ==
  LET dts == channel_get("AMBIENT_TEMP", 0)
      margin == channel_get("AMBIENT_TEMP", 1)
  IN  dts + margin = tjmax_dc \/ (dts = 0 /\ margin = 0)

\* "GetTemp0 returns the actual die temperature. The raw two bytes are
\* sign-extended 16-bit (...), and added to Tjmax to give degC"
\* (intel_peci.c:248): a temperature the CPU delivered is the one shown.
ShowsWhatTheCpuSaid ==
  raw # Fail /\ raw \in -32767..-1 => dts_dc = raw \div 64 + tjmax_dc
=============================================================================
