---------------------------- MODULE Sensors_proofs ----------------------------
(***************************************************************************)
(* Proofs about the sensors behind hwmon_i2c: the power and the margin of  *)
(* intel_peci.c for every width of the counter, every energy unit, every   *)
(* time between two readings and every transfer that fails, and the values *)
(* of the simulated sensors at every uptime.                               *)
(*                                                                         *)
(* The power is an average over two readings, so that its invariant has to *)
(* say what the driver keeps of the last one (ShotsInv); the margin needs  *)
(* that Tjmax does not change any more once it is known (TjmaxInv).        *)
(***************************************************************************)
EXTENDS MCSensors, TLAPS

(***************************************************************************)
(* Division                                                                *)
(***************************************************************************)

LEMMA TimesMonotone ==
  ASSUME NEW a \in Int, NEW b \in Int, NEW c \in Nat, a <= b
  PROVE  c * a <= c * b
BY SMT

LEMMA DivProps ==
  ASSUME NEW x \in Int, NEW m \in Nat \ {0}
  PROVE  /\ x \div m \in Int
         /\ m * (x \div m) <= x
         /\ x < m * (x \div m + 1)
BY SMT

LEMMA DivUnique ==
  ASSUME NEW x \in Int, NEW m \in Nat \ {0}, NEW q \in Int, m * q <= x, x < m * (q + 1)
  PROVE  x \div m = q
<1> DEFINE p == x \div m
<1>1. p \in Int /\ m * p <= x /\ x < m * (p + 1)
  BY DivProps
<1> HIDE DEF p
<1>2. m * q \in Int /\ m * p \in Int /\ m * (q + 1) \in Int /\ m * (p + 1) \in Int
  BY <1>1
<1>3. ~ (q + 1 <= p)
  <2>1. q + 1 <= p => m * (q + 1) <= m * p
    BY <1>1, TimesMonotone
  <2>2. QED
    BY <1>1, <1>2, <2>1
<1>4. ~ (p + 1 <= q)
  <2>1. p + 1 <= q => m * (p + 1) <= m * q
    BY <1>1, TimesMonotone
  <2>2. QED
    BY <1>1, <1>2, <2>1
<1>5. p = q
  BY <1>1, <1>3, <1>4
<1>6. QED
  BY <1>5 DEF p

\* Joules to millijoules, milliwatts and watts: the roundings come to one.
LEMMA NestedDivision ==
  ASSUME NEW x \in Nat, NEW e \in Nat \ {0}, NEW d \in Nat \ {0}
  PROVE  (((x \div e) * 1000) \div d) \div 1000 = x \div (e * d)
<1> DEFINE mj == x \div e
           mw == (mj * 1000) \div d
           w  == mw \div 1000
<1>1. mj \in Int /\ e * mj <= x /\ x < e * (mj + 1)
  BY DivProps
<1>2. mw \in Int /\ d * mw <= mj * 1000 /\ mj * 1000 < d * (mw + 1)
  <2>1. mj * 1000 \in Int
    BY <1>1
  <2>2. QED
    BY <2>1, DivProps
<1>3. w \in Int /\ 1000 * w <= mw /\ mw < 1000 * (w + 1)
  BY <1>2, DivProps
<1> HIDE DEF mj, mw, w
<1>4. d * w \in Int /\ d * w <= mj
  <2>1. d * (1000 * w) <= d * mw
    BY <1>2, <1>3, TimesMonotone
  <2>2. d * (1000 * w) = 1000 * (d * w) /\ d * w \in Int /\ d * mw \in Int
    BY <1>2, <1>3
  <2>3. QED
    BY <1>1, <1>2, <2>1, <2>2
<1>5. d * (w + 1) \in Int /\ mj + 1 <= d * (w + 1)
  <2>1. mw + 1 <= 1000 * (w + 1)
    BY <1>2, <1>3
  <2>2. d * (mw + 1) <= d * (1000 * (w + 1))
    BY <1>2, <1>3, <2>1, TimesMonotone
  <2>3. /\ d * (1000 * (w + 1)) = 1000 * (d * (w + 1))
        /\ d * (w + 1) \in Int /\ d * (mw + 1) \in Int
    BY <1>2, <1>3
  <2>4. mj * 1000 < 1000 * (d * (w + 1))
    BY <1>1, <1>2, <2>2, <2>3
  <2>5. QED
    BY <1>1, <2>3, <2>4
<1>6. e * (d * w) <= x
  <2>1. e * (d * w) <= e * mj
    BY <1>1, <1>4, TimesMonotone
  <2>2. e * (d * w) \in Int /\ e * mj \in Int
    BY <1>1, <1>4
  <2>3. QED
    BY <1>1, <2>1, <2>2
<1>7. x < e * (d * (w + 1))
  <2>1. e * (mj + 1) <= e * (d * (w + 1))
    BY <1>1, <1>5, TimesMonotone
  <2>2. e * (d * (w + 1)) \in Int /\ e * (mj + 1) \in Int
    BY <1>1, <1>5
  <2>3. QED
    BY <1>1, <2>1, <2>2
<1>8. e * d \in Nat \ {0} /\ (e * d) * w <= x /\ x < (e * d) * (w + 1)
  <2>1. (e * d) * w = e * (d * w) /\ (e * d) * (w + 1) = e * (d * (w + 1))
    BY <1>3
  <2>2. e * d \in Nat \ {0}
    BY SMT
  <2>3. QED
    BY <1>6, <1>7, <2>1, <2>2
<1>9. x \div (e * d) = w
  BY <1>3, <1>8, DivUnique
<1>10. QED
  BY <1>9 DEF w, mw, mj

\* The unsigned difference of two readings of a counter that has wrapped at most once.
LEMMA DifferenceOfCounts ==
  ASSUME NEW a \in Nat, NEW b \in Nat, NEW m \in Nat \ {0}, a <= b, b - a < m
  PROVE  ((b % m) - (a % m)) % m = b - a
<1> DEFINE ra == a % m
           rb == b % m
           k  == b \div m - a \div m
<1>1. ra \in 0..(m - 1) /\ rb \in 0..(m - 1) /\ k \in Int
  BY DivProps
<1>2. a = m * (a \div m) + ra /\ b = m * (b \div m) + rb
  BY SMT
<1>3. b - a = m * k + (rb - ra)
  <2>1. m * k = m * (b \div m) - m * (a \div m)
    BY DivProps
  <2>2. a \div m \in Int /\ b \div m \in Int
    BY DivProps
  <2>3. m * (b \div m) \in Int /\ m * (a \div m) \in Int
    BY <2>2
  <2> HIDE DEF ra, rb, k
  <2>4. QED
    BY <1>1, <1>2, <2>1, <2>3
<1> HIDE DEF ra, rb, k
<1>4. m * k \in Int
  BY <1>1
<1>5. k = 0 \/ k = 1
  <2>1. ~ (2 <= k)
    <3>1. 2 <= k => m * 2 <= m * k
      BY <1>1, TimesMonotone
    <3>2. QED
      BY <1>1, <1>3, <1>4, <3>1
  <2>2. ~ (k <= -1)
    <3>1. k <= -1 => m * k <= m * (-1)
      BY <1>1, TimesMonotone
    <3>2. QED
      BY <1>1, <1>3, <1>4, <3>1
  <2>3. QED
    BY <1>1, <2>1, <2>2
<1>6. CASE k = 0
  <2>1. rb - ra = b - a
    BY <1>1, <1>3, <1>6
  <2>2. (rb - ra) % m = b - a
    BY <2>1
  <2>3. QED
    BY <2>2 DEF ra, rb
<1>7. CASE k = 1
  <2>1. rb - ra = b - a - m
    BY <1>1, <1>3, <1>7
  <2>2. (b - a - m) % m = b - a
    BY SMT
  <2>3. QED
    BY <2>1, <2>2 DEF ra, rb
<1>8. QED
  BY <1>5, <1>6, <1>7

(***************************************************************************)
(* Power                                                                   *)
(***************************************************************************)

Shot == [at : Nat, used : Nat, known : BOOLEAN]

PowerTypeOK ==
  /\ uptime \in Nat
  /\ energy \in [Rail -> Nat]
  /\ eu \in {0, EU}
  /\ valid \in [Rail -> BOOLEAN]
  /\ shots \in [Rail -> Shot \X Shot]

\* What the driver keeps of the last reading, and that a rail has been read only
\* with an energy unit.
ShotsInv ==
  \A r \in Rail :
    /\ shots[r][1].at <= shots[r][2].at /\ shots[r][2].at <= uptime
    /\ shots[r][1].used <= shots[r][2].used /\ shots[r][2].used <= energy[r]
    /\ shots[r][1].known => eu > 0
    /\ shots[r][2].known => eu > 0
    /\ valid[r] = shots[r][2].known
    /\ valid[r] => /\ energy_prev[r] = read_energy(shots[r][2].used)
                   /\ time_prev_ms[r] = shots[r][2].at

Average(first, last, unit) ==
  ((last.used - first.used) * 1000) \div (2^unit * (last.at - first.at))

\* The rails shown are averages over the last two readings.
WattsInv ==
  \A r \in Rail :
    /\ shots[r][1].known
    /\ shots[r][2].at > shots[r][1].at
    /\ shots[r][2].used - shots[r][1].used < COUNTER
    => watts[r] = ToInt(Average(shots[r][1], shots[r][2], eu))

PowerInv == PowerTypeOK /\ ShotsInv /\ WattsInv

LEMMA WattsAreAverage ==
  ASSUME NEW first \in Shot, NEW last \in Shot, first.at < last.at,
         first.used <= last.used, last.used - first.used < COUNTER
  PROVE  ToWatts(read_energy(first.used), read_energy(last.used), last.at - first.at, EU)
           = ToInt(Average(first, last, EU))
<1> DEFINE used == last.used - first.used
           dt   == last.at - first.at
           e    == 2^EU
<1>1. COUNTER \in Nat \ {0} /\ e \in Nat \ {0}
  BY EnergyAssumption
<1>2. /\ first.used \in Nat /\ last.used \in Nat
      /\ used * 1000 \in Nat /\ dt \in Nat \ {0}
  BY DEF Shot
<1>3. Delta(read_energy(first.used), read_energy(last.used)) = used
  BY <1>1, <1>2, DifferenceOfCounts DEF Delta, read_energy
<1> HIDE DEF used, dt, e
<1>4. ((((used * 1000) \div e) * 1000) \div dt) \div 1000 = (used * 1000) \div (e * dt)
  BY <1>1, <1>2, NestedDivision
<1>5. ToWatts(read_energy(first.used), read_energy(last.used), dt, EU)
        = ToInt(((((used * 1000) \div e) * 1000) \div dt) \div 1000)
  BY <1>3 DEF ToWatts, e
<1>6. QED
  BY <1>4, <1>5 DEF Average, used, dt, e

\* The cast keeps what an int holds.
LEMMA IntHolds ==
  ASSUME NEW x \in Nat, x < COUNTER \div 2
  PROVE  ToInt(x) = x
<1> DEFINE half == COUNTER \div 2
<1>1. COUNTER \in Nat \ {0} /\ half \in Nat /\ 2 * half <= COUNTER
  BY EnergyAssumption
<1> HIDE DEF half
<1>2. x + half \in 0..(COUNTER - 1)
  BY <1>1 DEF half
<1>3. (x + half) % COUNTER = x + half
  BY <1>1, <1>2
<1>4. QED
  BY <1>1, <1>3 DEF ToInt, half

\* An average is a natural number.
LEMMA AverageIsNat ==
  ASSUME NEW first \in Shot, NEW last \in Shot, first.at < last.at,
         first.used <= last.used
  PROVE  Average(first, last, EU) \in Nat
<1> DEFINE used == (last.used - first.used) * 1000
           dt   == last.at - first.at
           e    == 2^EU
<1>1. used \in Nat /\ dt \in Nat \ {0} /\ e \in Nat \ {0}
  BY EnergyAssumption DEF Shot
<1> HIDE DEF used, dt, e
<1>2. e * dt \in Nat \ {0}
  BY <1>1
<1> DEFINE d == e * dt
<1> HIDE DEF d
<1>3. used \div d \in Nat
  BY <1>1, <1>2 DEF d
<1>4. QED
  BY <1>3 DEF Average, used, dt, e, d

LEMMA FetchKeepsPower ==
  ASSUME PowerInv, sample_fetch
  PROVE  PowerInv'
<1>1. /\ UNCHANGED <<uptime, energy>>
      /\ \E unit \in {EU, Fail} : eu' = IF eu = 0 THEN read_power_units(unit) ELSE eu
  BY DEF sample_fetch
<1>2. eu' \in {0, EU} /\ (eu > 0 => eu' = eu) /\ EU \in Nat
  BY <1>1, EnergyAssumption DEF PowerInv, PowerTypeOK, read_power_units
<1>3. PICK good \in SUBSET Rail : FetchEnergy(good)
  BY DEF sample_fetch
<1> DEFINE measured == IF eu' > 0 THEN good ELSE {}
           new(r)   == [at |-> uptime, used |-> energy[r], known |-> TRUE]
<1>4. ASSUME NEW r \in Rail, r \in measured
      PROVE  /\ eu' > 0 /\ eu' = EU
             /\ watts'[r] = (IF valid[r] /\ uptime - time_prev_ms[r] > 0
                             THEN ToWatts(energy_prev[r], read_energy(energy[r]),
                                          uptime - time_prev_ms[r], eu')
                             ELSE watts[r])
             /\ energy_prev'[r] = read_energy(energy[r])
             /\ time_prev_ms'[r] = uptime
             /\ valid'[r]
             /\ shots'[r] = <<shots[r][2], new(r)>>
  <2>1. eu' > 0 /\ eu' = EU /\ r \in good
    BY <1>2, <1>4
  <2>2. /\ watts'[r] = (IF valid[r] /\ uptime - time_prev_ms[r] > 0
                        THEN ToWatts(energy_prev[r], read_energy(energy[r]),
                                     uptime - time_prev_ms[r], eu')
                        ELSE watts[r])
        /\ energy_prev'[r] = read_energy(energy[r])
        /\ time_prev_ms'[r] = uptime
    BY <1>3, <2>1 DEF FetchEnergy
  <2>3. valid'[r] /\ shots'[r] = <<shots[r][2], new(r)>>
    BY <1>3, <2>1 DEF FetchEnergy
  <2>4. QED
    BY <2>1, <2>2, <2>3
<1>5. ASSUME NEW r \in Rail, r \notin measured
      PROVE  /\ watts'[r] = watts[r] /\ energy_prev'[r] = energy_prev[r]
             /\ time_prev_ms'[r] = time_prev_ms[r] /\ valid'[r] = valid[r]
             /\ shots'[r] = shots[r]
  BY <1>3, <1>5 DEF FetchEnergy, PowerInv, PowerTypeOK
<1>6. /\ valid' = [r \in Rail |-> valid[r] \/ r \in measured]
      /\ shots' = [r \in Rail |-> IF r \in measured THEN <<shots[r][2], new(r)>> ELSE shots[r]]
  BY <1>3 DEF FetchEnergy
<1>7. \A r \in Rail : /\ new(r) \in Shot /\ shots[r] \in Shot \X Shot
                      /\ shots[r][1] \in Shot /\ shots[r][2] \in Shot
  BY DEF Shot, PowerInv, PowerTypeOK
<1> HIDE DEF measured, new
<1>8. PowerTypeOK'
  <2>1. valid' \in [Rail -> BOOLEAN]
    BY <1>6 DEF PowerInv, PowerTypeOK
  <2>2. shots' \in [Rail -> Shot \X Shot]
    BY <1>6, <1>7
  <2>3. QED
    BY <1>1, <1>2, <2>1, <2>2 DEF PowerInv, PowerTypeOK
<1>9. ASSUME NEW r \in Rail, r \in measured
      PROVE  /\ shots'[r][1] = shots[r][2]
             /\ shots'[r][2] = new(r) /\ new(r).at = uptime /\ new(r).used = energy[r]
             /\ new(r).known
  <2>1. new(r).at = uptime /\ new(r).used = energy[r] /\ new(r).known
    BY DEF new
  <2>2. shots'[r] = <<shots[r][2], new(r)>>
    BY <1>4, <1>9
  <2>3. QED
    BY <2>1, <2>2
<1>10. ShotsInv'
  <2> SUFFICES ASSUME NEW r \in Rail
               PROVE  /\ shots'[r][1].at <= shots'[r][2].at /\ shots'[r][2].at <= uptime
                      /\ shots'[r][1].used <= shots'[r][2].used
                      /\ shots'[r][2].used <= energy[r]
                      /\ shots'[r][1].known => eu' > 0
                      /\ shots'[r][2].known => eu' > 0
                      /\ valid'[r] = shots'[r][2].known
                      /\ valid'[r] => /\ energy_prev'[r] = read_energy(shots'[r][2].used)
                                      /\ time_prev_ms'[r] = shots'[r][2].at
    BY <1>1 DEF ShotsInv, read_energy
  <2>1. CASE r \in measured
    <3>1. uptime <= uptime /\ energy[r] <= energy[r]
      BY DEF PowerInv, PowerTypeOK
    <3>2. /\ shots'[r][1] = shots[r][2] /\ shots'[r][2].at = uptime
          /\ shots'[r][2].used = energy[r] /\ shots'[r][2].known
      BY <2>1, <1>9
    <3>3. shots[r][2].at <= uptime /\ shots[r][2].used <= energy[r]
      BY DEF PowerInv, ShotsInv
    <3>4. eu' > 0 /\ valid'[r] = TRUE /\ shots'[r][2].known = TRUE
      <4>1. valid'[r] \in BOOLEAN /\ shots'[r][2].known \in BOOLEAN
        BY <1>8 DEF PowerTypeOK, Shot
      <4>2. QED
        BY <2>1, <3>2, <4>1, <1>4
    <3>5. energy_prev'[r] = read_energy(energy[r]) /\ time_prev_ms'[r] = uptime
      BY <2>1, <1>4
    <3>6. QED
      BY <3>1, <3>2, <3>3, <3>4, <3>5
  <2>2. CASE r \notin measured
    BY <2>2, <1>2, <1>5 DEF PowerInv, ShotsInv
  <2>3. QED
    BY <2>1, <2>2
<1>11. ASSUME NEW r \in Rail, shots'[r][1].known, shots'[r][2].at > shots'[r][1].at,
              shots'[r][2].used - shots'[r][1].used < COUNTER
       PROVE  watts'[r] = ToInt(Average(shots'[r][1], shots'[r][2], eu'))
  <2>1. CASE r \in measured
    <3> DEFINE first == shots[r][2]
    <3>1. /\ shots'[r][1] = first /\ shots'[r][2] = new(r)
          /\ new(r).at = uptime /\ new(r).used = energy[r]
      BY <2>1, <1>9
    <3>2. /\ valid[r] /\ time_prev_ms[r] = first.at
          /\ energy_prev[r] = read_energy(first.used)
          /\ first.used <= new(r).used
      BY <3>1, <1>11 DEF PowerInv, ShotsInv
    <3>3. first \in Shot /\ new(r) \in Shot
      BY <1>7
    <3>4. first.at < new(r).at /\ new(r).used - first.used < COUNTER
      BY <3>1, <3>3, <1>11 DEF Shot
    <3> HIDE DEF first
    <3>5. uptime - first.at > 0
      BY <3>1, <3>3, <3>4 DEF Shot
    <3>6. watts'[r] = ToWatts(read_energy(first.used), read_energy(new(r).used),
                              new(r).at - first.at, EU)
      BY <2>1, <3>1, <3>2, <3>5, <1>4
    <3>7. watts'[r] = ToInt(Average(first, new(r), EU))
      BY <3>2, <3>3, <3>4, <3>6, WattsAreAverage
    <3>8. QED
      BY <2>1, <3>1, <3>7, <1>4
  <2>2. CASE r \notin measured
    <3>1. shots'[r] = shots[r] /\ watts'[r] = watts[r]
      BY <2>2, <1>5
    <3>2. watts[r] = ToInt(Average(shots[r][1], shots[r][2], eu)) /\ eu > 0
      BY <3>1, <1>11 DEF PowerInv, WattsInv, ShotsInv
    <3>3. QED
      BY <3>1, <3>2, <1>2
  <2>3. QED
    BY <2>1, <2>2
<1>12. WattsInv'
  BY <1>11 DEF WattsInv, Average, ToInt
<1>13. QED
  BY <1>8, <1>10, <1>12 DEF PowerInv

LEMMA PowerInvHolds ==
  Spec => []PowerInv
<1>1. Init => PowerInv
  <2> SUFFICES ASSUME Init PROVE PowerInv
    OBVIOUS
  <2>1. /\ \A r \in Rail : /\ shots[r][1] = [at |-> 0, used |-> 0, known |-> FALSE]
                           /\ shots[r][2] = [at |-> 0, used |-> 0, known |-> FALSE]
                           /\ valid[r] = FALSE
        /\ shots \in [Rail -> Shot \X Shot] /\ valid \in [Rail -> BOOLEAN]
    BY DEF Init, Shot
  <2>2. energy \in [Rail -> Nat] /\ uptime = 0 /\ eu = 0
    BY EnergyAssumption DEF Init
  <2>3. PowerTypeOK
    BY <2>1, <2>2 DEF PowerTypeOK
  <2>4. ShotsInv
    <3>1. \A r \in Rail : energy[r] >= 0
      BY <2>2
    <3>2. \A r \in Rail : /\ shots[r][1].at = 0 /\ shots[r][1].used = 0
                          /\ shots[r][2].at = 0 /\ shots[r][2].used = 0
                          /\ shots[r][1].known = FALSE /\ shots[r][2].known = FALSE
      BY <2>1
    <3>3. \A r \in Rail : valid[r] = FALSE /\ valid[r] = shots[r][2].known
      BY <2>1, <3>2, Zenon
    <3>4. uptime = 0
      BY <2>2
    <3>5. QED
      BY <3>1, <3>2, <3>3, <3>4 DEF ShotsInv
  <2>5. WattsInv
    BY <2>1 DEF WattsInv
  <2>6. QED
    BY <2>3, <2>4, <2>5 DEF PowerInv
<1>2. PowerInv /\ [Next]_vars => PowerInv'
  <2> SUFFICES ASSUME PowerInv, [Next]_vars PROVE PowerInv'
    OBVIOUS
  <2>1. CASE Advance
    <3>1. UNCHANGED <<eu, watts, valid, energy_prev, time_prev_ms, shots>>
      BY <2>1 DEF Advance, data
    <3>2. PICK ms \in TimeSteps, e \in [Rail -> EnergySteps] :
            uptime' = uptime + ms /\ energy' = [r \in Rail |-> energy[r] + e[r]]
      BY <2>1 DEF Advance
    <3>3. ms \in Nat /\ \A r \in Rail : e[r] \in Nat /\ energy[r] \in Nat
      BY EnergyAssumption DEF PowerInv, PowerTypeOK
    <3>4. uptime' \in Nat /\ uptime <= uptime' /\ energy' \in [Rail -> Nat]
      BY <3>2, <3>3 DEF PowerInv, PowerTypeOK
    <3>5. \A r \in Rail : energy'[r] \in Nat /\ energy[r] <= energy'[r]
      BY <3>2, <3>3
    <3>6. PowerTypeOK'
      BY <3>1, <3>4 DEF PowerInv, PowerTypeOK
    <3>7. ShotsInv'
      <4>1. \A r \in Rail : shots[r][2].at \in Nat /\ shots[r][2].used \in Nat
        BY DEF PowerInv, PowerTypeOK, Shot
      <4>2. \A r \in Rail : shots[r][2].at <= uptime' /\ shots[r][2].used <= energy'[r]
        BY <3>3, <3>4, <3>5, <4>1 DEF PowerInv, PowerTypeOK, ShotsInv
      <4>3. QED
        BY <3>1, <4>2 DEF PowerInv, ShotsInv, read_energy
    <3>8. WattsInv'
      BY <3>1 DEF PowerInv, WattsInv, Average, ToInt
    <3>9. QED
      BY <3>6, <3>7, <3>8 DEF PowerInv
  <2>2. CASE UNCHANGED vars
    BY <2>2 DEF vars, data, PowerInv, PowerTypeOK, ShotsInv, WattsInv, read_energy, Average,
            ToInt
  <2>3. QED
    BY <2>1, <2>2, FetchKeepsPower DEF Next
<1>3. QED
  BY <1>1, <1>2, PTL DEF Spec

\* The power shown is the average of the energy really used between the last two
\* successful readings, for every counter width, energy unit and time between
\* them: over failures, two roundings, the wrap of the counter and the cast.
THEOREM PowerShownIsAverage ==
  Spec => []PowerIsAverage
<1>1. PowerInv => PowerIsAverage
  <2> SUFFICES ASSUME PowerInv, NEW r \in Rail,
                      shots[r][1].known, shots[r][2].at > shots[r][1].at,
                      shots[r][2].used - shots[r][1].used < COUNTER,
                      Average(shots[r][1], shots[r][2], eu) < COUNTER \div 2
               PROVE  channel_get("POWER", IF r = "pkg" THEN 0 ELSE 1)
                        = Average(shots[r][1], shots[r][2], eu)
    BY DEF PowerIsAverage, Average
  <2>1. watts[r] = ToInt(Average(shots[r][1], shots[r][2], eu))
    BY DEF PowerInv, WattsInv
  <2>2. /\ shots[r][1] \in Shot /\ shots[r][2] \in Shot
        /\ shots[r][1].at < shots[r][2].at /\ shots[r][1].used <= shots[r][2].used
        /\ eu = EU
    BY EnergyAssumption DEF PowerInv, PowerTypeOK, ShotsInv, Shot
  <2>3. watts[r] = Average(shots[r][1], shots[r][2], eu)
    BY <2>1, <2>2, AverageIsNat, IntHolds
  <2>4. channel_get("POWER", IF r = "pkg" THEN 0 ELSE 1) = watts[r]
    BY DEF channel_get, Rail
  <2>5. QED
    BY <2>3, <2>4
<1>2. QED
  BY <1>1, PowerInvHolds, PTL

(***************************************************************************)
(* Temperature and margin                                                  *)
(***************************************************************************)

\* A CPU that answers has a Tjmax.  (After an answer of 0 Tjmax would be read
\* again, and the margin shown would belong to the old one.)
CpuHasTjmax == 0 \notin TjmaxReadings

\* Tjmax is known for good, or nothing has been shown yet.
TjmaxInv ==
  \/ tjmax_dc > 0
  \/ tjmax_dc = 0 /\ DT_TJMAX = 0
  \/ dts_dc = 0 /\ margin_dc = 0

MarginInv ==
  /\ tjmax_dc \in Int /\ dts_dc \in Int /\ margin_dc \in Int
  /\ TjmaxInv
  /\ dts_dc + margin_dc = tjmax_dc \/ (dts_dc = 0 /\ margin_dc = 0)

LEMMA FetchKeepsMargin ==
  ASSUME CpuHasTjmax, MarginInv, sample_fetch
  PROVE  MarginInv'
<1>1. /\ Fail \notin Int /\ RawReadings \subseteq Int
      /\ DT_TJMAX \in Int
  <2>1. DT_TJMAX \in Int
    BY TjmaxAssumption
  <2>2. QED
    BY <2>1, ReadingsAssumption
<1>2. PICK tj \in TjmaxReadings \cup {Fail}, r \in RawReadings \cup {Fail} :
        /\ Tjmax(tj) # Fail
        /\ tjmax_dc' = Tjmax(tj)
        /\ dts_dc' = KeepOld(read_dts(r, tjmax_dc'), dts_dc)
        /\ margin_dc' = MarginOf(read_dts(r, tjmax_dc'))
  BY DEF sample_fetch
<1>3. /\ tjmax_dc' \in Int
      /\ tjmax_dc > 0 => tjmax_dc' = tjmax_dc
      /\ DT_TJMAX = 0 /\ tjmax_dc = 0 => tjmax_dc' = 0
      /\ tjmax_dc' > 0 \/ (tjmax_dc' = 0 /\ DT_TJMAX = 0)
  <2>1. tj # Fail => tj \in Nat \ {0}
    BY AnswersAssumption DEF CpuHasTjmax
  <2>2. QED
    BY <1>1, <1>2, <2>1 DEF Tjmax, MarginInv
<1> DEFINE d == read_dts(r, tjmax_dc')
<1>4. d = Fail \/ d \in Int
  <2>1. r # Fail => r \in Int
    BY <1>1, Zenon
  <2>2. r # Fail => StripAndExtend(r) \in Int
    BY <2>1 DEF StripAndExtend
  <2>3. QED
    BY <1>3, <2>2 DEF read_dts
<1>5. dts_dc' = KeepOld(d, dts_dc) /\ margin_dc' = MarginOf(d)
  BY <1>2
<1> HIDE DEF d
<1>6. CASE d = Fail
  <2>1. dts_dc' = dts_dc /\ margin_dc' = margin_dc
    BY <1>5, <1>6 DEF KeepOld, MarginOf
  <2>2. QED
    BY <1>3, <2>1 DEF MarginInv, TjmaxInv
<1>7. CASE d \in Int
  <2>1. dts_dc' = d /\ margin_dc' = tjmax_dc' - d
    BY <1>1, <1>5, <1>7 DEF KeepOld, MarginOf
  <2>2. dts_dc' + margin_dc' = tjmax_dc' /\ margin_dc' \in Int
    <3>1. \A a, b \in Int : b + (a - b) = a /\ a - b \in Int
      BY SMT
    <3>2. QED
      BY <1>3, <1>7, <2>1, <3>1, Zenon
  <2>3. QED
    BY <1>3, <1>7, <2>1, <2>2 DEF MarginInv, TjmaxInv
<1>8. QED
  BY <1>4, <1>6, <1>7

\* Temperature and margin shown belong together, whichever reads fail.
THEOREM MarginBelongs ==
  CpuHasTjmax => (Spec => []MarginMatches)
<1> SUFFICES ASSUME CpuHasTjmax PROVE Spec => []MarginMatches
  OBVIOUS
<1>1. Init => MarginInv
  <2>1. DT_TJMAX \in Int
    BY TjmaxAssumption
  <2>2. QED
    BY <2>1 DEF Init, MarginInv, TjmaxInv
<1>2. MarginInv /\ [Next]_vars => MarginInv'
  <2> SUFFICES ASSUME MarginInv, [Next]_vars PROVE MarginInv'
    OBVIOUS
  <2>1. CASE UNCHANGED <<tjmax_dc, dts_dc, margin_dc>>
    BY <2>1 DEF MarginInv, TjmaxInv
  <2>2. QED
    BY <2>1, FetchKeepsMargin DEF Next, Advance, vars, data
<1>3. MarginInv => MarginMatches
  BY DEF MarginInv, MarginMatches, channel_get
<1>4. QED
  BY <1>1, <1>2, <1>3, PTL DEF Spec

(***************************************************************************)
(* The simulated sensors                                                   *)
(***************************************************************************)

Base(d) == IF d = "temp" THEN 25000 ELSE 0

FakeInv ==
  /\ device \in {"temp", "psu", "peci"}
  /\ seconds \in Nat
  /\ sample - Base(device) \in 0..99 /\ sample \in Nat

\* What the values are computed from is a whole number of seconds below 100.
LEMMA TicksAreSensible ==
  ASSUME FakeInv
  PROVE  ReadingsAreSensible
<1>1. CASE device = "temp"
  BY <1>1 DEF FakeInv, Base, ReadingsAreSensible, Fake!ReadingsAreSensible, Fake!channel_get
<1>2. CASE device = "psu"
  <2>1. sample \in 0..99 /\ Fake!Drift(sample) \in -50..49
    BY <1>2 DEF FakeInv, Base, Fake!Drift
  <2>2. \A chan, rail : /\ Fake!channel_get(chan, rail) = Fake!psu_channel_get(chan, rail)
                        /\ Fake!psu_channel_get(chan, rail) >= 0
    BY <1>2, <2>1 DEF Fake!channel_get, Fake!psu_channel_get
  <2>3. /\ Fake!psu_channel_get("VOLTAGE", 0) > Fake!psu_channel_get("VOLTAGE", 2)
        /\ Fake!psu_channel_get("POWER", 1) > Fake!psu_channel_get("POWER", 2)
    BY <2>1 DEF Fake!psu_channel_get
  <2>4. QED
    BY <1>2, <2>2, <2>3 DEF ReadingsAreSensible, Fake!ReadingsAreSensible
<1>3. CASE device = "peci"
  <2> DEFINE drift == Fake!Drift(sample)
  <2>1. drift \in -50..49
    BY <1>3 DEF FakeInv, Base, Fake!Drift
  <2> HIDE DEF drift
  <2>2. /\ Fake!Quotient(drift, 3) \in -16..16
        /\ Fake!Quotient(drift, 5) \in -10..9
        /\ Fake!Quotient(drift, 8) \in -6..6
        /\ Fake!Quotient(drift, 10) \in -5..4
        /\ 45 + Fake!Quotient(drift, 5) > 35 + Fake!Quotient(drift, 8)
    BY <2>1 DEF Fake!Quotient
  <2>3. \A chan, rail :
          /\ Fake!channel_get(chan, rail) = Fake!peci_channel_get(chan, rail)
          /\ rail \in 0..3 => Fake!peci_channel_get(chan, rail) >= 0
    BY <1>3, <2>2 DEF Fake!channel_get, Fake!peci_channel_get, drift
  <2>4. /\ Fake!peci_channel_get("TEMP", 0) > Fake!peci_channel_get("TEMP", 2)
        /\ Fake!peci_channel_get("POWER", 0) > Fake!peci_channel_get("POWER", 1)
    BY <2>2 DEF Fake!peci_channel_get, drift
  <2>5. QED
    BY <1>3, <2>3, <2>4 DEF ReadingsAreSensible, Fake!ReadingsAreSensible
<1>4. QED
  BY <1>1, <1>2, <1>3 DEF FakeInv

\* The simulated values make sense at every uptime, also behind its wrap.
THEOREM FakeValuesAreSensible ==
  SensorsSpec => []ReadingsAreSensible
<1>1. SensorsInit => FakeInv
  <2>1. StartTimes \subseteq Nat
    BY TimesAssumption
  <2>2. FakeAtRest => FakeInv
    BY DEF FakeAtRest, FakeInv, Base
  <2>3. Fake!FakeInit => FakeInv
    BY <2>1 DEF Fake!FakeInit, Fake!Device, Fake!InitialSample, FakeInv, Base
  <2>4. QED
    BY <2>2, <2>3 DEF SensorsInit
<1>2. FakeInv /\ [SensorsNext]_<<driver, vars, fake_state>> => FakeInv'
  <2> SUFFICES ASSUME FakeInv, [SensorsNext]_<<driver, vars, fake_state>> PROVE FakeInv'
    OBVIOUS
  <2>1. CASE UNCHANGED fake_state
    BY <2>1 DEF fake_state, FakeInv
  <2>2. CASE Fake!sample_fetch
    <3>1. Fake!Remainder(seconds, 100) \in 0..99
      BY DEF FakeInv, Fake!Remainder, Fake!Quotient
    <3>2. sample' = Base(device) + Fake!Remainder(seconds, 100)
      BY <2>2 DEF Fake!sample_fetch, Fake!InitialSample, Fake!UptimeSeconds, Base
    <3>3. UNCHANGED <<device, seconds>>
      BY <2>2 DEF Fake!sample_fetch
    <3>4. sample' - Base(device') \in 0..99 /\ sample' \in Nat
      BY <3>1, <3>2, <3>3 DEF Base
    <3>5. QED
      BY <3>3, <3>4 DEF FakeInv
  <2>3. CASE Fake!SecondPasses
    BY <2>3 DEF Fake!SecondPasses, FakeInv
  <2>4. QED
    BY <2>1, <2>2, <2>3 DEF SensorsNext, Fake!FakeNext
<1>3. QED
  BY <1>1, <1>2, TicksAreSensible, PTL DEF SensorsSpec
=============================================================================
