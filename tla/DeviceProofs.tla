------------------------------ MODULE DeviceProofs ------------------------------
(* Theorems about the devices, for every value of their constants.             *)
EXTENDS DeviceProperties, MapProperties, SequenceFacts, SequenceTheorems,
        FiniteSetTheorems

-------------------------------------------------------------------------------
(* The thermostat. KeepsRest says nothing of the clock the code reads, so the  *)
(* invariant ties the two: what is left of the hold plus the time since the    *)
(* last change covers the minimum the running stage has to wait for.           *)

Owed(m) == IF CoolingUnits(m) > 0 THEN MinRun ELSE MinOff

HoldCovers == quiet = Cap \/ hold + quiet >= Owed(mode)

HvacTypeOK == mode \in Modes /\ hold \in Nat /\ quiet \in 0..Cap /\ failed \in BOOLEAN

(* A free clock means the minimum time is over.                                *)
LEMMA FreeMeansRested ==
  ASSUME HvacTypeOK, HoldCovers, hold = 0
  PROVE  quiet >= Owed(mode)
  BY ClockAssumption DEF HvacTypeOK, HoldCovers, Owed

(* What next_mode may answer: the stage goes up from rest or down from a run   *)
(* only with a free clock.                                                     *)
LEMMA NextModeSteps ==
  ASSUME NEW m \in Modes, NEW a \in Int, NEW free \in BOOLEAN
  PROVE  /\ NextMode(m, a, free) \in Modes
         /\ \/ CoolingUnits(NextMode(m, a, free)) = CoolingUnits(m)
            \/ CoolingUnits(m) = 0 /\ free
            \/ CoolingUnits(m) = 1 /\ CoolingUnits(NextMode(m, a, free)) = 2
            \/ /\ free /\ CoolingUnits(m) > 0
               /\ CoolingUnits(NextMode(m, a, free)) = CoolingUnits(m) - 1
<1>0. /\ CoolingUnits("Off") = 0 /\ CoolingUnits("Heat") = 0
      /\ CoolingUnits("Cool1") = 1 /\ CoolingUnits("Cool2") = 2
  BY DEF CoolingUnits
<1>1. CoolingStart(a, free) \in {"Off", "Cool1", "Cool2"} /\ (~free => CoolingStart(a, free) = "Off")
  BY DEF CoolingStart
<1>2. CASE m = "Off"
  <2>1. NextMode(m, a, free) \in {"Off", "Heat", CoolingStart(a, free)}
    BY <1>0, <1>2 DEF NextMode
  <2>2. QED BY <1>0, <1>1, <1>2, <2>1 DEF Modes
<1>3. CASE m = "Heat"
  <2>1. NextMode(m, a, free) \in {"Off", "Heat", CoolingStart(a, free)}
    BY <1>0, <1>3 DEF NextMode
  <2>2. QED BY <1>0, <1>1, <1>3, <2>1 DEF Modes
<1>4. CASE m = "Cool1"
  <2>1. NextMode(m, a, free) \in {"Cool1", "Cool2"} \/ (free /\ NextMode(m, a, free) = "Off")
    BY <1>0, <1>4, BandsAssumption DEF NextMode
  <2>2. QED BY <1>0, <1>4, <2>1 DEF Modes
<1>5. CASE m = "Cool2"
  <2>1. NextMode(m, a, free) = "Cool2" \/ (free /\ NextMode(m, a, free) = "Cool1")
    BY <1>0, <1>5, BandsAssumption DEF NextMode
  <2>2. QED BY <1>0, <1>5, <2>1 DEF Modes
<1>6. QED BY <1>2, <1>3, <1>4, <1>5 DEF Modes

LEMMA UnitsType ==
  ASSUME NEW m \in Modes PROVE CoolingUnits(m) \in 0..2
  BY DEF Modes, CoolingUnits

LEMMA NextHoldCovers ==
  ASSUME NEW m \in Modes, NEW k \in Modes, NEW h \in Nat
  PROVE  /\ NextHold(m, k, h) \in Nat
         /\ CoolingUnits(k) # CoolingUnits(m) => NextHold(m, k, h) = Owed(k)
         /\ CoolingUnits(k) = CoolingUnits(m) => NextHold(m, k, h) + 1 >= h
<1>1. CASE CoolingUnits(k) > 0
  <2>1. k # m => CoolingUnits(k) # CoolingUnits(m)
    BY <1>1 DEF CoolingUnits, Modes
  <2>2. QED BY <1>1, <2>1, ClockAssumption, UnitsType DEF NextHold, Owed
<1>2. CASE ~(CoolingUnits(k) > 0)
  BY <1>2, ClockAssumption, UnitsType DEF NextHold, Owed
<1>3. QED BY <1>1, <1>2

(* One tick takes at most one from the hold and adds one to the time.          *)
LEMMA TickCovers ==
  ASSUME NEW h \in Nat, NEW q \in Nat, NEW h2 \in Nat, NEW owed \in Nat,
         h2 + 1 >= h, h + q >= owed
  PROVE  h2 + (q + 1) >= owed
  OBVIOUS

HvacInv == HvacTypeOK /\ HoldCovers /\ air \in AirTemps

LEMMA HvacStep ==
  ASSUME HvacInv, HvacNext
  PROVE  HvacInv' /\ (C!Next(failed) \/ UNCHANGED <<CoolingUnits(mode), quiet>>)
<1>1. CASE StepContainer
  <2> DEFINE to == IF failed THEN "Off" ELSE NextMode(mode, air, hold = 0)
  <2>0. mode \in Modes /\ air \in Int /\ hold \in Nat /\ quiet \in 0..Cap /\ Cap \in Nat
    BY BandsAssumption, ClockAssumption DEF HvacInv, HvacTypeOK
  <2>1. /\ mode' = to /\ hold' = NextHold(mode, to, hold) /\ failed' = failed
        /\ air' \in AirTemps
        /\ quiet' = IF CoolingUnits(to) # CoolingUnits(mode) THEN 0
                    ELSE IF quiet < Cap THEN quiet + 1 ELSE Cap
    BY <1>1 DEF StepContainer
  <2>2. to \in Modes
    BY <2>0, NextModeSteps DEF Modes
  <2>3. quiet' \in 0..Cap
    BY <2>0, <2>1
  <2> HIDE DEF to
  <2>4. HoldCovers'
    <3>1. CASE CoolingUnits(to) # CoolingUnits(mode)
      <4>1. hold' = Owed(to) /\ quiet' = 0 BY <2>0, <2>1, <2>2, <3>1, NextHoldCovers
      <4>2. Owed(to) \in Nat BY ClockAssumption DEF Owed
      <4>3. QED BY <2>1, <4>1, <4>2 DEF HoldCovers
    <3>2. CASE CoolingUnits(to) = CoolingUnits(mode)
      <4>1. hold' \in Nat /\ hold' + 1 >= hold BY <2>0, <2>1, <2>2, <3>2, NextHoldCovers
      <4>2. Owed(to) = Owed(mode) /\ Owed(mode) \in Nat BY <3>2, ClockAssumption DEF Owed
      <4>3. quiet = Cap => quiet' = Cap BY <2>0, <2>1, <3>2
      <4>4. quiet # Cap => quiet' = quiet + 1 BY <2>0, <2>1, <3>2
      <4>5. quiet = Cap \/ hold + quiet >= Owed(mode) BY DEF HvacInv, HoldCovers
      <4>6. ASSUME quiet # Cap PROVE hold' + quiet' >= Owed(to)
        <5>1. quiet' = quiet + 1 /\ hold + quiet >= Owed(mode) BY <4>4, <4>5, <4>6
        <5>2. quiet \in Nat /\ hold \in Nat BY <2>0
        <5>3. hold' + (quiet + 1) >= Owed(mode) BY <5>1, <5>2, <4>1, <4>2, TickCovers
        <5>4. QED BY <5>1, <5>3, <4>2
      <4>7. QED BY <4>3, <4>6, <2>1 DEF HoldCovers
    <3>3. QED BY <3>1, <3>2
  <2>5. C!Clock
    BY <2>1, UnitsType DEF C!Clock
  <2>6. C!Keep \/ IF failed THEN C!Fail ELSE C!Start \/ C!Join \/ C!Drop
    <3>1. CASE failed
      <4>1. to = "Off" BY <3>1 DEF to
      <4>2. CoolingUnits(to) = 0 BY <4>1 DEF CoolingUnits
      <4>3. CoolingUnits(mode) \in 0..2 BY <2>0, UnitsType
      <4>4. QED BY <2>1, <3>1, <4>2, <4>3 DEF C!Keep, C!Fail
    <3>2. CASE ~failed
      <4>1. to = NextMode(mode, air, hold = 0) BY <3>2 DEF to
      <4>2. CASE hold = 0
        <5>1. quiet >= Owed(mode) BY <4>2, FreeMeansRested DEF HvacInv
        <5>2. \/ CoolingUnits(to) = CoolingUnits(mode)
              \/ CoolingUnits(mode) = 0
              \/ CoolingUnits(mode) = 1 /\ CoolingUnits(to) = 2
              \/ CoolingUnits(mode) > 0 /\ CoolingUnits(to) = CoolingUnits(mode) - 1
          BY <2>0, <4>1, NextModeSteps
        <5>3. CoolingUnits(mode) \in 0..2 /\ CoolingUnits(to) \in 0..2
          BY <2>0, <2>2, UnitsType
        <5>4. QED
          BY <2>1, <3>2, <5>1, <5>2, <5>3 DEF C!Keep, C!Start, C!Join, C!Drop, Owed
      <4>3. CASE hold # 0
        <5>1. \/ CoolingUnits(to) = CoolingUnits(mode)
              \/ CoolingUnits(mode) = 1 /\ CoolingUnits(to) = 2
          BY <2>0, <4>1, <4>3, NextModeSteps
        <5>2. QED BY <2>1, <3>2, <5>1 DEF C!Keep, C!Join
      <4>4. QED BY <4>2, <4>3
    <3>3. QED BY <3>1, <3>2
  <2>7. QED BY <2>1, <2>2, <2>3, <2>4, <2>5, <2>6, <2>0, NextHoldCovers
        DEF HvacInv, HvacTypeOK, C!Next
<1>2. CASE \E f \in BOOLEAN : SetFailed(f)
  BY <1>2 DEF HvacInv, HvacTypeOK, HoldCovers, Owed, SetFailed
<1>3. QED BY <1>1, <1>2 DEF HvacNext

(* The compressors keep their minimum times whatever the temperature, the heat *)
(* and the failures do.                                                        *)
THEOREM RestKept == HvacSpec => KeepsRest
<1>1. ASSUME HvacInit PROVE HvacInv /\ C!Init
  <2>1. CoolingUnits("Off") = 0 BY DEF CoolingUnits
  <2>2. mode = "Off" /\ hold = 0 /\ failed = FALSE /\ air \in AirTemps /\ quiet = Cap
    BY <1>1 DEF HvacInit
  <2>3. failed \in BOOLEAN BY <2>2
  <2>4. mode \in Modes /\ hold \in Nat /\ quiet \in 0..Cap BY <2>2, ClockAssumption DEF Modes
  <2>5. QED BY <2>1, <2>2, <2>3, <2>4 DEF C!Init, HvacInv, HvacTypeOK, HoldCovers
<1>2. ASSUME HvacInv, [HvacNext]_hvacVars
      PROVE  HvacInv' /\ [C!Next(failed)]_<<CoolingUnits(mode), quiet>>
  <2>1. CASE HvacNext BY <1>2, <2>1, HvacStep
  <2>2. CASE UNCHANGED hvacVars
    BY <1>2, <2>2 DEF HvacInv, HvacTypeOK, HoldCovers, Owed, hvacVars
  <2>3. QED BY <1>2, <2>1, <2>2
<1>3. QED BY <1>1, <1>2, PTL DEF HvacSpec, KeepsRest

-------------------------------------------------------------------------------
(* The meters. A tick adds the same amount to both sides of the balance: each  *)
(* case of the breaker and of the sign of the POI power books it elsewhere.    *)

ItemRecord == [hvac : Int, bms : Int, pcs_standby : Int, controls : Int, lighting : Int]

MeterTypeOK ==
  /\ scada \in [export : Int, import : Int, station : Int]
  /\ books \in [battery : Int, pcs : Int, transformer : Int, aux : Int, items : ItemRecord]
  /\ drawn \in Int

MeterInv == MeterTypeOK /\ EnergyBalance

LEMMA ItemsAddUp ==
  ASSUME NEW s \in ItemRecord, NEW a \in ItemRecord
  PROVE  /\ Accumulate(s, a) \in ItemRecord
         /\ Total(a) \in Int
         /\ Total(Accumulate(s, a)) = Total(s) + Total(a)
  BY DEF ItemRecord, Accumulate, Total

LEMMA GridBooks ==
  ASSUME MeterTypeOK, NEW ac \in Int, NEW aux \in Int,
         breaker = "Open" => ac = 0,
         GridStep(Poi(ac, aux), aux)
  PROVE  /\ scada' \in [export : Int, import : Int, station : Int]
         /\ TransformerLoss(ac) \in Int
         /\ (scada.export - scada.import - scada.station) + ac
              = (scada'.export - scada'.import - scada'.station) + TransformerLoss(ac) + aux
<1> DEFINE L == NoLoad + LoadLoss * ac * ac
<1>1. L \in Int BY MeterAssumption
<1>2. scada \in [export : Int, import : Int, station : Int] BY DEF MeterTypeOK
<1>3. CASE breaker = "Open"
  <2>1. scada' = [scada EXCEPT !.station = @ + aux] /\ TransformerLoss(ac) = 0 /\ ac = 0
    BY <1>3 DEF GridStep, TransformerLoss
  <2>2. QED BY <1>2, <2>1
<1>4. CASE breaker # "Open"
  <2>1. TransformerLoss(ac) = L /\ Poi(ac, aux) = ac - L - aux
    BY <1>4 DEF TransformerLoss, Poi, Losses
  <2> HIDE DEF L
  <2>2. CASE ac - L - aux >= 0
    <3>1. scada' = [scada EXCEPT !.export = @ + (ac - L - aux)]
      BY <1>4, <2>1, <2>2 DEF GridStep
    <3>2. QED BY <1>1, <1>2, <2>1, <3>1
  <2>3. CASE ~(ac - L - aux >= 0)
    <3>1. scada' = [scada EXCEPT !.import = @ - (ac - L - aux)]
      BY <1>4, <2>1, <2>3 DEF GridStep
    <3>2. QED BY <1>1, <1>2, <2>1, <3>1
  <2>4. QED BY <2>2, <2>3
<1>5. QED BY <1>3, <1>4

(* Both sides of the balance grow by what the racks gave up.                   *)
LEMMA BothSidesGrow ==
  ASSUME NEW d \in Int, NEW b \in Int, NEW p \in Int, NEW t \in Int, NEW a \in Int,
         NEW before \in Int, NEW after \in Int, NEW dc \in Int, NEW heat \in Int,
         NEW loss \in Int, NEW tl \in Int, NEW ta \in Int,
         d = b + p + t + a + before,
         before + (dc - loss) = after + tl + ta
  PROVE  d + dc + heat = (b + heat) + (p + loss) + (t + tl) + (a + ta) + after
  OBVIOUS

LEMMA MeterStep ==
  ASSUME MeterInv, MeterTick
  PROVE  MeterInv'
<1>1. PICK dc \in IF breaker = "Open" THEN {0} ELSE DcPowers, heat \in Heats,
           loss \in PcsLosses \cup {0}, power \in HvacPowers, idle \in 0..NUnits :
        LET ac  == dc - loss
            aux == StepSite(power, idle)
            poi == Poi(ac, Total(aux))
        IN /\ loss \in IF dc = 0 THEN {0} ELSE PcsLosses
           /\ GridStep(poi, Total(aux))
           /\ books' = [battery |-> books.battery + heat, pcs |-> books.pcs + loss,
                        transformer |-> books.transformer + TransformerLoss(ac),
                        aux |-> books.aux + Total(aux),
                        items |-> Accumulate(books.items, aux)]
           /\ drawn' = drawn + dc + heat
  BY DEF MeterTick
<1> DEFINE ac  == dc - loss
           aux == StepSite(power, idle)
<1>2. dc \in Int /\ heat \in Int /\ loss \in Int /\ power \in Int /\ idle \in Int
  BY MeterAssumption
<1>3. ac \in Int /\ (breaker = "Open" => ac = 0)
  BY <1>1, <1>2
<1>4. aux \in ItemRecord
  BY <1>2, MeterAssumption DEF StepSite, ItemRecord
<1>5. books.items \in ItemRecord /\ Total(aux) \in Int
  BY <1>4, ItemsAddUp DEF MeterInv, MeterTypeOK
<1>6. GridStep(Poi(ac, Total(aux)), Total(aux))
  BY <1>1
<1>7. /\ scada' \in [export : Int, import : Int, station : Int]
      /\ TransformerLoss(ac) \in Int
      /\ (scada.export - scada.import - scada.station) + ac
           = (scada'.export - scada'.import - scada'.station) + TransformerLoss(ac) + Total(aux)
  BY <1>3, <1>5, <1>6, GridBooks DEF MeterInv
<1>8. /\ books' = [battery |-> books.battery + heat, pcs |-> books.pcs + loss,
                   transformer |-> books.transformer + TransformerLoss(ac),
                   aux |-> books.aux + Total(aux),
                   items |-> Accumulate(books.items, aux)]
      /\ drawn' = drawn + dc + heat
  BY <1>1
<1>9. ac = dc - loss OBVIOUS
<1> HIDE DEF ac, aux
<1>10. MeterTypeOK'
  <2>1. /\ books.battery \in Int /\ books.pcs \in Int /\ books.transformer \in Int
        /\ books.aux \in Int /\ drawn \in Int
    BY DEF MeterInv, MeterTypeOK
  <2>2. Accumulate(books.items, aux) \in ItemRecord
    BY <1>4, <1>5, ItemsAddUp
  <2>3. drawn' \in Int BY <1>2, <1>8, <2>1
  <2>4. /\ books.battery + heat \in Int /\ books.pcs + loss \in Int
        /\ books.transformer + TransformerLoss(ac) \in Int /\ books.aux + Total(aux) \in Int
    BY <1>2, <1>5, <1>7, <2>1
  <2>5. books' \in [battery : Int, pcs : Int, transformer : Int, aux : Int, items : ItemRecord]
    BY <1>8, <2>2, <2>4
  <2>6. QED BY <1>7, <2>3, <2>5 DEF MeterTypeOK
<1>11. books'.aux = Total(books'.items)
  <2>1. Total(Accumulate(books.items, aux)) = Total(books.items) + Total(aux)
    BY <1>4, <1>5, ItemsAddUp
  <2>2. books.aux = Total(books.items) BY DEF MeterInv, EnergyBalance
  <2>3. QED BY <1>8, <2>1, <2>2
<1>12. drawn' = books'.battery + books'.pcs + books'.transformer
              + (books'.aux - scada'.station) + scada'.export - scada'.import
  <2>1. drawn = books.battery + books.pcs + books.transformer
              + (books.aux - scada.station) + scada.export - scada.import
    BY DEF MeterInv, EnergyBalance
  <2>2. /\ books.battery \in Int /\ books.pcs \in Int /\ books.transformer \in Int
        /\ books.aux \in Int /\ drawn \in Int
        /\ scada.export \in Int /\ scada.import \in Int /\ scada.station \in Int
        /\ scada'.export \in Int /\ scada'.import \in Int /\ scada'.station \in Int
    BY <1>7 DEF MeterInv, MeterTypeOK
  <2>3. /\ books'.battery = books.battery + heat /\ books'.pcs = books.pcs + loss
        /\ books'.transformer = books.transformer + TransformerLoss(ac)
        /\ books'.aux = books.aux + Total(aux)
    BY <1>8
  <2> DEFINE before == scada.export - scada.import - scada.station
             after  == scada'.export - scada'.import - scada'.station
  <2>4. before \in Int /\ after \in Int BY <2>2
  <2>5. before + (dc - loss) = after + TransformerLoss(ac) + Total(aux) BY <1>7, <1>9
  <2>6. drawn = books.battery + books.pcs + books.transformer + books.aux + before
    BY <2>1, <2>2
  <2>7. drawn + dc + heat
          = (books.battery + heat) + (books.pcs + loss)
            + (books.transformer + TransformerLoss(ac)) + (books.aux + Total(aux)) + after
    <3> HIDE DEF before, after
    <3>1. QED BY <1>2, <1>5, <1>7, <2>2, <2>4, <2>5, <2>6, BothSidesGrow
  <2>8. drawn' = books'.battery + books'.pcs + books'.transformer + books'.aux + after
    BY <1>8, <2>3, <2>7
  <2>9. /\ books'.battery \in Int /\ books'.pcs \in Int /\ books'.transformer \in Int
        /\ books'.aux \in Int
    BY <1>10 DEF MeterTypeOK
  <2>10. QED BY <2>2, <2>8, <2>9
<1>13. QED BY <1>10, <1>11, <1>12 DEF MeterInv, EnergyBalance

(* Every unit of energy the racks gave up is accounted for, over any run.      *)
THEOREM Balanced == MeterSpec => []EnergyBalance
<1>1. ASSUME MeterInit PROVE MeterInv
  BY <1>1 DEF MeterInit, MeterInv, MeterTypeOK, EnergyBalance, ItemRecord, Total
<1>2. ASSUME MeterInv, [MeterNext]_meterVars PROVE MeterInv'
  <2>1. CASE MeterTick BY <1>2, <2>1, MeterStep
  <2>2. CASE SwitchBreaker
    BY <1>2, <2>2 DEF SwitchBreaker, MeterInv, MeterTypeOK, EnergyBalance, Total
  <2>3. CASE UNCHANGED meterVars
    BY <1>2, <2>3 DEF meterVars, MeterInv, MeterTypeOK, EnergyBalance, Total
  <2>4. QED BY <1>2, <2>1, <2>2, <2>3 DEF MeterNext
<1>3. MeterInv => EnergyBalance BY DEF MeterInv
<1>4. QED BY <1>1, <1>2, <1>3, PTL DEF MeterSpec
-------------------------------------------------------------------------------
(* The fiscal meter. What the property sums over the story is a running sum,   *)
(* so a tick adds one amount at its end and leaves the rest.                   *)

IsSum(f, s, n) == f = [k \in 0..n |-> IF k = 0 THEN 0 ELSE f[k - 1] + s[k]]

LEMMA SumExists ==
  ASSUME NEW s
  PROVE  \A n \in Nat : \E f : IsSum(f, s, n)
<1> DEFINE S == {n \in Nat : \E f : IsSum(f, s, n)}
<1>1. 0 \in S
  <2> DEFINE zero == [k \in 0..0 |-> 0]
  <2>1. zero = [k \in 0..0 |-> IF k = 0 THEN 0 ELSE zero[k - 1] + s[k]]
    OBVIOUS
  <2> HIDE DEF zero
  <2> QED BY <2>1 DEF IsSum
<1>2. ASSUME NEW n \in Nat, n \in S PROVE n + 1 \in S
  <2>1. PICK f : IsSum(f, s, n) BY <1>2
  <2> DEFINE g == [k \in 0..(n + 1) |-> IF k = n + 1 THEN f[n] + s[n + 1] ELSE f[k]]
  <2>2. ASSUME NEW k \in 0..(n + 1) PROVE g[k] = IF k = 0 THEN 0 ELSE g[k - 1] + s[k]
    <3>1. CASE k = n + 1
      <4>1. g[k] = f[n] + s[n + 1] /\ g[k - 1] = f[n] /\ k # 0 BY <3>1
      <4> QED BY <3>1, <4>1
    <3>2. CASE k # n + 1
      <4>1. k \in 0..n /\ g[k] = f[k] /\ (k # 0 => k - 1 \in 0..n /\ g[k - 1] = f[k - 1])
        BY <3>2
      <4> HIDE DEF g
      <4>2. f[k] = IF k = 0 THEN 0 ELSE f[k - 1] + s[k] BY <2>1, <4>1 DEF IsSum
      <4> QED BY <4>1, <4>2
    <3> QED BY <3>1, <3>2
  <2>3. g = [k \in 0..(n + 1) |-> g[k]] OBVIOUS
  <2> HIDE DEF g
  <2>4. IsSum(g, s, n + 1) BY <2>2, <2>3 DEF IsSum
  <2> QED BY <2>4
<1>3. Nat \subseteq S
  <2> HIDE DEF S
  <2> QED BY <1>1, <1>2, NatSetInduction
<1> QED BY <1>3

LEMMA SumFacts ==
  ASSUME NEW s \in Seq(Int)
  PROVE  /\ SumsOf(s)[0] = 0
         /\ \A k \in 1..Len(s) : SumsOf(s)[k] = SumsOf(s)[k - 1] + s[k]
<1> DEFINE f == CHOOSE f : f = [k \in 0..Len(s) |-> IF k = 0 THEN 0 ELSE f[k - 1] + s[k]]
<1>1. Len(s) \in Nat OBVIOUS
<1>2. \E g : g = [k \in 0..Len(s) |-> IF k = 0 THEN 0 ELSE g[k - 1] + s[k]]
  BY <1>1, SumExists DEF IsSum
<1>3. f = [k \in 0..Len(s) |-> IF k = 0 THEN 0 ELSE f[k - 1] + s[k]] BY <1>2
<1>4. SumsOf(s) = f BY DEF SumsOf
<1> HIDE DEF f
<1>5. f[0] = 0 /\ \A k \in 1..Len(s) : f[k] = f[k - 1] + s[k] BY <1>1, <1>3
<1> QED BY <1>4, <1>5

LEMMA SumIsANumber ==
  ASSUME NEW s \in Seq(Int)
  PROVE  \A k \in 0..Len(s) : SumsOf(s)[k] \in Int
<1> DEFINE S == {k \in Nat : k <= Len(s) => SumsOf(s)[k] \in Int}
<1>1. 0 \in S BY SumFacts
<1>2. ASSUME NEW k \in Nat, k \in S PROVE k + 1 \in S
  <2> SUFFICES ASSUME k + 1 <= Len(s) PROVE SumsOf(s)[k + 1] \in Int
    OBVIOUS
  <2>1. k + 1 \in 1..Len(s) /\ (k + 1) - 1 = k /\ SumsOf(s)[k] \in Int /\ s[k + 1] \in Int BY <1>2
  <2>2. SumsOf(s)[k + 1] = SumsOf(s)[(k + 1) - 1] + s[k + 1] BY <2>1, SumFacts
  <2> QED BY <2>1, <2>2
<1>3. Nat \subseteq S
  <2> HIDE DEF S
  <2> QED BY <1>1, <1>2, NatSetInduction
<1> QED BY <1>3

(* One amount more leaves the sums of the first ones.                          *)
LEMMA SumGoesOn ==
  ASSUME NEW s \in Seq(Int), NEW t \in Seq(Int), Len(t) = Len(s) + 1,
         \A k \in 1..Len(s) : t[k] = s[k]
  PROVE  /\ \A k \in 0..Len(s) : SumsOf(t)[k] = SumsOf(s)[k]
         /\ SumsOf(t)[Len(s) + 1] = SumsOf(s)[Len(s)] + t[Len(s) + 1]
<1> DEFINE S == {k \in Nat : k <= Len(s) => SumsOf(t)[k] = SumsOf(s)[k]}
<1>1. 0 \in S BY SumFacts
<1>2. ASSUME NEW k \in Nat, k \in S PROVE k + 1 \in S
  <2> SUFFICES ASSUME k + 1 <= Len(s) PROVE SumsOf(t)[k + 1] = SumsOf(s)[k + 1]
    OBVIOUS
  <2>1. /\ k + 1 \in 1..Len(s) /\ k + 1 \in 1..Len(t) /\ (k + 1) - 1 = k
        /\ SumsOf(t)[k] = SumsOf(s)[k] /\ t[k + 1] = s[k + 1]
    BY <1>2
  <2>2. SumsOf(s)[k + 1] = SumsOf(s)[(k + 1) - 1] + s[k + 1] BY <2>1, SumFacts
  <2>3. SumsOf(t)[k + 1] = SumsOf(t)[(k + 1) - 1] + t[k + 1] BY <2>1, SumFacts
  <2> QED BY <2>1, <2>2, <2>3
<1>3. Nat \subseteq S
  <2> HIDE DEF S
  <2> QED BY <1>1, <1>2, NatSetInduction
<1>4. \A k \in 0..Len(s) : SumsOf(t)[k] = SumsOf(s)[k] BY <1>3
<1>5. SumsOf(t)[Len(s) + 1] = SumsOf(t)[(Len(s) + 1) - 1] + t[Len(s) + 1]
  <2>1. Len(s) + 1 \in 1..Len(t) OBVIOUS
  <2> QED BY <2>1, SumFacts
<1>6. (Len(s) + 1) - 1 = Len(s) /\ Len(s) \in 0..Len(s) OBVIOUS
<1> QED BY <1>4, <1>5, <1>6
Plus(x)  == IF x > 0 THEN x ELSE 0
Minus(x) == IF x < 0 THEN -x ELSE 0

(* What a tick adds to the sums, for amounts out and in.                       *)
LEMMA AmountsGoOn ==
  ASSUME NEW s \in Seq(Int), NEW x \in Int, NEW t, t = Append(s, x),
         NEW u, NEW v, NEW y,
         \/ u = ExportsOf(s) /\ v = ExportsOf(t) /\ y = Plus(x)
         \/ u = ImportsOf(s) /\ v = ImportsOf(t) /\ y = Minus(x)
  PROVE  /\ \A k \in 0..Len(s) : SumsOf(u)[k] \in Int /\ SumsOf(v)[k] = SumsOf(u)[k]
         /\ SumsOf(v)[Len(s) + 1] = SumsOf(u)[Len(s)] + y
         /\ y \in Int
<1> DEFINE n == Len(s)
<1>1. /\ n \in Nat /\ t \in Seq(Int) /\ Len(t) = n + 1 /\ t[n + 1] = x
      /\ DOMAIN s = 1..n /\ DOMAIN t = 1..(n + 1)
      /\ \A k \in 1..n : t[k] = s[k] /\ s[k] \in Int
  OBVIOUS
<1>2. /\ u \in [1..n -> Int] /\ v \in [1..(n + 1) -> Int] /\ v[n + 1] = y /\ y \in Int
      /\ \A k \in 1..n : v[k] = u[k]
  <2> HIDE DEF n
  <2>1. CASE u = ExportsOf(s) /\ v = ExportsOf(t) /\ y = Plus(x)
    BY <1>1, <2>1 DEF ExportsOf, Plus
  <2>2. CASE u = ImportsOf(s) /\ v = ImportsOf(t) /\ y = Minus(x)
    BY <1>1, <2>2 DEF ImportsOf, Minus
  <2> QED BY <2>1, <2>2
<1>3. u \in Seq(Int) /\ Len(u) = n /\ v \in Seq(Int) /\ Len(v) = n + 1
  <2> HIDE DEF n
  <2> QED BY <1>1, <1>2
<1>4. /\ \A k \in 0..n : SumsOf(v)[k] = SumsOf(u)[k]
      /\ SumsOf(v)[n + 1] = SumsOf(u)[n] + v[n + 1]
  BY <1>2, <1>3, SumGoesOn
<1>5. \A k \in 0..n : SumsOf(u)[k] \in Int
  BY <1>3, SumIsANumber
<1> QED BY <1>2, <1>4, <1>5

LEMMA EndedByRange ==
  ASSUME story \in Seq(Int), now \in Int, NEW t \in Int, t <= now
  PROVE  EndedBy(t) \in 0..Len(story)
<1>1. Len(story) \in Nat OBVIOUS
<1> QED BY <1>1 DEF EndedBy, Larger

LEMMA ExportsGoOn ==
  ASSUME NEW s \in Seq(Int), NEW x \in Int
  PROVE  /\ \A k \in 0..Len(s) : /\ SumsOf(ExportsOf(s))[k] \in Int
                                 /\ SumsOf(ExportsOf(Append(s, x)))[k] = SumsOf(ExportsOf(s))[k]
         /\ SumsOf(ExportsOf(Append(s, x)))[Len(s) + 1] = SumsOf(ExportsOf(s))[Len(s)] + Plus(x)
         /\ Plus(x) \in Int
BY AmountsGoOn, Zenon

LEMMA ImportsGoOn ==
  ASSUME NEW s \in Seq(Int), NEW x \in Int
  PROVE  /\ \A k \in 0..Len(s) : /\ SumsOf(ImportsOf(s))[k] \in Int
                                 /\ SumsOf(ImportsOf(Append(s, x)))[k] = SumsOf(ImportsOf(s))[k]
         /\ SumsOf(ImportsOf(Append(s, x)))[Len(s) + 1] = SumsOf(ImportsOf(s))[Len(s)] + Minus(x)
         /\ Minus(x) \in Int
BY AmountsGoOn, Zenon

(* A tick adds its amount to what ends with it and leaves what ended before.   *)
LEMMA StoryGrows ==
  ASSUME story \in Seq(Int), now \in Int, NEW poi \in Int,
         story' = Append(story, poi), now' = now + 1
  PROVE  /\ \A a, b \in Int : a <= now /\ b <= now =>
              /\ Exported(a, b)' = Exported(a, b) /\ Exported(a, b) \in Int
              /\ Imported(a, b)' = Imported(a, b) /\ Imported(a, b) \in Int
              /\ Exported(a, now)' = Exported(a, now) + Plus(poi)
              /\ Imported(a, now)' = Imported(a, now) + Minus(poi)
         /\ Exported(now, now)' = 0 /\ Imported(now, now)' = 0
<1> DEFINE n == Len(story)
           out == SumsOf(ExportsOf(story))
           outAfter == SumsOf(ExportsOf(story'))
           in == SumsOf(ImportsOf(story))
           inAfter == SumsOf(ImportsOf(story'))
<1>1. n \in Nat /\ Len(story') = n + 1
  OBVIOUS
<1>2. /\ \A k \in 0..n : out[k] \in Int /\ outAfter[k] = out[k]
      /\ outAfter[n + 1] = out[n] + Plus(poi) /\ Plus(poi) \in Int
  BY ExportsGoOn
<1>3. /\ \A k \in 0..n : in[k] \in Int /\ inAfter[k] = in[k]
      /\ inAfter[n + 1] = in[n] + Minus(poi) /\ Minus(poi) \in Int
  BY ImportsGoOn
<1>4. ASSUME NEW t \in Int, t <= now PROVE EndedBy(t)' = EndedBy(t) /\ EndedBy(t) \in 0..n
  <2>1. (n + 1) - ((now + 1) - t) = n - (now - t) BY <1>1
  <2>2. EndedBy(t)' = Larger(0, (n + 1) - ((now + 1) - t)) BY <1>1 DEF EndedBy
  <2>3. EndedBy(t)' = EndedBy(t) BY <2>1, <2>2 DEF EndedBy
  <2> QED BY <1>4, <2>3, EndedByRange
<1>5. EndedBy(now) = n /\ EndedBy(now)' = n + 1
  <2>1. EndedBy(now) = Larger(0, n - (now - now)) BY DEF EndedBy
  <2>2. EndedBy(now)' = Larger(0, (n + 1) - ((now + 1) - (now + 1))) BY <1>1 DEF EndedBy
  <2> QED BY <1>1, <2>1, <2>2 DEF Larger
<1>6. /\ \A a, b : Exported(a, b) = out[EndedBy(b)] - out[EndedBy(a)]
      /\ \A a, b : Imported(a, b) = in[EndedBy(b)] - in[EndedBy(a)]
  BY DEF Exported, Imported
<1>7. ASSUME NEW a \in Int, NEW b \in Int
      PROVE  /\ Exported(a, b)' = outAfter[EndedBy(b)'] - outAfter[EndedBy(a)']
             /\ Imported(a, b)' = inAfter[EndedBy(b)'] - inAfter[EndedBy(a)']
             /\ Exported(a, now)' = outAfter[EndedBy(now)'] - outAfter[EndedBy(a)']
             /\ Imported(a, now)' = inAfter[EndedBy(now)'] - inAfter[EndedBy(a)']
  BY DEF Exported, Imported
<1>8. ASSUME NEW a \in Int, NEW b \in Int, a <= now, b <= now
      PROVE  /\ Exported(a, b)' = Exported(a, b) /\ Exported(a, b) \in Int
             /\ Imported(a, b)' = Imported(a, b) /\ Imported(a, b) \in Int
             /\ Exported(a, now)' = Exported(a, now) + Plus(poi)
             /\ Imported(a, now)' = Imported(a, now) + Minus(poi)
  <2> DEFINE i == EndedBy(a)
             j == EndedBy(b)
  <2>1. i \in 0..n /\ j \in 0..n /\ EndedBy(a)' = i /\ EndedBy(b)' = j /\ n \in 0..n
    BY <1>1, <1>4, <1>8
  <2>2. Exported(a, b) = out[j] - out[i] /\ Imported(a, b) = in[j] - in[i]
    BY <1>6
  <2>3. Exported(a, now) = out[n] - out[i] /\ Imported(a, now) = in[n] - in[i]
    BY <1>5, <1>6
  <2> HIDE DEF i, j, n, out, in, outAfter, inAfter
  <2>4. Exported(a, b)' = outAfter[j] - outAfter[i] /\ Imported(a, b)' = inAfter[j] - inAfter[i]
    BY <1>7, <2>1
  <2>5. /\ Exported(a, now)' = outAfter[n + 1] - outAfter[i]
        /\ Imported(a, now)' = inAfter[n + 1] - inAfter[i]
    BY <1>5, <1>7, <2>1
  <2>6. \A x, y, z \in Int : (x + y) - z = (x - z) + y OBVIOUS
  <2>7. /\ out[i] \in Int /\ out[j] \in Int /\ out[n] \in Int
        /\ in[i] \in Int /\ in[j] \in Int /\ in[n] \in Int
        /\ outAfter[i] = out[i] /\ outAfter[j] = out[j]
        /\ inAfter[i] = in[i] /\ inAfter[j] = in[j]
    BY <1>2, <1>3, <2>1
  <2>8. /\ Exported(a, now)' = (out[n] + Plus(poi)) - out[i]
        /\ Imported(a, now)' = (in[n] + Minus(poi)) - in[i]
    <3>1. /\ outAfter[n + 1] = out[n] + Plus(poi) /\ inAfter[n + 1] = in[n] + Minus(poi)
          /\ outAfter[i] = out[i] /\ inAfter[i] = in[i]
      BY <1>2, <1>3, <2>7
    <3> QED BY <2>5, <3>1
  <2>9. Exported(a, now)' = Exported(a, now) + Plus(poi)
    <3>1. (out[n] + Plus(poi)) - out[i] = (out[n] - out[i]) + Plus(poi)
      BY <1>2, <2>6, <2>7
    <3> QED BY <2>3, <2>8, <3>1
  <2>10. Imported(a, now)' = Imported(a, now) + Minus(poi)
    <3>1. (in[n] + Minus(poi)) - in[i] = (in[n] - in[i]) + Minus(poi)
      BY <1>3, <2>6, <2>7
    <3> QED BY <2>3, <2>8, <3>1
  <2>11. out[j] - out[i] \in Int /\ in[j] - in[i] \in Int
    BY <2>7
  <2> QED BY <2>2, <2>4, <2>7, <2>9, <2>10, <2>11
<1>9. Exported(now, now)' = 0 /\ Imported(now, now)' = 0
  <2>1. outAfter[n + 1] \in Int /\ inAfter[n + 1] \in Int
    BY <1>1, <1>2, <1>3
  <2>2. /\ Exported(now, now)' = outAfter[n + 1] - outAfter[n + 1]
        /\ Imported(now, now)' = inAfter[n + 1] - inAfter[n + 1]
    BY <1>5 DEF Exported, Imported
  <2> HIDE DEF outAfter, inAfter
  <2> QED BY <2>1, <2>2
<1> QED BY <1>8, <1>9
FiscalFields == {"import", "export", "start", "periodImport", "periodExport", "closed",
                 "lastImport", "lastExport"}
FiscalRecord == [FiscalFields -> Int]

FiscalTypeOK ==
  /\ now \in Int /\ story \in Seq(Int)
  /\ scada \in [export : Int, import : Int, station : Int]
  /\ fiscal \in FiscalRecord

FiscalInv == FiscalTypeOK /\ PeriodsAddUp

(* The house load never crosses a closed POI meter, so both totals move alike. *)
LEMMA MetersAgree ==
  ASSUME FiscalTypeOK, NEW poi \in Int, NEW aux \in Int, breaker = "Open" => poi = 0,
         GridStep(poi, aux)
  PROVE  /\ scada' \in [export : Int, import : Int, station : Int]
         /\ scada'.export = scada.export + Plus(poi)
         /\ scada'.import = scada.import + Minus(poi)
<1>1. scada \in [export : Int, import : Int, station : Int] BY DEF FiscalTypeOK
<1>2. CASE breaker = "Open"
  <2>1. scada' = [scada EXCEPT !.station = @ + aux] /\ poi = 0 BY <1>2 DEF GridStep
  <2> QED BY <1>1, <2>1 DEF Plus, Minus
<1>3. CASE breaker # "Open" /\ poi >= 0
  <2>1. scada' = [scada EXCEPT !.export = @ + poi] BY <1>3 DEF GridStep
  <2> QED BY <1>1, <1>3, <2>1 DEF Plus, Minus
<1>4. CASE breaker # "Open" /\ ~(poi >= 0)
  <2>1. scada' = [scada EXCEPT !.import = @ - poi] BY <1>4 DEF GridStep
  <2> QED BY <1>1, <1>4, <2>1 DEF Plus, Minus
<1> QED BY <1>2, <1>3, <1>4

LEMMA Booked ==
  ASSUME NEW m \in FiscalRecord, NEW poi \in Int
  PROVE  /\ Book(m, poi) \in FiscalRecord
         /\ Book(m, poi).export = m.export + Plus(poi)
         /\ Book(m, poi).import = m.import + Minus(poi)
         /\ Book(m, poi).periodExport = m.periodExport + Plus(poi)
         /\ Book(m, poi).periodImport = m.periodImport + Minus(poi)
         /\ Book(m, poi).start = m.start /\ Book(m, poi).closed = m.closed
         /\ Book(m, poi).lastExport = m.lastExport /\ Book(m, poi).lastImport = m.lastImport
<1>1. CASE poi >= 0
  <2>1. Book(m, poi) = [m EXCEPT !.export = @ + poi, !.periodExport = @ + poi]
    BY <1>1 DEF Book
  <2>2. Plus(poi) = poi /\ Minus(poi) = 0 BY <1>1 DEF Plus, Minus
  <2>3. m.import = m.import + 0 /\ m.periodImport = m.periodImport + 0 BY DEF FiscalRecord, FiscalFields
  <2>4. Book(m, poi) \in FiscalRecord
    <3>1. m.export + poi \in Int /\ m.periodExport + poi \in Int BY DEF FiscalRecord, FiscalFields
    <3> QED BY <2>1, <3>1 DEF FiscalRecord, FiscalFields
  <2>5. /\ Book(m, poi).export = m.export + poi /\ Book(m, poi).import = m.import
        /\ Book(m, poi).periodExport = m.periodExport + poi
        /\ Book(m, poi).periodImport = m.periodImport
        /\ Book(m, poi).start = m.start /\ Book(m, poi).closed = m.closed
        /\ Book(m, poi).lastExport = m.lastExport /\ Book(m, poi).lastImport = m.lastImport
    BY <2>1 DEF FiscalRecord, FiscalFields
  <2> QED BY <2>2, <2>3, <2>4, <2>5
<1>2. CASE ~(poi >= 0)
  <2>1. Book(m, poi) = [m EXCEPT !.import = @ - poi, !.periodImport = @ - poi]
    BY <1>2 DEF Book
  <2>2. Plus(poi) = 0 /\ Minus(poi) = -poi BY <1>2 DEF Plus, Minus
  <2>3. /\ m.export = m.export + 0 /\ m.periodExport = m.periodExport + 0
        /\ m.import - poi = m.import + (-poi) /\ m.periodImport - poi = m.periodImport + (-poi)
    BY DEF FiscalRecord, FiscalFields
  <2>4. Book(m, poi) \in FiscalRecord
    <3>1. m.import - poi \in Int /\ m.periodImport - poi \in Int BY DEF FiscalRecord, FiscalFields
    <3> QED BY <2>1, <3>1 DEF FiscalRecord, FiscalFields
  <2>5. /\ Book(m, poi).import = m.import - poi /\ Book(m, poi).export = m.export
        /\ Book(m, poi).periodImport = m.periodImport - poi
        /\ Book(m, poi).periodExport = m.periodExport
        /\ Book(m, poi).start = m.start /\ Book(m, poi).closed = m.closed
        /\ Book(m, poi).lastExport = m.lastExport /\ Book(m, poi).lastImport = m.lastImport
    BY <2>1 DEF FiscalRecord, FiscalFields
  <2> QED BY <2>2, <2>3, <2>4, <2>5
<1> QED BY <1>1, <1>2

LEMMA TwoFields ==
  ASSUME NEW m \in FiscalRecord, NEW f \in FiscalFields, NEW g \in FiscalFields,
         NEW x \in Int, NEW y \in Int
  PROVE  [m EXCEPT ![f] = x, ![g] = y] \in FiscalRecord
BY DEF FiscalRecord

LEMMA ClosedPeriod ==
  ASSUME NEW m \in FiscalRecord, NEW end \in Int
  PROVE  ClosePeriod(m, end) \in FiscalRecord
<1> DEFINE m1 == [m EXCEPT !.lastImport = m.periodImport, !.lastExport = m.periodExport]
           m2 == [m1 EXCEPT !.periodImport = 0, !.periodExport = 0]
           m3 == [m2 EXCEPT !.closed = @ + 1, !.start = end]
<1>1. ClosePeriod(m, end) = m3 BY DEF FiscalRecord, FiscalFields, ClosePeriod
<1>2. m1 \in FiscalRecord
  <2>1. m.periodImport \in Int /\ m.periodExport \in Int BY DEF FiscalRecord, FiscalFields
  <2> QED BY <2>1, TwoFields DEF FiscalFields
<1> HIDE DEF m1
<1>3. m2 \in FiscalRecord
  <2>1. PICK zero \in Int : zero = 0 OBVIOUS
  <2>2. [m1 EXCEPT !.periodImport = zero, !.periodExport = zero] \in FiscalRecord
    BY <1>2, TwoFields DEF FiscalFields
  <2> QED BY <2>1, <2>2
<1> HIDE DEF m2
<1>4. m3 \in FiscalRecord
  <2>1. m2.closed + 1 \in Int BY <1>3 DEF FiscalRecord, FiscalFields
  <2> QED BY <1>3, <2>1, TwoFields DEF FiscalFields
<1> QED BY <1>1, <1>4

(* The clock against the quarter-hours: a tick ends a period or stays in it.   *)
LEMMA QuotientsAreUnique ==
  ASSUME NEW d \in Nat \ {0}, NEW a \in Int, NEW b \in Int,
         NEW r \in 0..(d - 1), NEW s \in 0..(d - 1), d * a + r = d * b + s
  PROVE  a = b /\ r = s
<1>1. ASSUME a < b PROVE FALSE
  <2>1. b - a - 1 \in Nat /\ d * (b - a) = d * (b - a - 1) + d /\ d * (b - a - 1) >= 0
    BY <1>1
  <2>2. d * (b - a) = r - s OBVIOUS
  <2> QED BY <2>1, <2>2
<1>2. ASSUME b < a PROVE FALSE
  <2>1. a - b - 1 \in Nat /\ d * (a - b) = d * (a - b - 1) + d /\ d * (a - b - 1) >= 0
    BY <1>2
  <2>2. d * (a - b) = s - r OBVIOUS
  <2> QED BY <2>1, <2>2
<1> QED BY <1>1, <1>2

LEMMA NextQuotient ==
  ASSUME NEW t \in Int, NEW d \in Nat \ {0}
  PROVE  /\ t % d \in 0..(d - 1) /\ t \div d \in Int
         /\ (t + 1) % d = 0 => t % d = d - 1 /\ (t + 1) \div d = (t \div d) + 1
         /\ (t + 1) % d # 0 => (t + 1) % d = (t % d) + 1 /\ (t + 1) \div d = t \div d
<1>1. \A x \in Int : x % d \in 0..(d - 1) /\ x \div d \in Int /\ x = d * (x \div d) + (x % d)
  OBVIOUS
<1> DEFINE q == t \div d
           r == t % d
           k == (t + 1) \div d
           s == (t + 1) % d
<1>2. /\ q \in Int /\ r \in 0..(d - 1) /\ t = d * q + r
      /\ k \in Int /\ s \in 0..(d - 1) /\ t + 1 = d * k + s
  BY <1>1
<1> HIDE DEF q, r, k, s
<1>3. CASE r = d - 1
  <2>1. d * k + s = d * (q + 1) + 0 /\ 0 \in 0..(d - 1) BY <1>2, <1>3
  <2>2. k = q + 1 /\ s = 0 BY <1>2, <2>1, QuotientsAreUnique
  <2> QED BY <1>2, <1>3, <2>2 DEF q, r, k, s
<1>4. CASE r # d - 1
  <2>1. d * k + s = d * q + (r + 1) /\ r + 1 \in 0..(d - 1) BY <1>2, <1>4
  <2>2. k = q /\ s = r + 1 BY <1>2, <2>1, QuotientsAreUnique
  <2> QED BY <1>2, <1>4, <2>2 DEF q, r, k, s
<1> QED BY <1>3, <1>4
(* What ended before the run began is nothing.                                 *)
LEMMA NothingBefore ==
  ASSUME FiscalTypeOK, NEW t \in Int, NEW b \in Int
  PROVE  /\ Exported(Larger(t, now - Len(story)), b) = Exported(t, b)
         /\ Imported(Larger(t, now - Len(story)), b) = Imported(t, b)
<1> DEFINE n == Len(story)
<1>1. n \in Nat /\ now \in Int BY DEF FiscalTypeOK
<1>2. EndedBy(Larger(t, now - n)) = EndedBy(t)
  <2> HIDE DEF n
  <2>1. CASE t >= now - n BY <1>1, <2>1 DEF Larger
  <2>2. CASE ~(t >= now - n)
    <3>1. Larger(t, now - n) = now - n BY <2>2 DEF Larger
    <3>2. n - (now - (now - n)) = 0 /\ ~(0 < n - (now - t)) /\ n - (now - t) < 0
      BY <1>1, <2>2
    <3> QED BY <1>1, <3>1, <3>2 DEF EndedBy, Larger, n
  <2> QED BY <2>1, <2>2
<1> QED BY <1>2 DEF Exported, Imported

LEMMA FiscalStep ==
  ASSUME FiscalInv, NEW poi \in Int, NEW aux \in Int, breaker = "Open" => poi = 0,
         GridStep(poi, aux), Observe(poi, now + 1),
         now' = now + 1, story' = Append(story, poi)
  PROVE  FiscalInv'
<1> DEFINE first == now - Len(story)
           open == Larger(Boundary(now), first)
           m == Book(fiscal, poi)
<1>typed. FiscalTypeOK BY DEF FiscalInv
<1>fields. now \in Int /\ story \in Seq(Int) /\ fiscal \in FiscalRecord BY <1>typed DEF FiscalTypeOK
<1>length. Len(story) \in Nat BY <1>fields
<1>1. /\ now \in Int /\ story \in Seq(Int) /\ Len(story) \in Nat /\ first \in Int /\ first <= now
      /\ fiscal \in FiscalRecord /\ Period \in Nat \ {0}
  BY <1>fields, <1>length, MeterAssumption
<1>2. /\ scada' \in [export : Int, import : Int, station : Int]
      /\ scada'.export = scada.export + Plus(poi)
      /\ scada'.import = scada.import + Minus(poi)
  BY MetersAgree DEF FiscalInv
<1>3. /\ m \in FiscalRecord
      /\ m.export = fiscal.export + Plus(poi) /\ m.import = fiscal.import + Minus(poi)
      /\ m.periodExport = fiscal.periodExport + Plus(poi)
      /\ m.periodImport = fiscal.periodImport + Minus(poi)
      /\ m.start = fiscal.start /\ m.closed = fiscal.closed
      /\ m.lastExport = fiscal.lastExport /\ m.lastImport = fiscal.lastImport
  BY <1>1, Booked
<1>4. /\ fiscal.start = open
      /\ fiscal.closed = (now \div Period) - (first \div Period)
      /\ fiscal.periodExport = Exported(open, now)
      /\ fiscal.periodImport = Imported(open, now)
      /\ fiscal.closed > 0 => /\ fiscal.lastExport = Exported(Boundary(now) - Period, open)
                              /\ fiscal.lastImport = Imported(Boundary(now) - Period, open)
      /\ fiscal.export = scada.export /\ fiscal.import = scada.import
  BY DEF FiscalInv, PeriodsAddUp
<1>5. /\ now % Period \in 0..(Period - 1) /\ now \div Period \in Int
      /\ (now + 1) % Period = 0 =>
           now % Period = Period - 1 /\ (now + 1) \div Period = (now \div Period) + 1
      /\ (now + 1) % Period # 0 =>
           (now + 1) % Period = (now % Period) + 1 /\ (now + 1) \div Period = (now \div Period)
  BY <1>1, NextQuotient
<1>6. first \div Period \in Int
  BY <1>1, NextQuotient
<1>7. Boundary(now) \in Int /\ Boundary(now) <= now /\ open \in Int /\ open <= now
  BY <1>1, <1>5 DEF Boundary, Larger
<1>8. now' - Len(story') = first
  BY <1>1
<1>9. story' \in Seq(Int) /\ now' \in Int
  BY <1>1
<1> HIDE DEF first, m
<1>10. CASE (now + 1) % Period = 0
  <2>1. /\ fiscal' = ClosePeriod(m, now + 1)
    BY <1>10 DEF Observe, m
  <2>2. fiscal' \in FiscalRecord
    <3> HIDE DEF m
    <3> QED BY <1>1, <1>3, <2>1, ClosedPeriod
  <2>3. /\ fiscal'.export = m.export /\ fiscal'.import = m.import
        /\ fiscal'.start = now + 1 /\ fiscal'.closed = m.closed + 1
        /\ fiscal'.periodExport = 0 /\ fiscal'.periodImport = 0
        /\ fiscal'.lastExport = m.periodExport /\ fiscal'.lastImport = m.periodImport
    BY <1>3, <2>1 DEF ClosePeriod, FiscalRecord, FiscalFields
  <2>4. Boundary(now') = now + 1 /\ Boundary(now') - Period = Boundary(now)
    <3>1. (now + 1) - 0 = now + 1 /\ (now + 1) - Period = now - (Period - 1) BY <1>1
    <3> QED BY <1>5, <1>10, <3>1 DEF Boundary
  <2>5. Larger(Boundary(now'), first) = now + 1
    BY <1>1, <2>4 DEF Larger
  <2>6. Exported(now, now)' = 0 /\ Imported(now, now)' = 0
    BY <1>1, StoryGrows
  <2>7. /\ Exported(open, now) = Exported(Boundary(now), now)
        /\ Imported(open, now) = Imported(Boundary(now), now)
    BY <1>1, <1>7, NothingBefore DEF FiscalInv, first
  <2>8. ASSUME NEW a \in Int, a <= now
        PROVE  /\ Exported(a, now)' = Exported(a, now) + Plus(poi)
               /\ Imported(a, now)' = Imported(a, now) + Minus(poi)
    BY <1>1, <2>8, StoryGrows
  <2>9. PICK a \in Int : a = Boundary(now)
    BY <1>7
  <2>10. /\ fiscal'.lastExport = Exported(a, now)' /\ fiscal'.lastImport = Imported(a, now)'
    BY <1>3, <1>4, <1>7, <2>3, <2>7, <2>8, <2>9
  <2>11. /\ Boundary(now') - Period = a /\ Larger(Boundary(now'), first) = now'
    BY <2>4, <2>5, <2>9
  <2>12. PeriodsAddUp'
    <3>1. fiscal'.closed = (now' \div Period) - (first \div Period)
      BY <1>3, <1>4, <1>5, <1>6, <1>10, <2>3
    <3>2. fiscal'.export = scada'.export /\ fiscal'.import = scada'.import
      BY <1>2, <1>3, <1>4, <2>3
    <3> QED BY <1>8, <2>3, <2>6, <2>10, <2>11, <3>1, <3>2 DEF PeriodsAddUp
  <2> QED BY <1>2, <1>9, <2>2, <2>12 DEF FiscalInv, FiscalTypeOK
<1>11. CASE (now + 1) % Period # 0
  <2>1. fiscal' = m
    BY <1>11 DEF Observe, m
  <2>2. Boundary(now') = Boundary(now)
    <3>1. \A x, y \in Int : (x + 1) - (y + 1) = x - y OBVIOUS
    <3>2. PICK r \in Int : r = now % Period BY <1>5
    <3>3. (now + 1) - (r + 1) = now - r BY <1>1, <3>1
    <3> QED BY <1>5, <1>11, <3>2, <3>3 DEF Boundary
  <2>3. PICK a \in Int, b \in Int : /\ a = open /\ b = Boundary(now) - Period
                                    /\ a <= now /\ b <= now
    BY <1>1, <1>7
  <2>4. /\ Exported(a, now)' = Exported(a, now) + Plus(poi)
        /\ Imported(a, now)' = Imported(a, now) + Minus(poi)
        /\ Exported(b, a)' = Exported(b, a) /\ Imported(b, a)' = Imported(b, a)
    <3>1. now <= now BY <1>1
    <3> QED BY <1>1, <2>3, <3>1, StoryGrows
  <2>5. Larger(Boundary(now'), first) = a /\ Boundary(now') - Period = b
    BY <2>2, <2>3
  <2>6. PeriodsAddUp'
    <3>1. fiscal'.start = a /\ fiscal'.closed = (now' \div Period) - (first \div Period)
      BY <1>3, <1>4, <1>5, <1>11, <2>1, <2>3
    <3>2. fiscal'.export = scada'.export /\ fiscal'.import = scada'.import
      BY <1>2, <1>3, <1>4, <2>1
    <3>3. fiscal'.periodExport = Exported(a, now)' /\ fiscal'.periodImport = Imported(a, now)'
      BY <1>3, <1>4, <2>1, <2>3, <2>4
    <3>4. fiscal'.closed > 0 => /\ fiscal'.lastExport = Exported(b, a)'
                                /\ fiscal'.lastImport = Imported(b, a)'
      BY <1>3, <1>4, <2>1, <2>3, <2>4
    <3> QED BY <1>8, <2>5, <3>1, <3>2, <3>3, <3>4 DEF PeriodsAddUp
  <2> QED BY <1>2, <1>3, <1>9, <2>1, <2>6 DEF FiscalInv, FiscalTypeOK
<1> QED BY <1>5, <1>10, <1>11

(* Every period holds the energy of its ticks and no other, over any run from  *)
(* any start, however long the period and whatever the breaker does.           *)
THEOREM PeriodsBalance == MeterSpec => []PeriodsAddUp
<1>1. ASSUME MeterInit PROVE FiscalInv
  <2>1. /\ now \in Int /\ story = << >> /\ Period \in Nat \ {0}
        /\ scada = [import |-> 0, export |-> 0, station |-> 0]
        /\ fiscal = [import |-> 0, export |-> 0, start |-> now,
                     periodImport |-> 0, periodExport |-> 0, closed |-> 0,
                     lastImport |-> 0, lastExport |-> 0]
    BY <1>1, MeterAssumption DEF MeterInit
  <2>2. FiscalTypeOK BY <2>1 DEF FiscalTypeOK, FiscalRecord, FiscalFields
  <2>3. Larger(Boundary(now), now - Len(story)) = now
    <3>1. now % Period \in 0..(Period - 1) BY <2>1
    <3> QED BY <2>1, <3>1 DEF Larger, Boundary
  <2>4. Exported(now, now) = 0 /\ Imported(now, now) = 0
    <3>1. EndedBy(now) = 0 BY <2>1 DEF EndedBy, Larger
    <3>2. /\ ExportsOf(story) = << >> /\ ImportsOf(story) = << >>
      BY <2>1 DEF ExportsOf, ImportsOf
    <3>3. << >> \in Seq(Int) OBVIOUS
    <3>4. SumsOf(<< >>)[0] = 0 BY <3>3, SumFacts
    <3> QED BY <3>1, <3>2, <3>4 DEF Exported, Imported
  <2>5. now \div Period \in Int /\ now - Len(story) = now BY <2>1
  <2>6. PeriodsAddUp BY <2>1, <2>3, <2>4, <2>5 DEF PeriodsAddUp
  <2> QED BY <2>2, <2>6 DEF FiscalInv
<1>2. ASSUME FiscalInv, [MeterNext]_meterVars PROVE FiscalInv'
  <2>1. CASE MeterTick
    <3>1. PICK dc \in IF breaker = "Open" THEN {0} ELSE DcPowers,
               loss \in PcsLosses \cup {0}, power \in HvacPowers, idle \in 0..NUnits :
            LET ac  == dc - loss
                aux == StepSite(power, idle)
                poi == Poi(ac, Total(aux))
            IN /\ GridStep(poi, Total(aux)) /\ Observe(poi, now + 1)
               /\ now' = now + 1 /\ story' = Append(story, poi)
      BY <2>1 DEF MeterTick
    <3> DEFINE ac == dc - loss
               aux == StepSite(power, idle)
               poi == Poi(ac, Total(aux))
    <3>2. ac \in Int /\ aux \in ItemRecord
      BY MeterAssumption DEF StepSite, ItemRecord
    <3>3. Total(aux) \in Int
      BY <3>2, ItemsAddUp
    <3>4. poi \in Int /\ (breaker = "Open" => poi = 0)
      <4>1. Losses(ac) \in Int
        <5> HIDE DEF ac
        <5>1. NoLoad \in Int /\ LoadLoss \in Int BY MeterAssumption
        <5> QED BY <3>2, <5>1 DEF Losses
      <4> HIDE DEF ac, aux
      <4> QED BY <3>2, <3>3, <4>1 DEF Poi
    <3>5. /\ GridStep(poi, Total(aux)) /\ Observe(poi, now + 1)
          /\ now' = now + 1 /\ story' = Append(story, poi)
      BY <3>1
    <3> HIDE DEF poi, aux
    <3> QED BY <1>2, <3>3, <3>4, <3>5, FiscalStep
  <2>2. CASE UNCHANGED <<now, scada, fiscal, story>>
    BY <1>2, <2>2 DEF FiscalInv, FiscalTypeOK, PeriodsAddUp, Boundary, Exported, Imported, EndedBy
  <2> QED BY <1>2, <2>1, <2>2 DEF MeterNext, SwitchBreaker, meterVars
<1>3. FiscalInv => PeriodsAddUp BY DEF FiscalInv
<1>4. QED BY <1>1, <1>2, <1>3, PTL DEF MeterSpec
-------------------------------------------------------------------------------
(* The Modbus side. An answer under way is the answer to what was asked.       *)

AnswersRequest == wire = "answered" => reply.request = request

(* Whatever the scenario cuts and whenever, what a client hears is an answer   *)
(* to its own request and comes over a wire that is not in a dropout.          *)
THEOREM CutSaysNothing == MapSpec => CutWireIsSilent
<1>1. MapInit => AnswersRequest BY DEF MapInit, AnswersRequest
<1>2. AnswersRequest /\ [MapNext]_mapVars => AnswersRequest'
  <2> SUFFICES ASSUME AnswersRequest, [MapNext]_mapVars PROVE AnswersRequest'
    OBVIOUS
  <2>1. CASE Serve
    <3>1. reply' = ReadBank(request) /\ request' = request BY <2>1 DEF Serve
    <3>2. ReadBank(request).request = request BY DEF ReadBank
    <3> QED BY <3>1, <3>2 DEF AnswersRequest
  <2>2. CASE Ask BY <2>2 DEF Ask, Close, AnswersRequest
  <2>3. CASE Send BY <2>3 DEF Send, Close, AnswersRequest
  <2>4. CASE Connect BY <2>4 DEF Connect, AnswersRequest
  <2>5. CASE Publish BY <2>5 DEF Publish, AnswersRequest
  <2>6. CASE UNCHANGED mapVars BY <2>6 DEF mapVars, AnswersRequest
  <2> QED BY <2>1, <2>2, <2>3, <2>4, <2>5, <2>6 DEF MapNext
<1>3. AnswersRequest /\ [MapNext]_mapVars =>
        [heard' # heard => /\ ~Silent(windows, "modbus", Tick)
                           /\ heard'[2].request = request]_mapVars
  <2> SUFFICES ASSUME AnswersRequest, MapNext, heard' # heard
               PROVE  ~Silent(windows, "modbus", Tick) /\ heard'[2].request = request
    OBVIOUS
  <2>1. Send BY DEF MapNext, Publish, Connect, Ask, Serve
  <2>2. ~Offline /\ wire = "answered" /\ heard' = <<heard[2], reply>>
    BY <2>1 DEF Send, Cut
  <2> QED BY <2>2 DEF Offline, AnswersRequest
<1> QED BY <1>1, <1>2, <1>3, PTL DEF MapSpec, CutWireIsSilent
-------------------------------------------------------------------------------
(* A fold over windows none of which reaches a point leaves its reading alone. *)
LEMMA UntouchedValue ==
  ASSUME NEW ws, NEW n \in Nat, DOMAIN ws = 1..n, NEW surface, NEW p, NEW tick,
         \A i \in 1..n : ~Reaches(ws[i], surface, p, tick)
  PROVE  Value(ws, surface, p, tick) = [of |-> tick, exp |-> 0, nan |-> FALSE]
<1> DEFINE base == [of |-> tick, exp |-> 0, nan |-> FALSE]
           Step(i, read) == IF Reaches(ws[i], surface, p, tick) THEN Through(read, ws[i]) ELSE read
           Loop(f) == [s \in SUBSET (1..n) |->
                         IF s = {} THEN base ELSE Step(Max(s), f[s \ {Max(s)}])]
           it == CHOOSE f : f = Loop(f)
<1>1. Value(ws, surface, p, tick) = it[1..n]
  BY DEF Value, FoldLeft, MapThenFoldSet
<1> HIDE DEF base
<1>2. ASSUME NEW s \in SUBSET (1..n), s # {}
      PROVE  /\ Max(s) \in s /\ Max(s) \in 1..n /\ \A y \in s : Max(s) >= y
             /\ \A read : Step(Max(s), read) = read
  <2>1. Max(s) \in s /\ \A y \in s : Max(s) >= y BY <1>2, MaxOfIndices
  <2> QED BY <2>1
<1> HIDE DEF Step
<1>3. \E f : f = Loop(f)
  <2> DEFINE same == [s \in SUBSET (1..n) |-> base]
  <2>1. ASSUME NEW s \in SUBSET (1..n)
        PROVE  same[s] = IF s = {} THEN base ELSE Step(Max(s), same[s \ {Max(s)}])
    <3>1. same[s] = base /\ same[s \ {Max(s)}] = base OBVIOUS
    <3> HIDE DEF same
    <3> QED BY <1>2, <3>1
  <2>2. same = [s \in SUBSET (1..n) |-> same[s]] OBVIOUS
  <2> HIDE DEF same
  <2>3. same = Loop(same) BY <2>1, <2>2
  <2> QED BY <2>3
<1>4. it = Loop(it) BY <1>3
<1> HIDE DEF it
<1>5. /\ it[{}] = base
      /\ \A s \in SUBSET (1..n) : s # {} => it[s] = it[s \ {Max(s)}]
  <2>1. \A s \in SUBSET (1..n) : it[s] = IF s = {} THEN base ELSE Step(Max(s), it[s \ {Max(s)}])
    BY <1>4
  <2> QED BY <1>2, <2>1
<1> DEFINE S == {m \in Nat : \A s \in SUBSET (1..n) : s \subseteq 1..m => it[s] = base}
<1>6. 0 \in S
  <2>1. \A s : s \subseteq 1..0 => s = {} OBVIOUS
  <2> QED BY <1>5, <2>1
<1>7. ASSUME NEW m \in Nat, m \in S PROVE m + 1 \in S
  <2> SUFFICES ASSUME NEW s \in SUBSET (1..n), s \subseteq 1..(m + 1) PROVE it[s] = base
    OBVIOUS
  <2>1. CASE s = {} BY <1>5, <2>1
  <2>2. CASE s # {}
    <3>1. s \ {Max(s)} \subseteq 1..m
      <4>1. Max(s) \in 1..(m + 1) /\ \A y \in s : Max(s) >= y BY <1>2, <2>2
      <4>2. PICK x : x = Max(s) OBVIOUS
      <4>3. ASSUME NEW y \in s, y # x PROVE y \in 1..m
        <5>1. y \in 1..(m + 1) /\ x \in 1..(m + 1) /\ x >= y BY <4>1, <4>2
        <5> QED BY <4>3, <5>1
      <4> QED BY <4>2, <4>3
    <3>2. it[s \ {Max(s)}] = base BY <1>7, <3>1
    <3> QED BY <1>5, <2>2, <3>2
  <2> QED BY <2>1, <2>2
<1>8. Nat \subseteq S
  <2> HIDE DEF S
  <2> QED BY <1>6, <1>7, NatSetInduction
<1> QED BY <1>1, <1>8 DEF base

Counter43 == Point("event_counter", Site, "event", "U16", 1, 43)

(* No other point of the map has its name, nor register 43.                    *)
Elsewhere(p) == /\ p.name # "event_counter"
                /\ p.space = "input" => 43 \notin p.addr..(p.addr + Words(p.enc) - 1)

LEMMA OnlyCounter ==
  /\ Counter43 \in SignalTable
  /\ \A p \in SignalTable : p = Counter43 \/ Elsewhere(p)
<1>1. \A p \in GridPoints : Elsewhere(p) BY DEF GridPoints, Point, Elsewhere, Words
<1>2. \A p \in RunPoints : Elsewhere(p) BY DEF RunPoints, Point, Elsewhere, Words
<1>3. \A p \in AuxPoints : Elsewhere(p) BY DEF AuxPoints, Point, Elsewhere, Words
<1>4. \A p \in RevenuePoints : Elsewhere(p) BY DEF RevenuePoints, Point, Elsewhere, Words
<1>5. \A p \in SiteAlarmPoints : p = Counter43 \/ Elsewhere(p)
  BY DEF SiteAlarmPoints, Counter43, AsWord, Point, Elsewhere, Words
<1>6. \A p \in ControlPoints : Elsewhere(p)
  BY DEF ControlPoints, Point, Elsewhere, Words
<1>7. ASSUME NEW b \in Blocks PROVE \A p \in BlockPointsOf(b) : Elsewhere(p)
  <2>1. b \in Nat BY BlocksAssumption DEF Blocks
  <2>2. \A p \in BlockPoints(b) : Elsewhere(p)
    BY <2>1 DEF BlockPoints, BlockBase, BlockExtBase, Point, Elsewhere, Words
  <2>3. \A p \in BlockAlarmPoints(b) : Elsewhere(p)
    BY <2>1 DEF BlockAlarmPoints, BlockBase, BlockExtBase, AsWord, Point, Elsewhere, Words
  <2> QED BY <2>2, <2>3 DEF BlockPointsOf
<1>8. Counter43 \in SiteAlarmPoints BY DEF SiteAlarmPoints, Counter43
<1> QED BY <1>1, <1>2, <1>3, <1>4, <1>5, <1>6, <1>7, <1>8 DEF SignalTable

LEMMA CounterIsIt == CounterPoint = Counter43
<1>1. Counter43.name = "event_counter" BY DEF Counter43, Point
<1> QED BY <1>1, OnlyCounter DEF CounterPoint, Elsewhere

LEMMA CounterRegister ==
  ASSUME NEW w, w = WordsOf(Counter43)
  PROVE  Register("input", 43) = w[1]
<1> DEFINE on == {p \in SignalTable : /\ p.space = "input"
                                      /\ 43 \in p.addr..(p.addr + Words(p.enc) - 1)}
<1>1. Counter43.space = "input" /\ Counter43.addr = 43 /\ Counter43.enc = "U16"
  BY DEF Counter43, Point
<1>2. on = {Counter43}
  <2>1. Counter43 \in on
    <3>1. 43 \in 43..(43 + 1 - 1) OBVIOUS
    <3> QED BY <1>1, <3>1, OnlyCounter DEF Words
  <2> QED BY <2>1, OnlyCounter DEF Elsewhere
<1>3. (CHOOSE p \in on : \A q \in on : q.addr <= p.addr) = Counter43
  BY <1>1, <1>2
<1>4. on # {} BY <1>2
<1>5. Register("input", 43)
        = IF on = {} THEN 0
          ELSE WordsOf(CHOOSE p \in on : \A q \in on : q.addr <= p.addr)
                 [43 - (CHOOSE p \in on : \A q \in on : q.addr <= p.addr).addr + 1]
  BY DEF Register
<1> HIDE DEF on
<1>6. 43 - 43 + 1 = 1 OBVIOUS
<1> QED BY <1>1, <1>3, <1>4, <1>5, <1>6

MapTypeOK ==
  /\ past \in Seq([plant : Plants, count : Nat, tick : Nat]) /\ past # << >>
  /\ windows \in Seq(Windows)
  /\ request \in Requests \cup {Nothing.request}

(* A reading under no freeze is the log's counter.                             *)
LEMMA CounterReads ==
  ASSUME MapTypeOK, Lying(Counter43, "freeze", Tick) = {}
  PROVE  WordsOf(Counter43) = <<CounterOf(At(Tick).count)>>
<1> DEFINE c == CounterOf(At(Tick).count)
           n == Len(windows)
<1>1. /\ Counter43.node = Site /\ Counter43.name = "event_counter" /\ Counter43.enc = "U16"
      /\ Counter43.scale = 1 /\ Counter43.class = "event" /\ Counter43.word = FALSE
  BY DEF Counter43, Point
<1>2. c \in 0..(Base - 1) /\ Base \in Nat \ {0}
  <2>1. Len(past) \in Nat \ {0} /\ past[Len(past)].count \in Nat
    <3>1. past \in Seq([plant : Plants, count : Nat, tick : Nat]) /\ past # << >>
      BY DEF MapTypeOK
    <3>2. Len(past) \in Nat \ {0} BY <3>1, EmptySeq, LenProperties
    <3>3. Len(past) \in 1..Len(past) BY <3>2
    <3>4. past[Len(past)] \in [plant : Plants, count : Nat, tick : Nat]
      <4> DEFINE R == [plant : Plants, count : Nat, tick : Nat]
      <4> HIDE DEF R
      <4>1. past \in Seq(R) BY <3>1 DEF R
      <4>2. past[Len(past)] \in R BY <3>3, <4>1, ElementOfSeq
      <4> QED BY <4>2 DEF R
    <3> QED BY <3>2, <3>4
  <2>2. At(Tick).count \in Nat
    <3>1. (Len(past) - 1) + 1 = Len(past) BY <2>1
    <3> QED BY <2>1, <3>1 DEF At, Tick
  <2>3. PICK x \in Nat : x = At(Tick).count BY <2>2
  <2>4. Base \in Nat \ {0} BY BaseAssumption
  <2>5. x % Base \in 0..(Base - 1) BY <2>4
  <2> QED BY <2>3, <2>4, <2>5 DEF CounterOf
<1>3. n \in Nat /\ DOMAIN windows = 1..n /\ \A i \in 1..n : windows[i] \in Windows
  BY DEF MapTypeOK
<1>4. \A i \in 1..n : ~Reaches(windows[i], "modbus", Counter43, Tick)
  <2> SUFFICES ASSUME NEW i \in 1..n, Reaches(windows[i], "modbus", Counter43, Tick) PROVE FALSE
    OBVIOUS
  <2>1. Covers(windows[i], Tick) /\ Selects(windows[i].kind, windows[i].points, Counter43)
    BY DEF Reaches, OpenOn
  <2>2. windows[i].kind = "freeze" BY <1>1, <2>1 DEF Selects
  <2>3. i \in Lying(Counter43, "freeze", Tick) BY <1>3, <2>1, <2>2 DEF Lying
  <2> QED BY <2>3
<1>5. Value(windows, "modbus", Counter43, Tick) = [of |-> Tick, exp |-> 0, nan |-> FALSE]
  BY <1>3, <1>4, UntouchedValue
<1>6. ~Flipped(windows, "modbus", Counter43, Tick)
  <2> DEFINE second(w) == ((Tick - w.start) * w.rate) % 600 >= 300
             flips == {i \in DOMAIN windows :
                         /\ windows[i].kind = "chatter" /\ second(windows[i])
                         /\ Reaches(windows[i], "modbus", Counter43, Tick)}
  <2>1. flips = {} BY <1>3, <1>4
  <2>2. Flipped(windows, "modbus", Counter43, Tick) <=> Cardinality(flips) % 2 = 1
    BY DEF Flipped
  <2> HIDE DEF flips
  <2>3. Cardinality(flips) = 0 BY <2>1, FS_EmptySet
  <2> QED BY <2>2, <2>3
<1>7. Extract(Counter43, At(Tick)) = 1000 * c
  BY <1>1 DEF Extract, SiteReads
<1> HIDE DEF c
<1>8. Counts(Counter43, 1000 * c, 0) = c
  <2>1. Tens(0) = 1 /\ Tens(-0) = 1 BY DEF Tens
  <2>2. Counts(Counter43, 1000 * c, 0) = RoundTo((1000 * c) * 1 * 1, 1000 * 1)
    BY <1>1, <2>1 DEF Counts
  <2>3. RoundTo((1000 * c) * 1 * 1, 1000 * 1) = c BY <1>2 DEF RoundTo
  <2> QED BY <2>2, <2>3
<1>9. Encode(Counter43, c) = <<c>>
  <2>1. Words("U16") = 1 /\ ~Signed("U16") /\ Modulus("U16") = Base
    BY DEF Words, Signed, Modulus
  <2>2. Saturated(Counter43, c) = c BY <1>1, <1>2, <2>1 DEF Saturated, Pegged
  <2>3. c % Base = c BY <1>2
  <2>4. Encode(Counter43, c)
          = IF Words("U16") = 2
            THEN <<(Saturated(Counter43, c) % Modulus("U16")) \div Base,
                   (Saturated(Counter43, c) % Modulus("U16")) % Base>>
            ELSE <<Saturated(Counter43, c) % Modulus("U16")>>
    BY <1>1 DEF Encode
  <2> QED BY <2>1, <2>2, <2>3, <2>4
<1> DEFINE read == Value(windows, "modbus", Counter43, Tick)
<1>10. WordsOf(Counter43) = Encode(Counter43, Counts(Counter43, Extract(Counter43, At(read.of)), read.exp))
  BY <1>6 DEF WordsOf
<1>11. read.of = Tick /\ read.exp = 0 BY <1>5
<1> HIDE DEF read
<1>12. WordsOf(Counter43) = <<c>> BY <1>7, <1>8, <1>9, <1>10, <1>11
<1> QED BY <1>12 DEF c

(* What an answer says of the counter is the log's count of its tick, unless   *)
(* a freeze held it.                                                           *)
AnswerTrue(a) ==
  Counts43(a) => /\ a.tick \in 0..Tick
                 /\ Decoded(CounterPoint, a) = CounterOf(At(a.tick).count)

CounterInv == MapTypeOK /\ AnswerTrue(heard[1]) /\ AnswerTrue(heard[2]) /\ AnswerTrue(reply)

LEMMA NothingCounts == ~Counts43(Nothing)
<1>1. Counter43 \notin Inside(Nothing)
  <2>1. Len(Nothing.words) = 0 /\ Nothing.request.addr = 0 BY DEF Nothing
  <2>2. Counter43.addr = 43 /\ Words(Counter43.enc) = 1 BY DEF Counter43, Point, Words
  <2> QED BY <2>1, <2>2 DEF Inside
<1> QED BY <1>1, CounterIsIt DEF Counts43

(* A publication changes neither the past nor what a freeze selects.           *)
LEMMA PublishKeeps ==
  ASSUME MapTypeOK, Publish
  PROVE  /\ MapTypeOK'
         /\ \A a : AnswerTrue(a) => AnswerTrue(a)'
<1>1. /\ past \in Seq([plant : Plants, count : Nat, tick : Nat])
      /\ Len(past) \in Nat \ {0}
  BY EmptySeq, LenProperties DEF MapTypeOK
<1>2. past[Len(past)].count \in Nat /\ At(Tick) = past[Len(past)]
  <2>1. (Len(past) - 1) + 1 = Len(past) /\ Len(past) \in 1..Len(past) BY <1>1
  <2> DEFINE R == [plant : Plants, count : Nat, tick : Nat]
  <2>2. \A r \in R : r.count \in Nat OBVIOUS
  <2> HIDE DEF R
  <2>3. past \in Seq(R) BY <1>1 DEF R
  <2>4. past[Len(past)] \in R BY <2>1, <2>3, ElementOfSeq
  <2> QED BY <2>1, <2>2, <2>4 DEF At, Tick
<1>3. PICK plant \in Plants :
        past' = Append(past, [plant |-> plant, count |-> At(Tick).count + plant.events,
                              tick |-> Tick + 1])
  BY DEF Publish
<1> DEFINE next == [plant |-> plant, count |-> At(Tick).count + plant.events, tick |-> Tick + 1]
<1>4. next \in [plant : Plants, count : Nat, tick : Nat]
  <2>1. plant.events \in Nat BY MapAssumption
  <2>2. Tick \in Nat BY <1>1 DEF Tick
  <2> QED BY <1>2, <2>1, <2>2
<1>5. /\ past' \in Seq([plant : Plants, count : Nat, tick : Nat])
      /\ Len(past') = Len(past) + 1
      /\ \A i \in 1..Len(past) : past'[i] = past[i]
  <2> DEFINE R == [plant : Plants, count : Nat, tick : Nat]
  <2> HIDE DEF R, next
  <2>1. past \in Seq(R) /\ next \in R BY <1>1, <1>4 DEF R
  <2>2. past' = Append(past, next) BY <1>3 DEF next
  <2> QED BY <2>1, <2>2, AppendProperties DEF R
<1>6. /\ DOMAIN windows' = DOMAIN windows
      /\ \A i \in DOMAIN windows :
           /\ windows[i] \in Windows /\ windows'[i] \in Windows
           /\ windows'[i].kind = windows[i].kind /\ windows'[i].points = windows[i].points
           /\ windows'[i].start = windows[i].start /\ windows'[i].end = windows[i].end
  <2>1. \A i \in DOMAIN windows : windows[i] \in Windows BY DEF MapTypeOK
  <2>2. Tick \in Nat BY <1>1 DEF Tick
  <2>3. windows' = [i \in DOMAIN windows |->
                      IF windows[i].kind = "freeze" /\ windows[i].start = Tick
                      THEN [windows[i] EXCEPT !.frozen = Tick] ELSE windows[i]]
    BY DEF Publish
  <2> QED BY <2>1, <2>2, <2>3 DEF Windows
<1>7. windows' \in Seq(Windows)
  <2>1. PICK n \in Nat : DOMAIN windows = 1..n BY DEF MapTypeOK
  <2>2. windows' = [i \in 1..n |-> windows'[i]] BY <2>1 DEF Publish
  <2>3. \A i \in 1..n : windows'[i] \in Windows BY <1>6, <2>1
  <2> QED BY <2>1, <2>2, <2>3, IsASeq
<1>8. MapTypeOK'
  <2>1. past' # << >> BY <1>1, <1>5
  <2>2. request' = request BY DEF Publish
  <2> QED BY <1>5, <1>7, <2>1, <2>2 DEF MapTypeOK
<1>9. ASSUME NEW a, AnswerTrue(a), Counts43(a)'
      PROVE  a.tick \in 0..Tick' /\ Decoded(CounterPoint, a) = CounterOf(At(a.tick)'.count)
  <2>1. Lying(CounterPoint, "freeze", a.tick)' = Lying(CounterPoint, "freeze", a.tick)
    BY <1>6 DEF Lying, Covers
  <2>2. Counts43(a) BY <1>9, <2>1 DEF Counts43
  <2>3. a.tick \in 0..Tick /\ Decoded(CounterPoint, a) = CounterOf(At(a.tick).count)
    BY <1>9, <2>2 DEF AnswerTrue
  <2>4. a.tick + 1 \in 1..Len(past) /\ a.tick \in 0..Tick'
    <3>1. Tick = Len(past) - 1 /\ Tick' = Len(past') - 1 BY DEF Tick
    <3>2. Len(past) \in Nat /\ Len(past') = Len(past) + 1 BY <1>1, <1>5
    <3>3. a.tick \in 0..Tick BY <2>3
    <3> HIDE DEF next
    <3>4. PICK k, t : k \in Nat /\ k = Len(past) /\ t = a.tick BY <3>2
    <3>5. t \in 0..(k - 1) BY <3>1, <3>3, <3>4
    <3>6. Tick' = k BY <3>1, <3>2, <3>4
    <3> QED BY <3>4, <3>5, <3>6
  <2> QED BY <1>5, <2>3, <2>4 DEF At
<1>10. \A a : AnswerTrue(a) => AnswerTrue(a)'
  BY <1>9 DEF AnswerTrue, At
<1> QED BY <1>8, <1>10

(* The register a request covers carries the counter.                          *)
LEMMA ServedCounter ==
  ASSUME MapTypeOK, NEW req \in Requests \cup {Nothing.request}, Counts43(ReadBank(req))
  PROVE  Decoded(CounterPoint, ReadBank(req)) = CounterOf(At(Tick).count)
<1> DEFINE a == ReadBank(req)
<1>1. /\ a.request = req /\ a.tick = Tick
      /\ a.words = IF Refused(req) THEN << >>
                   ELSE [i \in 1..req.count |-> Register(req.space, req.addr + i - 1)]
  BY DEF ReadBank
<1>2. req.addr \in Nat /\ req.count \in Nat BY MapAssumption DEF Nothing
<1>3. /\ Counter43.space = "input" /\ Counter43.addr = 43 /\ Counter43.enc = "U16"
      /\ Words("U16") = 1 /\ ~Signed("U16")
  BY DEF Counter43, Point, Words, Signed
<1> HIDE DEF a
<1>4. /\ Counter43 \in Inside(a) /\ Lying(Counter43, "freeze", a.tick) = {}
  BY CounterIsIt DEF Counts43, a
<1>5. /\ req.space = "input" /\ req.addr <= 43 /\ 44 <= req.addr + Len(a.words)
  <2>1. 43 + 1 = 44 OBVIOUS
  <2>2. /\ Counter43.space = a.request.space /\ Counter43.addr >= a.request.addr
        /\ Counter43.addr + Words(Counter43.enc) <= a.request.addr + Len(a.words)
    BY <1>4 DEF Inside
  <2> QED BY <1>1, <1>2, <1>3, <2>1, <2>2
<1>6. ~Refused(req)
  <2>1. Len(<< >>) = 0 OBVIOUS
  <2> QED BY <1>1, <1>2, <1>5, <2>1
<1>7. Len(a.words) = req.count BY <1>1, <1>2, <1>6
<1>8. a.words[43 - req.addr + 1] = Register("input", 43)
  <2>1. PICK j \in 1..req.count : j = 43 - req.addr + 1 BY <1>2, <1>5, <1>7
  <2>2. req.addr + j - 1 = 43 BY <1>2, <2>1
  <2> QED BY <1>1, <1>5, <1>6, <2>1, <2>2
<1>9. WordsOf(Counter43) = <<CounterOf(At(Tick).count)>>
  BY <1>1, <1>4, CounterReads
<1>10. Register("input", 43) = CounterOf(At(Tick).count)
  BY <1>9, CounterRegister
<1>11. Decoded(Counter43, a) = a.words[43 - req.addr + 1]
  BY <1>1, <1>3 DEF Decoded
<1> QED BY <1>8, <1>10, <1>11, CounterIsIt DEF a

LEMMA MissedAcrossTheWrap ==
  ASSUME NEW d \in Nat \ {0}, NEW a \in Nat, NEW b \in Nat
  PROVE  ((b % d) - (a % d)) % d = (b - a) % d
<1> DEFINE q == a \div d  r == a % d
           u == b \div d  s == b % d
           v == (s - r) \div d  t == (s - r) % d
           w == (b - a) \div d  z == (b - a) % d
<1>0. ASSUME NEW x \in Int
      PROVE  x \div d \in Int /\ x % d \in 0..(d - 1) /\ x = d * (x \div d) + (x % d)
  OBVIOUS
<1>1. q \in Int /\ r \in 0..(d - 1) /\ a = d * q + r BY <1>0
<1>2. u \in Int /\ s \in 0..(d - 1) /\ b = d * u + s BY <1>0
<1> HIDE DEF q, r, u, s
<1>3. v \in Int /\ t \in 0..(d - 1) /\ s - r = d * v + t
  <2>1. s - r \in Int BY <1>1, <1>2
  <2> QED BY <1>0, <2>1
<1>4. w \in Int /\ z \in 0..(d - 1) /\ b - a = d * w + z
  <2>1. b - a \in Int OBVIOUS
  <2> QED BY <1>0, <2>1
<1> HIDE DEF v, t, w, z
<1>5. d * w + z = d * (u - q + v) + t
  <2>1. PICK du \in Int, dq \in Int, dv \in Int, dw \in Int :
          du = d * u /\ dq = d * q /\ dv = d * v /\ dw = d * w
    BY <1>1, <1>2, <1>3, <1>4
  <2>2. d * (u - q + v) = du - dq + dv BY <1>1, <1>2, <1>3, <2>1
  <2>3. /\ a = dq + r /\ b = du + s /\ s - r = dv + t /\ b - a = dw + z
    BY <1>1, <1>2, <1>3, <1>4, <2>1
  <2>4. dw + z = (du - dq + dv) + t 
    <3>1. r \in Int /\ s \in Int /\ t \in Int /\ z \in Int BY <1>1, <1>2, <1>3, <1>4
    <3> QED BY <2>1, <2>3, <3>1
  <2> QED BY <2>1, <2>2, <2>4
<1>6. z = t
  <2>1. PICK x \in Int : x = u - q + v BY <1>1, <1>2, <1>3
  <2>2. d * w + z = d * x + t BY <1>5, <2>1
  <2> QED BY <1>3, <1>4, <2>2, QuotientsAreUnique
<1> QED BY <1>6 DEF r, s, t, z

(* Two readings of the counter, however far apart, tell how many events came   *)
(* between them up to a whole turn of the register, at every request that      *)
(* covers it and under every schedule of faults that does not freeze it.       *)
THEOREM CounterTold == MapSpec => []CounterTellsMissed
<1>1. ASSUME MapInit PROVE CounterInv
  <2>1. PICK plant \in Plants : past = <<[plant |-> plant, count |-> FirstCount, tick |-> 0]>>
    BY <1>1 DEF MapInit
  <2>2. MapTypeOK
    <3>1. past \in Seq([plant : Plants, count : Nat, tick : Nat]) /\ past # << >>
      BY <2>1, MapAssumption
    <3>2. windows \in Seq(Windows) BY <1>1, MapAssumption DEF MapInit
    <3> QED BY <1>1, <3>1, <3>2 DEF MapInit, MapTypeOK
  <2> QED BY <1>1, <2>2, NothingCounts DEF MapInit, CounterInv, AnswerTrue
<1>2. ASSUME CounterInv, [MapNext]_mapVars PROVE CounterInv'
  <2> USE <1>2 DEF CounterInv
  <2>1. CASE Publish
    <3>1. MapTypeOK' /\ \A a : AnswerTrue(a) => AnswerTrue(a)' BY <2>1, PublishKeeps
    <3>2. heard' = heard /\ reply' = reply BY <2>1 DEF Publish
    <3> QED BY <3>1, <3>2 DEF AnswerTrue, At
  <2>2. ASSUME UNCHANGED <<past, windows>>
        PROVE  \A a : AnswerTrue(a) => AnswerTrue(a)'
    BY <2>2 DEF AnswerTrue, Counts43, Lying, At, Tick
  <2>3. CASE Serve
    <3>1. UNCHANGED <<past, windows, request, heard>> /\ reply' = ReadBank(request)
      BY <2>3 DEF Serve
    <3>2. AnswerTrue(ReadBank(request))
      <4>1. ReadBank(request).tick = Tick /\ Tick \in 0..Tick
        BY EmptySeq, LenProperties DEF ReadBank, Tick, MapTypeOK
      <4> QED BY <4>1, ServedCounter DEF AnswerTrue, MapTypeOK
    <3> QED BY <2>2, <3>1, <3>2 DEF MapTypeOK
  <2>4. CASE Connect BY <2>2, <2>4 DEF Connect, MapTypeOK
  <2>8. AnswerTrue(Nothing) BY NothingCounts DEF AnswerTrue
  <2>5. CASE Ask
    BY <2>2, <2>5, <2>8 DEF Ask, Close, MapTypeOK
  <2>6. CASE Send
    BY <2>2, <2>6, <2>8 DEF Send, Close, MapTypeOK
  <2>7. CASE UNCHANGED mapVars BY <2>2, <2>7 DEF mapVars, MapTypeOK
  <2> QED BY <2>1, <2>3, <2>4, <2>5, <2>6, <2>7 DEF MapNext
<1>3. ASSUME CounterInv PROVE CounterTellsMissed
  <2> SUFFICES ASSUME Counts43(heard[1]), Counts43(heard[2])
               PROVE  (Decoded(CounterPoint, heard[2]) - Decoded(CounterPoint, heard[1])) % Base
                        = (At(heard[2].tick).count - At(heard[1].tick).count) % Base
    BY DEF CounterTellsMissed
  <2>1. /\ heard[1].tick \in 0..Tick /\ heard[2].tick \in 0..Tick
        /\ Decoded(CounterPoint, heard[1]) = At(heard[1].tick).count % Base
        /\ Decoded(CounterPoint, heard[2]) = At(heard[2].tick).count % Base
    BY <1>3 DEF CounterInv, AnswerTrue, CounterOf
  <2>2. \A t \in 0..Tick : At(t).count \in Nat
    <3> SUFFICES ASSUME NEW t \in 0..Tick PROVE At(t).count \in Nat
      OBVIOUS
    <3> DEFINE R == [plant : Plants, count : Nat, tick : Nat]
    <3>1. \A r \in R : r.count \in Nat OBVIOUS
    <3> HIDE DEF R
    <3>2. past \in Seq(R) BY <1>3 DEF CounterInv, MapTypeOK, R
    <3>3. Len(past) \in Nat BY <3>2, LenProperties
    <3>4. t + 1 \in 1..Len(past) BY <3>3 DEF Tick
    <3>5. past[t + 1] \in R BY <3>2, <3>4, ElementOfSeq
    <3> QED BY <3>1, <3>5 DEF At
  <2>3. Base \in Nat \ {0} BY BaseAssumption
  <2> QED BY <2>1, <2>2, <2>3, MissedAcrossTheWrap
<1> QED BY <1>1, <1>2, <1>3, PTL DEF MapSpec
-------------------------------------------------------------------------------
(* What the registers can say.                                                 *)
IsPower(f, b, n) == f = [k \in 0..n |-> IF k = 0 THEN 1 ELSE b * f[k - 1]]

LEMMA PowerExists ==
  ASSUME NEW b \in Nat \ {0}
  PROVE  \A n \in Nat : \E f : IsPower(f, b, n) /\ f[n] \in Nat \ {0}
<1> DEFINE S == {n \in Nat : \E f : IsPower(f, b, n) /\ f[n] \in Nat \ {0}}
<1>1. 0 \in S
  <2>1. IsPower([k \in 0..0 |-> 1], b, 0) BY DEF IsPower
  <2>2. [k \in 0..0 |-> 1][0] \in Nat \ {0} OBVIOUS
  <2> QED BY <2>1, <2>2
<1>2. ASSUME NEW n \in Nat, n \in S PROVE n + 1 \in S
  <2>1. PICK f : IsPower(f, b, n) /\ f[n] \in Nat \ {0} BY <1>2
  <2> DEFINE g == [k \in 0..(n + 1) |-> IF k = n + 1 THEN b * f[n] ELSE f[k]]
  <2>2. \A k \in 0..n : g[k] = f[k] OBVIOUS
  <2>3. ASSUME NEW k \in 0..(n + 1) PROVE g[k] = IF k = 0 THEN 1 ELSE b * g[k - 1]
    <3>1. CASE k = n + 1
      <4>1. g[k] = b * f[n] /\ k # 0 /\ k - 1 = n /\ n \in 0..n BY <3>1
      <4> HIDE DEF g
      <4> QED BY <2>2, <4>1
    <3>2. CASE k # n + 1
      <4>1. k \in 0..n /\ (k # 0 => k - 1 \in 0..n) BY <3>2
      <4>2. f[k] = IF k = 0 THEN 1 ELSE b * f[k - 1] BY <2>1, <4>1 DEF IsPower
      <4> HIDE DEF g
      <4> QED BY <2>2, <4>1, <4>2
    <3> QED BY <3>1, <3>2
  <2>4. g = [k \in 0..(n + 1) |-> g[k]] OBVIOUS
  <2>5. g[n + 1] = b * f[n] OBVIOUS
  <2> HIDE DEF g
  <2>6. IsPower(g, b, n + 1) BY <2>3, <2>4 DEF IsPower
  <2>7. b * f[n] \in Nat \ {0}
    <3>1. PICK m \in Nat \ {0} : m = f[n] BY <2>1
    <3>2. b * m \in Nat \ {0} OBVIOUS
    <3> QED BY <3>1, <3>2
  <2> QED BY <2>5, <2>6, <2>7
<1>3. Nat \subseteq S
  <2> HIDE DEF S
  <2> QED BY <1>1, <1>2, NatSetInduction
<1> QED BY <1>3

LEMMA PowerPositive ==
  ASSUME NEW b \in Nat \ {0}, NEW n \in Nat PROVE Power(b, n) \in Nat \ {0}
<1> DEFINE to == CHOOSE f : f = [k \in 0..n |-> IF k = 0 THEN 1 ELSE b * f[k - 1]]
<1>1. PICK f : IsPower(f, b, n) /\ f[n] \in Nat \ {0} BY PowerExists
<1>2. Power(b, n) = to[n] BY DEF Power
<1>3. to = [k \in 0..n |-> IF k = 0 THEN 1 ELSE b * to[k - 1]] BY <1>1 DEF IsPower
<1> HIDE DEF to
<1> DEFINE S == {k \in Nat : k <= n => to[k] \in Nat \ {0}}
<1>4. 0 \in S
  <2>1. to[0] = 1 BY <1>3
  <2> QED BY <2>1
<1>5. ASSUME NEW k \in Nat, k \in S PROVE k + 1 \in S
  <2> SUFFICES ASSUME k + 1 <= n PROVE to[k + 1] \in Nat \ {0} OBVIOUS
  <2>1. PICK m \in Nat \ {0} : m = to[k] BY <1>5
  <2>2. k + 1 \in 0..n /\ k + 1 # 0 /\ (k + 1) - 1 = k OBVIOUS
  <2>3. \A j \in 0..n : j # 0 => to[j] = b * to[j - 1] BY <1>3
  <2>4. to[k + 1] = b * m BY <2>1, <2>2, <2>3
  <2>5. b * m \in Nat \ {0} OBVIOUS
  <2> QED BY <2>4, <2>5
<1>6. Nat \subseteq S
  <2> HIDE DEF S
  <2> QED BY <1>4, <1>5, NatSetInduction
<1> QED BY <1>2, <1>6

LEMMA TensNatural ==
  ASSUME NEW n \in Int PROVE Tens(n) \in Nat \ {0}
<1>1. CASE n > 0
  <2>1. n \in Nat /\ 10 \in Nat \ {0} BY <1>1
  <2>2. Power(10, n) \in Nat \ {0} BY <2>1, PowerPositive
  <2> QED BY <1>1, <2>2 DEF Tens
<1>2. CASE ~(n > 0) BY <1>2 DEF Tens
<1> QED BY <1>1, <1>2

(* A rounded count is at most half a count away from the value.                *)
LEMMA RoundsNear ==
  ASSUME NEW x \in Int, NEW n \in Nat \ {0}
  PROVE  RoundTo(x, n) \in Int /\ 2 * (RoundTo(x, n) * n - x) \in (-n)..n
<1> DEFINE d == 2 * n
<1>1. d \in Nat \ {0} OBVIOUS
<1>2. ASSUME NEW y \in Nat
      PROVE  /\ (2 * y + n) \div d \in Nat
             /\ 2 * (((2 * y + n) \div d) * n - y) \in (-n)..n
  <2> DEFINE k == 2 * y + n
             q == k \div d
             r == k % d
  <2>1. k \in Nat OBVIOUS
  <2>2. q \in Nat /\ r \in 0..(d - 1) /\ k = d * q + r
    <3> HIDE DEF k, d
    <3> QED BY <1>1, <2>1, DivMod
  <2> HIDE DEF q, r
  <2>3. PICK m \in Nat : m = q * n BY <2>2
  <2>4. d * q = 2 * m BY <2>2, <2>3
  <2>5. 2 * y + n = 2 * m + r /\ r \in 0..(2 * n - 1) BY <2>2, <2>4
  <2>6. 2 * (m - y) \in (-n)..n BY <2>3, <2>5
  <2> QED BY <2>2, <2>3, <2>6 DEF q
<1>3. CASE x >= 0
  <2>1. x \in Nat BY <1>3
  <2>2. RoundTo(x, n) = (2 * x + n) \div d BY <1>3 DEF RoundTo
  <2> HIDE DEF d
  <2> QED BY <1>2, <2>1, <2>2
<1>4. CASE ~(x >= 0)
  <2>1. -x \in Nat /\ 2 * (-x) + n = n - 2 * x BY <1>4
  <2>2. RoundTo(x, n) = -((n - 2 * x) \div d) BY <1>4 DEF RoundTo
  <2> HIDE DEF d
  <2>3. PICK q \in Nat : q = (n - 2 * x) \div d /\ 2 * (q * n - (-x)) \in (-n)..n
    BY <1>2, <2>1
  <2>4. PICK m \in Int : m = q * n OBVIOUS
  <2>5. (-q) * n = -m BY <2>4
  <2>6. 2 * (m + x) \in (-n)..n BY <2>3, <2>4
  <2>7. 2 * ((-m) - x) \in (-n)..n BY <2>6
  <2> QED BY <2>2, <2>3, <2>5, <2>7
<1> QED BY <1>3, <1>4

LEMMA RoundsPast ==
  ASSUME NEW x \in Int, NEW n \in Nat \ {0}, NEW m \in Int
  PROVE  /\ x >= m * n => RoundTo(x, n) >= m
         /\ x <= m * n => RoundTo(x, n) <= m
<1>1. PICK k \in Int : k = RoundTo(x, n) /\ 2 * (k * n - x) \in (-n)..n BY RoundsNear
<1>2. ASSUME NEW a \in Int, NEW b \in Int, a > b PROVE a * n >= b * n + n
  <2>1. PICK c \in Nat : a = b + 1 + c
    <3>1. a - b - 1 \in Nat /\ a = b + 1 + (a - b - 1) BY <1>2
    <3> QED BY <3>1
  <2>2. (b + 1 + c) * n = b * n + n + c * n /\ c * n \in Nat /\ b * n \in Int OBVIOUS
  <2> QED BY <2>1, <2>2
<1>3. PICK kn \in Int, mn \in Int : kn = k * n /\ mn = m * n OBVIOUS
<1>4. 2 * (kn - x) \in (-n)..n BY <1>1, <1>3
<1>5. ASSUME x >= mn PROVE k >= m
  <2> SUFFICES ASSUME m > k PROVE FALSE OBVIOUS
  <2>1. mn >= kn + n BY <1>2, <1>3
  <2> QED BY <1>4, <1>5, <2>1
<1>6. ASSUME x <= mn PROVE k <= m
  <2> SUFFICES ASSUME k > m PROVE FALSE OBVIOUS
  <2>1. kn >= mn + n BY <1>2, <1>3
  <2> QED BY <1>4, <1>6, <2>1
<1> QED BY <1>1, <1>3, <1>5, <1>6

Encodings == {"U16", "I16", "U32", "I32"}

LEMMA ModulusFacts ==
  ASSUME NEW enc \in Encodings
  PROVE  /\ Modulus(enc) \in Nat \ {0} /\ Modulus(enc) = 2 * (Modulus(enc) \div 2)
         /\ Modulus(enc) \div 2 \in Nat \ {0}
         /\ Modulus(enc) = IF Words(enc) = 2 THEN Base * Base ELSE Base
<1>1. PICK h \in Nat \ {0} : Base = 2 * h /\ Base \in Nat \ {0}
  <2>1. Base \in Nat \ {0} /\ Base % 2 = 0 BY BaseAssumption
  <2>2. Base = 2 * (Base \div 2) /\ Base \div 2 \in Nat \ {0} BY <2>1
  <2> QED BY <2>1, <2>2
<1>2. ASSUME NEW g \in Nat \ {0}, NEW m, m = 2 * g
      PROVE  m \in Nat \ {0} /\ m = 2 * (m \div 2) /\ m \div 2 \in Nat \ {0}
  BY <1>2
<1>3. Base * Base = 2 * (h * Base) /\ h * Base \in Nat \ {0} BY <1>1
<1> DEFINE m == Modulus(enc)
<1>4. m = (IF Words(enc) = 2 THEN Base * Base ELSE Base) BY DEF Modulus
<1> HIDE DEF m
<1>5. \E g \in Nat \ {0} : m = 2 * g BY <1>1, <1>3, <1>4
<1>6. m \in Nat \ {0} /\ m = 2 * (m \div 2) /\ m \div 2 \in Nat \ {0} BY <1>2, <1>5
<1> QED BY <1>4, <1>6 DEF m

(* What a client decodes from the words of a point.                            *)
Spelt(p, words) ==
  LET raw == IF Words(p.enc) = 2 THEN Base * words[1] + words[2] ELSE words[1]
  IN IF Signed(p.enc) /\ 2 * raw >= Modulus(p.enc) THEN raw - Modulus(p.enc) ELSE raw

LEMMA EncodedReadsBack ==
  ASSUME NEW p, p.enc \in Encodings, NEW counts \in Int
  PROVE  /\ Saturated(p, counts) \in Least(p)..Most(p)
         /\ Spelt(p, Encode(p, counts)) = Saturated(p, counts)
         /\ Words(p.enc) = 1 =>
              Encode(p, counts) = <<Saturated(p, counts) % Base>> /\ Modulus(p.enc) = Base
<1> DEFINE m == Modulus(p.enc)
           h == m \div 2
           c == Saturated(p, counts)
           v == c % m
<1>1. m \in Nat \ {0} /\ m = 2 * h /\ h \in Nat \ {0}
      /\ m = (IF Words(p.enc) = 2 THEN Base * Base ELSE Base)
  BY ModulusFacts
<1>2. Base \in Nat \ {0} BY BaseAssumption
<1>3. c = IF Signed(p.enc) THEN Pegged(counts, -h, h - 1) ELSE Pegged(counts, 0, m - 1)
  BY DEF Saturated
<1>4. Least(p) = (IF Signed(p.enc) THEN -h ELSE 0) /\ Most(p) = Least(p) + m - 1
  BY DEF Least, Most
<1> HIDE DEF m, h, c
<1>5. c \in Int /\ c \in Least(p)..Most(p)
      /\ (Signed(p.enc) => c \in (-h)..(h - 1)) /\ (~Signed(p.enc) => c \in 0..(m - 1))
  BY <1>1, <1>3, <1>4 DEF Pegged
<1>6. v \in 0..(m - 1) /\ v = IF c >= 0 THEN c ELSE c + m
  <2>1. c \in (-m)..(m - 1) BY <1>1, <1>5
  <2>2. CASE c >= 0 BY <1>1, <2>1, <2>2
  <2>3. CASE ~(c >= 0)
    <3>1. c + m \in 0..(m - 1) BY <1>1, <2>1, <2>3
    <3>2. c = m * (-1) + (c + m) BY <1>1, <1>5
    <3>3. c % m = c + m BY <1>1, <1>5, <3>1, <3>2
    <3> QED BY <2>3, <3>1, <3>3
  <2> QED BY <2>2, <2>3
<1>7. Signed(p.enc) => (2 * v >= m <=> c < 0) BY <1>1, <1>5, <1>6
<1> HIDE DEF v
<1>8. CASE Words(p.enc) = 2
  <2>1. Encode(p, counts) = <<v \div Base, v % Base>> BY <1>8 DEF Encode, v, c, m
  <2>2. v = Base * (v \div Base) + (v % Base) BY <1>1, <1>2, <1>6, DivMod
  <2>3. Spelt(p, Encode(p, counts)) = IF Signed(p.enc) /\ 2 * v >= m THEN v - m ELSE v
    BY <1>8, <2>1, <2>2 DEF Spelt, m
  <2> QED BY <1>1, <1>5, <1>6, <1>7, <1>8, <2>3 DEF c
<1>9. CASE Words(p.enc) # 2
  <2>1. Encode(p, counts) = <<v>> BY <1>9 DEF Encode, v, c, m
  <2>2. Spelt(p, Encode(p, counts)) = IF Signed(p.enc) /\ 2 * v >= m THEN v - m ELSE v
    BY <1>9, <2>1 DEF Spelt, m
  <2>3. v = c % Base BY <1>1, <1>9 DEF v
  <2> QED BY <1>1, <1>5, <1>6, <1>7, <1>9, <2>1, <2>2, <2>3 DEF c, m
<1> QED BY <1>8, <1>9
-------------------------------------------------------------------------------
(* The count a register is given is the nearest its encoding has to the value. *)
LEMMA SaidNearest ==
  ASSUME NEW p, p.enc \in Encodings, p.scale \in Nat \ {0}, NEW value \in Int, NEW exp \in Int
  PROVE  /\ Counts(p, value, exp) \in Int
         /\ Nearest(p, Saturated(p, Counts(p, value, exp)), value, exp)
<1> DEFINE x == value * p.scale * Tens(exp)
           n == 1000 * Tens(-exp)
           c == Counts(p, value, exp)
           d == Saturated(p, c)
           lo == Least(p)
           hi == Most(p)
<1>1. x \in Int
  <2>1. Tens(exp) \in Nat \ {0} BY TensNatural
  <2>2. PICK s \in Nat, t \in Nat : s = p.scale /\ t = Tens(exp) BY <2>1
  <2>3. value * s \in Int OBVIOUS
  <2>4. (value * s) * t \in Int BY <2>3
  <2> QED BY <2>2, <2>4
<1>2. n \in Nat \ {0}
  <2>1. -exp \in Int OBVIOUS
  <2>2. PICK t \in Nat \ {0} : t = Tens(-exp) BY <2>1, TensNatural
  <2> QED BY <2>2
<1>3. c = RoundTo(x, n) BY DEF Counts
<1>4. lo \in Int /\ hi \in Int /\ lo <= hi /\ d = Pegged(c, lo, hi)
  <2>1. PICK m \in Nat \ {0}, h \in Nat \ {0} : m = Modulus(p.enc) /\ h = m \div 2 /\ m = 2 * h
    BY ModulusFacts
  <2>2. lo = (IF Signed(p.enc) THEN -h ELSE 0) /\ hi = lo + m - 1
    BY <2>1 DEF Least, Most
  <2>3. d = IF Signed(p.enc) THEN Pegged(c, -h, h - 1) ELSE Pegged(c, 0, m - 1)
    BY <2>1 DEF Saturated
  <2> HIDE DEF lo, hi, c, d
  <2>4. CASE Signed(p.enc)
    <3>0. m \in Nat /\ h \in Nat /\ m = 2 * h BY <2>1
    <3>3. lo = -h BY <2>2, <2>4
    <3>1. lo = -h /\ hi = h - 1 BY <3>0, <2>2, <3>3
    <3>2. d = Pegged(c, -h, h - 1) BY <2>3, <2>4
    <3>4. d = Pegged(c, lo, hi) BY <3>1, <3>2
    <3> QED BY <3>0, <3>1, <3>4
  <2>5. CASE ~Signed(p.enc)
    <3>1. lo = 0 /\ hi = m - 1 BY <2>1, <2>2, <2>5
    <3>2. d = Pegged(c, 0, m - 1) BY <2>3, <2>5
    <3> QED BY <2>1, <3>1, <3>2
  <2> QED BY <2>4, <2>5
<1>5. Nearest(p, d, value, exp) =
        IF x >= hi * n THEN d = hi ELSE IF x <= lo * n THEN d = lo ELSE 2 * (d * n - x) \in -n..n
  BY DEF Nearest
<1> HIDE DEF x, n, c, d, lo, hi
<1>6. /\ c \in Int /\ 2 * (c * n - x) \in -n..n
      /\ x >= hi * n => c >= hi
      /\ x <= hi * n => c <= hi
      /\ x >= lo * n => c >= lo
      /\ x <= lo * n => c <= lo
  BY <1>1, <1>2, <1>3, <1>4, RoundsNear, RoundsPast
<1>7. PICK hn \in Int, ln \in Int, cn \in Int : hn = hi * n /\ ln = lo * n /\ cn = c * n
  BY <1>2, <1>4, <1>6
<1>8. Nearest(p, d, value, exp)
  <2>1. CASE x >= hn
    <3>1. d = hi BY <1>4, <1>6, <1>7, <2>1 DEF Pegged
    <3> QED BY <1>5, <1>7, <2>1, <3>1
  <2>2. CASE x < hn /\ x <= ln
    <3>1. d = lo BY <1>1, <1>4, <1>6, <1>7, <2>2 DEF Pegged
    <3>2. ~(x >= hn) BY <1>1, <1>7, <2>2
    <3> QED BY <1>5, <1>7, <2>2, <3>1, <3>2
  <2>3. CASE x < hn /\ x > ln
    <3>1. lo <= c /\ c <= hi BY <1>1, <1>4, <1>6, <1>7, <2>3
    <3>2. d = c BY <1>4, <1>6, <3>1 DEF Pegged
    <3>3. ~(x >= hn) /\ ~(x <= ln) BY <1>1, <1>7, <2>3
    <3>4. ~(x >= hi * n) /\ ~(x <= lo * n) /\ 2 * (d * n - x) \in -n..n BY <1>6, <1>7, <3>2, <3>3
    <3> QED BY <1>5, <3>4
  <2> QED BY <1>1, <1>7, <2>1, <2>2, <2>3
<1> QED BY <1>6, <1>8 DEF c, d

LEMMA FlipTwice ==
  ASSUME NEW w \in Nat PROVE FlipLowest(w) \in Nat /\ FlipLowest(FlipLowest(w)) = w
<1>1. CASE w % 2 = 0
  <2>1. FlipLowest(w) = w + 1 /\ (w + 1) % 2 # 0 BY <1>1 DEF FlipLowest
  <2>2. FlipLowest(w + 1) = (w + 1) - 1 BY <2>1 DEF FlipLowest
  <2> QED BY <2>1, <2>2
<1>2. CASE w % 2 # 0
  <2>1. FlipLowest(w) = w - 1 /\ (w - 1) % 2 = 0 /\ w - 1 \in Nat BY <1>2 DEF FlipLowest
  <2>2. FlipLowest(w - 1) = (w - 1) + 1 BY <2>1 DEF FlipLowest
  <2> QED BY <2>1, <2>2
<1> QED BY <1>1, <1>2
-------------------------------------------------------------------------------
(* The table. What every point is, ...                                         *)
Names ==
  {"p_ac_kw", "p_dc_kw", "state", "soc_pct", "cell_temp_min_c", "cell_temp_max_c",
   "efficiency_pct", "air_temp_c", "hvac_state", "mode", "cell_dv_mv", "alarm_bits",
   "block_alarm_bits", "racks_derated"}

Sound(p) ==
  /\ p.enc \in Encodings /\ p.scale \in Nat \ {0} /\ p.addr \in Nat
  /\ p.space \in {"input", "holding"}
  /\ p.word => p.enc = "U16"
  /\ \/ p.node = Site \/ p.space = "holding"
     \/ p.node[2] \in Blocks /\ p.name \in Names

LEMMA SoundTable == \A p \in SignalTable : Sound(p)
<1>1. \A p \in GridPoints : Sound(p) BY DEF GridPoints, Point, Sound, Encodings
<1>2. \A p \in RunPoints : Sound(p) BY DEF RunPoints, Point, Sound, Encodings
<1>3. \A p \in AuxPoints : Sound(p) BY DEF AuxPoints, Point, Sound, Encodings
<1>4. \A p \in RevenuePoints : Sound(p) BY DEF RevenuePoints, Point, Sound, Encodings
<1>5. \A p \in SiteAlarmPoints : Sound(p)
  BY DEF SiteAlarmPoints, AsWord, Point, Sound, Encodings
<1>6. \A p \in ControlPoints : Sound(p)
  BY DEF ControlPoints, Point, Sound, Encodings
<1>7. ASSUME NEW b \in Blocks PROVE \A p \in BlockPointsOf(b) : Sound(p)
  <2>1. b \in Nat BY BlocksAssumption DEF Blocks
  <2>2. <<"block", b>>[2] = b /\ <<"block", b, "pcs">>[2] = b OBVIOUS
  <2>3. \A p \in BlockPoints(b) : Sound(p)
    BY <2>1, <2>2 DEF BlockPoints, BlockBase, BlockExtBase, Point, Sound, Encodings, Names
  <2>4. \A p \in BlockAlarmPoints(b) : Sound(p)
    BY <2>1, <2>2 DEF BlockAlarmPoints, BlockBase, BlockExtBase, AsWord, Point, Sound, Encodings, Names
  <2> QED BY <2>3, <2>4 DEF BlockPointsOf
<1> QED BY <1>1, <1>2, <1>3, <1>4, <1>5, <1>6, <1>7 DEF SignalTable
-------------------------------------------------------------------------------
(* ... and that no two points share a register.                                *)
End(p) == p.addr + Words(p.enc)
Between(p, lo, hi) == p.space = "input" /\ p.addr \in Nat /\ End(p) \in Nat /\ lo <= p.addr /\ End(p) <= hi
Apart(p, q) == p = q \/ p.space # q.space \/ End(p) <= q.addr \/ End(q) <= p.addr

LEMMA PointFields ==
  \A name, node, class, enc, scale, addr :
    LET p == Point(name, node, class, enc, scale, addr)
    IN /\ p.addr = addr /\ p.enc = enc /\ p.space = "input"
       /\ AsWord(p).addr = addr /\ AsWord(p).enc = enc /\ AsWord(p).space = "input"
BY DEF Point, AsWord

LEMMA WordCounts == Words("U16") = 1 /\ Words("I16") = 1 /\ Words("U32") = 2 /\ Words("I32") = 2
BY DEF Words

LEMMA GridApart ==
  /\ \A p \in GridPoints : Between(p, 0, 16) \/ Between(p, 44, 46)
  /\ \A p, q \in GridPoints : Apart(p, q)
<1>1. \A p \in GridPoints : Between(p, 0, 16) \/ Between(p, 44, 46)
  BY DEF GridPoints, Point, Between, End, Words
<1>2. \A p, q \in GridPoints : Apart(p, q)
  BY PointFields, WordCounts DEF GridPoints, Apart, End
<1> QED BY <1>1, <1>2

LEMMA RunApart ==
  /\ \A p \in RunPoints : Between(p, 16, 31)
  /\ \A p, q \in RunPoints : Apart(p, q)
<1>1. \A p \in RunPoints : Between(p, 16, 31)
  BY DEF RunPoints, Point, Between, End, Words
<1>2. \A p, q \in RunPoints : Apart(p, q)
  BY PointFields, WordCounts DEF RunPoints, Apart, End
<1> QED BY <1>1, <1>2

LEMMA AuxApart ==
  /\ \A p \in AuxPoints : Between(p, 32, 42)
  /\ \A p, q \in AuxPoints : Apart(p, q)
<1>1. \A p \in AuxPoints : Between(p, 32, 42)
  BY DEF AuxPoints, Point, Between, End, Words
<1>2. \A p, q \in AuxPoints : Apart(p, q)
  BY PointFields, WordCounts DEF AuxPoints, Apart, End
<1> QED BY <1>1, <1>2

LEMMA RevenueApart ==
  /\ \A p \in RevenuePoints : Between(p, 46, 52)
  /\ \A p, q \in RevenuePoints : Apart(p, q)
<1>1. \A p \in RevenuePoints : Between(p, 46, 52)
  BY DEF RevenuePoints, Point, Between, End, Words
<1>2. \A p, q \in RevenuePoints : Apart(p, q)
  BY PointFields, WordCounts DEF RevenuePoints, Apart, End
<1> QED BY <1>1, <1>2

LEMMA AlarmApart ==
  /\ \A p \in SiteAlarmPoints : Between(p, 31, 32) \/ Between(p, 42, 44)
  /\ \A p, q \in SiteAlarmPoints : Apart(p, q)
<1>1. \A p \in SiteAlarmPoints : Between(p, 31, 32) \/ Between(p, 42, 44)
  BY DEF SiteAlarmPoints, AsWord, Point, Between, End, Words
<1>2. \A p, q \in SiteAlarmPoints : Apart(p, q)
  BY PointFields, WordCounts DEF SiteAlarmPoints, Apart, End
<1> QED BY <1>1, <1>2

LEMMA ControlApart ==
  /\ \A p \in ControlPoints : p.space = "holding"
  /\ \A p, q \in ControlPoints : Apart(p, q)
<1>1. \A p \in ControlPoints : p.space = "holding"
  BY DEF ControlPoints, Point
<1>2. \A p, q \in ControlPoints : Apart(p, q)
  BY DEF ControlPoints, Point, Apart, End, Words
<1> QED BY <1>1, <1>2

LEMMA BlockApart ==
  ASSUME NEW b \in Blocks
  PROVE  /\ \A p \in BlockPointsOf(b) : \/ Between(p, 1000 + 10 * b, 1010 + 10 * b)
                                        \/ Between(p, 2000 + 10 * b, 2004 + 10 * b)
         /\ \A p, q \in BlockPointsOf(b) : Apart(p, q)
<1>1. b \in Nat BY BlocksAssumption DEF Blocks
<1>2. \A p \in BlockPointsOf(b) : \/ Between(p, 1000 + 10 * b, 1010 + 10 * b)
                                  \/ Between(p, 2000 + 10 * b, 2004 + 10 * b)
  BY <1>1 DEF BlockPointsOf, BlockPoints, BlockAlarmPoints, BlockBase, BlockExtBase, AsWord, Point,
     Between, End, Words
<1>3. \A p, q \in BlockPointsOf(b) : Apart(p, q)
  BY <1>1, PointFields, WordCounts
  DEF BlockPointsOf, BlockPoints, BlockAlarmPoints, BlockBase, BlockExtBase, Apart, End
<1> QED BY <1>2, <1>3

LEMMA PointsApart == \A p, q \in SignalTable : Apart(p, q)
<1> SUFFICES ASSUME NEW p \in SignalTable, NEW q \in SignalTable PROVE Apart(p, q) OBVIOUS
<1> DEFINE Kept(x) == x \in GridPoints \/ x \in RunPoints \/ x \in AuxPoints
                      \/ x \in RevenuePoints \/ x \in SiteAlarmPoints
<1>1. \A x \in SignalTable : \/ Kept(x) \/ x \in ControlPoints
                             \/ \E b \in Blocks : x \in BlockPointsOf(b)
  BY DEF SignalTable
<1>2. \A x, y : Kept(x) /\ Kept(y) => Apart(x, y)
  BY GridApart, RunApart, AuxApart, RevenueApart, AlarmApart DEF Apart, Between
<1>3. \A x : Kept(x) => Between(x, 0, 52)
  BY GridApart, RunApart, AuxApart, RevenueApart, AlarmApart DEF Between
<1> HIDE DEF Kept
<1>4. ASSUME NEW x, NEW y, NEW b \in Blocks, Kept(x), y \in BlockPointsOf(b)
      PROVE Apart(x, y) /\ Apart(y, x)
  <2>1. b \in Nat BY BlocksAssumption DEF Blocks
  <2>2. Between(x, 0, 52) BY <1>3, <1>4
  <2>3. Between(y, 1000 + 10 * b, 1010 + 10 * b) \/ Between(y, 2000 + 10 * b, 2004 + 10 * b)
    BY <1>4, BlockApart
  <2> QED BY <2>1, <2>2, <2>3 DEF Between, Apart
<1>5. ASSUME NEW x, NEW y, NEW b \in Blocks, NEW c \in Blocks,
             x \in BlockPointsOf(b), y \in BlockPointsOf(c)
      PROVE Apart(x, y)
  <2>1. b \in 0..19 /\ c \in 0..19 BY BlocksAssumption DEF Blocks
  <2>2. Between(x, 1000 + 10 * b, 1010 + 10 * b) \/ Between(x, 2000 + 10 * b, 2004 + 10 * b)
    BY <1>5, BlockApart
  <2>3. Between(y, 1000 + 10 * c, 1010 + 10 * c) \/ Between(y, 2000 + 10 * c, 2004 + 10 * c)
    BY <1>5, BlockApart
  <2>4. CASE b = c BY <1>5, <2>4, BlockApart
  <2>5. CASE b < c BY <2>1, <2>2, <2>3, <2>5 DEF Between, Apart
  <2>6. CASE b > c BY <2>1, <2>2, <2>3, <2>6 DEF Between, Apart
  <2> QED BY <2>1, <2>4, <2>5, <2>6
<1>6. ASSUME NEW x \in SignalTable, x \notin ControlPoints PROVE x.space = "input"
  BY <1>1, <1>3, <1>6, BlockApart DEF Between
<1>7. CASE p \in ControlPoints \/ q \in ControlPoints
  BY <1>6, <1>7, ControlApart DEF Apart
<1>8. CASE ~(p \in ControlPoints \/ q \in ControlPoints)
  BY <1>1, <1>2, <1>4, <1>5, <1>8
<1> QED BY <1>7, <1>8
-------------------------------------------------------------------------------
(* So a register holds the word of the one point that lies on it.              *)
LEMMA RegisterHolds ==
  ASSUME NEW p \in SignalTable, NEW k \in 1..Words(p.enc)
  PROVE  Register(p.space, p.addr + k - 1) = WordsOf(p)[k]
<1> DEFINE addr == p.addr + k - 1
           on == {q \in SignalTable : q.space = p.space /\ addr \in q.addr..(q.addr + Words(q.enc) - 1)}
           top == CHOOSE q \in on : \A r \in on : r.addr <= q.addr
<1>1. \A q \in SignalTable : q.addr \in Nat /\ Words(q.enc) \in Nat
  BY SoundTable DEF Sound, Words
<1>2. p \in on
  <2>1. p.addr \in Nat /\ Words(p.enc) \in Nat BY <1>1
  <2>2. addr \in p.addr..(p.addr + Words(p.enc) - 1) BY <2>1
  <2> QED BY <2>2
<1>3. ASSUME NEW q \in on PROVE q = p
  <2>1. q \in SignalTable /\ q.space = p.space /\ addr \in q.addr..(q.addr + Words(q.enc) - 1)
    OBVIOUS
  <2>2. addr \in p.addr..(p.addr + Words(p.enc) - 1) BY <1>2
  <2>3. Apart(p, q) BY <2>1, PointsApart
  <2> HIDE DEF addr
  <2> QED BY <1>1, <2>1, <2>2, <2>3 DEF Apart, End
<1>4. on = {p} BY <1>2, <1>3
<1>5. top = p BY <1>1, <1>4
<1>6. Register(p.space, addr) = IF on = {} THEN 0 ELSE WordsOf(top)[addr - top.addr + 1]
  BY DEF Register
<1>7. addr - p.addr + 1 = k BY <1>1
<1> HIDE DEF addr, on, top
<1>8. Register(p.space, addr) = WordsOf(p)[k] BY <1>4, <1>5, <1>6, <1>7
<1> QED BY <1>8 DEF addr
-------------------------------------------------------------------------------
(* What a device reads is a number. A finite set of numbers has its ends.      *)
LEMMA EndsOfValues ==
  ASSUME NEW n \in Nat \ {0}, NEW F, \A i \in 1..n : F[i] \in Int
  PROVE  LET S == {F[i] : i \in 1..n} IN Highest(S) \in S /\ Lowest(S) \in S
<1> DEFINE V(k) == {F[i] : i \in 1..k}
           T == {k \in Nat \ {0} : k <= n =>
                   /\ \E v \in V(k) : \A w \in V(k) : v >= w
                   /\ \E v \in V(k) : \A w \in V(k) : v <= w}
<1>1. 1 \in T
  <2>1. V(1) = {F[1]} /\ F[1] \in Int OBVIOUS
  <2> QED BY <2>1
<1>2. ASSUME NEW k \in 1..(n - 1), k \in T PROVE k + 1 \in T
  <2>1. F[k + 1] \in Int /\ V(k + 1) = V(k) \cup {F[k + 1]} OBVIOUS
  <2>2. \A v \in V(k) : v \in Int OBVIOUS
  <2>3. PICK high \in V(k) : \A w \in V(k) : high >= w BY <1>2
  <2>4. PICK low \in V(k) : \A w \in V(k) : low <= w BY <1>2
  <2> HIDE DEF V
  <2>5. \E v \in V(k + 1) : \A w \in V(k + 1) : v >= w
    <3>1. CASE high >= F[k + 1] BY <2>1, <2>2, <2>3, <3>1
    <3>2. CASE F[k + 1] >= high
      <4>1. \A w \in V(k) : F[k + 1] >= w BY <2>1, <2>2, <2>3, <3>2
      <4> QED BY <2>1, <4>1
    <3> QED BY <2>1, <2>2, <2>3, <3>1, <3>2
  <2>6. \E v \in V(k + 1) : \A w \in V(k + 1) : v <= w
    <3>1. CASE low <= F[k + 1] BY <2>1, <2>2, <2>4, <3>1
    <3>2. CASE F[k + 1] <= low
      <4>1. \A w \in V(k) : F[k + 1] <= w BY <2>1, <2>2, <2>4, <3>2
      <4> QED BY <2>1, <4>1
    <3> QED BY <2>1, <2>2, <2>4, <3>1, <3>2
  <2> QED BY <2>5, <2>6
<1>3. 1..n \subseteq T
  <2> HIDE DEF T
  <2> QED BY <1>1, <1>2, UpToInduction
<1>4. n \in T
  <2> HIDE DEF T
  <2>1. n \in 1..n OBVIOUS
  <2> QED BY <1>3, <2>1
<1> QED BY <1>4 DEF Highest, Lowest

LEMMA LeastIndex ==
  ASSUME NEW n \in Nat \ {0}, NEW T, T \subseteq 1..n, T # {} PROVE Lowest(T) \in T
<1>1. PICK t \in T : TRUE OBVIOUS
<1> DEFINE F == [i \in 1..n |-> IF i \in T THEN i ELSE t]
<1>2. {F[i] : i \in 1..n} = T
  <2>1. \A i \in 1..n : F[i] \in T BY <1>1
  <2>2. \A x \in T : x \in 1..n /\ F[x] = x OBVIOUS
  <2> HIDE DEF F
  <2> QED BY <2>1, <2>2
<1>3. \A i \in 1..n : F[i] \in Int OBVIOUS
<1> HIDE DEF F
<1> QED BY <1>2, <1>3, EndsOfValues

LEMMA WordNatural ==
  ASSUME NEW bits \in AlarmWords PROVE Word(bits) \in Nat
<1> DEFINE F == [b \in bits |-> Power(2, b)]
           it == CHOOSE iter : iter = [s \in SUBSET bits |->
                   IF s = {} THEN 0
                   ELSE Power(2, CHOOSE x \in s : TRUE) + iter[s \ {CHOOSE x \in s : TRUE}]]
<1>1. IsFiniteSet(bits)
  <2>1. IsFiniteSet(0..31)
    <3>1. 0 \in Int /\ 31 \in Int OBVIOUS
    <3> QED BY <3>1, FS_Interval
  <2> QED BY <2>1, FS_Subset DEF AlarmWords
<1>2. F \in [bits -> Nat]
  <2>1. \A b \in bits : b \in Nat BY DEF AlarmWords
  <2> QED BY <2>1, PowerPositive
<1>3. \A s \in SUBSET bits : s # {} => F[CHOOSE x \in s : TRUE] = Power(2, CHOOSE x \in s : TRUE)
  OBVIOUS
<1> HIDE DEF F
<1>4. PICK f : SumsTo(f, F, bits) BY <1>1, <1>2, SumOfNaturals
<1>5. f = [s \in SUBSET bits |->
             IF s = {} THEN 0
             ELSE Power(2, CHOOSE x \in s : TRUE) + f[s \ {CHOOSE x \in s : TRUE}]]
  BY <1>3, <1>4 DEF SumsTo
<1>6. it = [s \in SUBSET bits |->
             IF s = {} THEN 0
             ELSE Power(2, CHOOSE x \in s : TRUE) + it[s \ {CHOOSE x \in s : TRUE}]]
  BY <1>5
<1>7. MapThenSumSet(LAMBDA b : Power(2, b), bits) = it[bits]
  BY DEF MapThenSumSet, MapThenFoldSet
<1> HIDE DEF it
<1>8. SumsTo(it, F, bits) BY <1>3, <1>6 DEF SumsTo
<1>9. it[bits] \in Nat BY <1>1, <1>2, <1>8, SumOfNaturals
<1>10. PICK n \in Nat : n = MapThenSumSet(LAMBDA b : Power(2, b), bits) BY <1>7, <1>9
<1>11. n % Base \in Nat BY BaseAssumption
<1> QED BY <1>10, <1>11 DEF Word

LEMMA RacksOfABlock ==
  ASSUME NEW block \in BlockStates
  PROVE  RacksOf(block) \in Seq(RackReads) /\ Len(RacksOf(block)) \in Nat \ {0}
<1> DEFINE cs == block.containers
           seqs == [c \in DOMAIN cs |-> cs[c].racks]
<1>1. cs \in Seq(Containers) /\ cs # << >> BY DEF BlockStates
<1>2. PICK n \in Nat \ {0} : n = Len(cs) /\ DOMAIN cs = 1..n
      /\ \A c \in 1..n : cs[c] \in Containers
  BY <1>1
<1>3. \A c \in 1..n : cs[c].racks \in Seq(RackReads) /\ cs[c].racks # << >>
  BY <1>2 DEF Containers
<1> HIDE DEF cs
<1>4. /\ seqs = [c \in 1..n |-> cs[c].racks] /\ seqs \in Seq(Seq(RackReads))
      /\ Len(seqs) = n /\ seqs # << >>
  <2>1. seqs = [c \in 1..n |-> cs[c].racks] BY <1>2
  <2>2. \A c \in 1..n : seqs[c] \in Seq(RackReads) BY <1>3, <2>1
  <2>3. seqs \in Seq(Seq(RackReads)) BY <2>1, <2>2, IsASeq
  <2>4. Len(seqs) = n
    <3>1. DOMAIN seqs = 1..n BY <2>1
    <3> HIDE DEF seqs
    <3>2. Len(seqs) \in Nat /\ DOMAIN seqs = 1..Len(seqs) BY <2>3, LenProperties
    <3> QED BY <3>1, <3>2
  <2> HIDE DEF seqs
  <2>5. Len(<< >>) = 0 OBVIOUS
  <2> QED BY <2>1, <2>3, <2>4, <2>5
<1>5. RacksOf(block) = FlattenSeq(seqs) BY DEF RacksOf, cs
<1>6. seqs[1] # << >> /\ 1 \in DOMAIN seqs BY <1>3, <1>4
<1> HIDE DEF seqs
<1>7. FlattenSeq(seqs) \in Seq(RackReads) /\ FlattenSeq(seqs) # << >>
  BY <1>4, <1>6, FlattenFacts
<1> QED BY <1>5, <1>7, EmptySeq, LenProperties

LEMMA FoldedWord ==
  ASSUME NEW block \in BlockStates PROVE FoldedBits(block) \in AlarmWords
<1>1. \A r \in DOMAIN RacksOf(block) : RacksOf(block)[r] \in RackReads BY RacksOfABlock
<1> QED BY <1>1 DEF FoldedBits, AlarmWords, RackReads

LEMMA HvacNumber ==
  ASSUME NEW block \in BlockStates PROVE HvacOf(block) \in Int
<1> DEFINE cs == block.containers
           watts == {cs[c].watts : c \in DOMAIN cs}
           heaviest == Highest(watts)
           T == {c \in DOMAIN cs : cs[c].watts = heaviest}
<1>1. cs \in Seq(Containers) /\ cs # << >> BY DEF BlockStates
<1>2. PICK n \in Nat \ {0} : n = Len(cs) /\ DOMAIN cs = 1..n
      /\ \A c \in 1..n : cs[c] \in Containers
  BY <1>1
<1>3. \A c \in 1..n : cs[c].watts \in Int /\ cs[c].hvac \in Int BY <1>2 DEF Containers
<1> HIDE DEF cs
<1>4. heaviest \in watts
  <2> DEFINE F == [c \in 1..n |-> cs[c].watts]
  <2>1. \A c \in 1..n : F[c] \in Int BY <1>3
  <2>2. watts = {F[c] : c \in 1..n} BY <1>2
  <2> HIDE DEF F, watts
  <2> QED BY <2>1, <2>2, EndsOfValues
<1>5. T \subseteq 1..n /\ T # {} BY <1>2, <1>4
<1> HIDE DEF T
<1>6. Lowest(T) \in 1..n BY <1>5, LeastIndex
<1>7. HvacOf(block) = cs[Lowest(T)].hvac BY DEF HvacOf, T, cs
<1> QED BY <1>3, <1>6, <1>7

LEMMA EfficiencyNumber ==
  ASSUME NEW block \in BlockStates PROVE Efficiency(block) \in Int
<1>1. PICK ac \in Int, dc \in Int : ac = block.ac /\ dc = block.dc BY DEF BlockStates
<1>2. CASE dc > 0 /\ ac > 0
  <2>1. Efficiency(block) = (100000 * ac) \div dc BY <1>1, <1>2 DEF Efficiency
  <2>2. 100000 * ac \in Nat /\ dc \in Nat \ {0} BY <1>2
  <2>3. PICK x \in Nat : x = 100000 * ac BY <2>2
  <2>4. x \div dc \in Nat BY <2>2, DivMod
  <2> QED BY <2>1, <2>3, <2>4
<1>3. CASE ~(dc > 0 /\ ac > 0) /\ dc < 0 /\ ac < 0
  <2>1. Efficiency(block) = (100000 * (-dc)) \div (-ac) BY <1>1, <1>3 DEF Efficiency
  <2>2. 100000 * (-dc) \in Nat /\ (-ac) \in Nat \ {0} BY <1>3
  <2>3. PICK x \in Nat, y \in Nat \ {0} : x = 100000 * (-dc) /\ y = -ac BY <2>2
  <2>4. x \div y \in Nat BY DivMod
  <2> QED BY <2>1, <2>3, <2>4
<1>4. CASE ~(dc > 0 /\ ac > 0) /\ ~(dc < 0 /\ ac < 0)
  <2>1. Efficiency(block) = 0 BY <1>1, <1>4 DEF Efficiency
  <2> QED BY <2>1
<1> QED BY <1>2, <1>3, <1>4

LEMMA RackValues ==
  ASSUME NEW block \in BlockStates, NEW racks, racks = RacksOf(block)
  PROVE  /\ Lowest({racks[r].temp : r \in DOMAIN racks}) \in Int
         /\ Highest({racks[r].temp : r \in DOMAIN racks}) \in Int
         /\ Highest({racks[r].dv : r \in DOMAIN racks}) \in Int
         /\ Cardinality({r \in DOMAIN racks : Derate \in racks[r].bits}) \in Nat
<1>1. PICK n \in Nat \ {0} : n = Len(racks) /\ DOMAIN racks = 1..n
      /\ \A r \in 1..n : racks[r] \in RackReads
  BY RacksOfABlock
<1>2. \A r \in 1..n : racks[r].temp \in Int /\ racks[r].dv \in Int BY <1>1 DEF RackReads
<1> DEFINE F == [r \in 1..n |-> racks[r].temp]
           G == [r \in 1..n |-> racks[r].dv]
           temps == {racks[r].temp : r \in DOMAIN racks}
           dvs == {racks[r].dv : r \in DOMAIN racks}
<1>3. temps = {F[r] : r \in 1..n} /\ dvs = {G[r] : r \in 1..n} BY <1>1
<1>4. \A r \in 1..n : F[r] \in Int /\ G[r] \in Int BY <1>2
<1>5. \A v \in temps : v \in Int BY <1>3, <1>4
<1>6. \A v \in dvs : v \in Int BY <1>3, <1>4
<1> HIDE DEF F, G, temps, dvs
<1>7. Lowest(temps) \in temps /\ Highest(temps) \in temps BY <1>3, <1>4, EndsOfValues
<1>8. Highest(dvs) \in dvs BY <1>3, <1>4, EndsOfValues
<1>9. Cardinality({r \in DOMAIN racks : Derate \in racks[r].bits}) \in Nat
  <2> DEFINE D == {r \in DOMAIN racks : Derate \in racks[r].bits}
  <2>1. D \subseteq 1..n BY <1>1
  <2> HIDE DEF D
  <2>2. IsFiniteSet(1..n)
    <3>1. 1 \in Int /\ n \in Int OBVIOUS
    <3> QED BY <3>1, FS_Interval
  <2>3. Cardinality(D) \in Nat BY <2>1, <2>2, FS_Subset, FS_CardinalityType
  <2> QED BY <2>3 DEF D
<1> QED BY <1>5, <1>6, <1>7, <1>8, <1>9 DEF temps, dvs

LEMMA AirNumber ==
  ASSUME NEW block \in BlockStates
  PROVE  Highest({c.air : c \in ToSet(block.containers)}) \in Int
<1> DEFINE cs == block.containers
           airs == {c.air : c \in ToSet(cs)}
<1>1. cs \in Seq(Containers) /\ cs # << >> BY DEF BlockStates
<1>2. PICK n \in Nat \ {0} : n = Len(cs) /\ DOMAIN cs = 1..n
      /\ \A c \in 1..n : cs[c] \in Containers
  BY <1>1
<1> HIDE DEF cs
<1> DEFINE F == [c \in 1..n |-> cs[c].air]
<1>3. \A c \in 1..n : F[c] \in Int BY <1>2 DEF Containers
<1>4. airs = {F[c] : c \in 1..n}
  <2>1. \A x : x \in ToSet(cs) <=> \E c \in 1..n : x = cs[c] BY <1>2 DEF ToSet
  <2> QED BY <2>1
<1>5. \A v \in airs : v \in Int BY <1>3, <1>4
<1> HIDE DEF F, airs
<1>6. Highest(airs) \in airs BY <1>3, <1>4, EndsOfValues
<1> QED BY <1>5, <1>6 DEF airs, cs

LEMMA BlockNumbers ==
  ASSUME NEW block \in BlockStates, NEW name \in Names PROVE BlockReads(block)[name] \in Int
<1> DEFINE racks == RacksOf(block)
<1>1. /\ block.ac \in Int /\ block.dc \in Int /\ block.state \in Int /\ block.soc \in Int
      /\ block.mode \in Int /\ block.bits \in AlarmWords
  BY DEF BlockStates
<1>2. PICK a \in Nat, b \in Nat : a = Word(FoldedBits(block)) /\ b = Word(block.bits)
  BY <1>1, FoldedWord, WordNatural
<1>3. PICK e \in Int, h \in Int, air2 \in Int :
        /\ e = Efficiency(block) /\ h = HvacOf(block)
        /\ air2 = Highest({c.air : c \in ToSet(block.containers)})
  BY EfficiencyNumber, HvacNumber, AirNumber
<1>4. PICK low \in Int, high \in Int, dv \in Int, d \in Nat :
        /\ low = Lowest({racks[r].temp : r \in DOMAIN racks})
        /\ high = Highest({racks[r].temp : r \in DOMAIN racks})
        /\ dv = Highest({racks[r].dv : r \in DOMAIN racks})
        /\ d = Cardinality({r \in DOMAIN racks : Derate \in racks[r].bits})
  BY RackValues
<1>5. BlockReads(block) =
        [p_ac_kw |-> block.ac, p_dc_kw |-> block.dc, state |-> block.state, soc_pct |-> block.soc,
         cell_temp_min_c |-> low, cell_temp_max_c |-> high, efficiency_pct |-> e,
         air_temp_c |-> air2, hvac_state |-> h, mode |-> block.mode, cell_dv_mv |-> dv,
         alarm_bits |-> 1000 * a, block_alarm_bits |-> 1000 * b, racks_derated |-> 1000 * d]
  BY <1>2, <1>3, <1>4 DEF BlockReads
<1>6. 1000 * a \in Int /\ 1000 * b \in Int /\ 1000 * d \in Int OBVIOUS
<1> QED BY <1>1, <1>3, <1>4, <1>5, <1>6 DEF Names

LEMMA BitsCounted ==
  ASSUME NEW bits \in AlarmWords PROVE Cardinality(bits) \in Nat
<1>1. IsFiniteSet(0..31)
  <2>1. 0 \in Int /\ 31 \in Int OBVIOUS
  <2> QED BY <2>1, FS_Interval
<1> QED BY <1>1, FS_Subset, FS_CardinalityType DEF AlarmWords

LEMMA RackBitsCounted ==
  ASSUME NEW block \in BlockStates
  PROVE  LET racks == RacksOf(block)
         IN MapThenSumSet(LAMBDA r : Cardinality(racks[r].bits), DOMAIN racks) \in Nat
<1> DEFINE racks == RacksOf(block)
<1>1. PICK n \in Nat \ {0} : n = Len(racks) /\ DOMAIN racks = 1..n
      /\ \A r \in 1..n : racks[r] \in RackReads
  BY RacksOfABlock
<1>2. \A r \in 1..n : Cardinality(racks[r].bits) \in Nat BY <1>1, BitsCounted DEF RackReads
<1> HIDE DEF racks
<1> DEFINE D == DOMAIN racks
           F == [r \in D |-> Cardinality(racks[r].bits)]
           it == CHOOSE iter : iter = [s \in SUBSET D |->
                   IF s = {} THEN 0
                   ELSE Cardinality(racks[CHOOSE x \in s : TRUE].bits)
                          + iter[s \ {CHOOSE x \in s : TRUE}]]
<1>3. IsFiniteSet(D)
  <2>1. 1 \in Int /\ n \in Int OBVIOUS
  <2> QED BY <1>1, <2>1, FS_Interval
<1>4. F \in [D -> Nat] BY <1>1, <1>2
<1>5. \A s \in SUBSET D : s # {} =>
        F[CHOOSE x \in s : TRUE] = Cardinality(racks[CHOOSE x \in s : TRUE].bits)
  OBVIOUS
<1>6. MapThenSumSet(LAMBDA r : Cardinality(racks[r].bits), D) = it[D]
  BY DEF MapThenSumSet, MapThenFoldSet
<1> HIDE DEF F, D
<1>7. PICK f : SumsTo(f, F, D) BY <1>3, <1>4, SumOfNaturals
<1>8. f = [s \in SUBSET D |->
             IF s = {} THEN 0
             ELSE Cardinality(racks[CHOOSE x \in s : TRUE].bits)
                    + f[s \ {CHOOSE x \in s : TRUE}]]
  BY <1>5, <1>7 DEF SumsTo
<1>9. it = [s \in SUBSET D |->
             IF s = {} THEN 0
             ELSE Cardinality(racks[CHOOSE x \in s : TRUE].bits)
                    + it[s \ {CHOOSE x \in s : TRUE}]]
  BY <1>8
<1> HIDE DEF it
<1>10. SumsTo(it, F, D) BY <1>5, <1>9 DEF SumsTo
<1>11. it[D] \in Nat BY <1>3, <1>4, <1>10, SumOfNaturals
<1> QED BY <1>6, <1>11 DEF racks, D

LEMMA ActiveCounted ==
  ASSUME NEW plant \in Plants PROVE ActiveCount(plant) \in Nat
<1> DEFINE Own(b) == Cardinality(plant.blocks[b].bits)
           Racks(b) == LET racks == RacksOf(plant.blocks[b])
                       IN MapThenSumSet(LAMBDA r : Cardinality(racks[r].bits), DOMAIN racks)
<1>1. ASSUME NEW b \in Blocks PROVE Own(b) \in Nat /\ Racks(b) \in Nat
  <2>1. plant.blocks[b] \in BlockStates BY PlantsAssumption
  <2>2. plant.blocks[b].bits \in AlarmWords BY <2>1 DEF BlockStates
  <2> QED BY <2>1, <2>2, BitsCounted, RackBitsCounted
<1>2. IsFiniteSet(Blocks)
  <2>1. 0 \in Int /\ NBlocks - 1 \in Int BY BlocksAssumption
  <2> QED BY <2>1, FS_Interval DEF Blocks
<1>3. ActiveCount(plant) = Cardinality(plant.bits) + MapThenSumSet(Own, Blocks) + MapThenSumSet(Racks, Blocks)
  BY DEF ActiveCount
<1> HIDE DEF Own, Racks
<1>4. MapThenSumSet(Own, Blocks) \in Nat
  <2> DEFINE F == [b \in Blocks |-> Own(b)]
             it == CHOOSE iter : iter = [s \in SUBSET Blocks |->
                     IF s = {} THEN 0
                     ELSE Own(CHOOSE x \in s : TRUE) + iter[s \ {CHOOSE x \in s : TRUE}]]
  <2>1. F \in [Blocks -> Nat] BY <1>1
  <2>2. \A s \in SUBSET Blocks : s # {} => F[CHOOSE x \in s : TRUE] = Own(CHOOSE x \in s : TRUE)
    OBVIOUS
  <2>3. MapThenSumSet(Own, Blocks) = it[Blocks] BY DEF MapThenSumSet, MapThenFoldSet
  <2> HIDE DEF F
  <2>4. PICK f : SumsTo(f, F, Blocks) BY <1>2, <2>1, SumOfNaturals
  <2>5. f = [s \in SUBSET Blocks |->
               IF s = {} THEN 0
               ELSE Own(CHOOSE x \in s : TRUE) + f[s \ {CHOOSE x \in s : TRUE}]]
    BY <2>2, <2>4 DEF SumsTo
  <2>6. it = [s \in SUBSET Blocks |->
               IF s = {} THEN 0
               ELSE Own(CHOOSE x \in s : TRUE) + it[s \ {CHOOSE x \in s : TRUE}]]
    BY <2>5
  <2> HIDE DEF it
  <2>7. SumsTo(it, F, Blocks) BY <2>2, <2>6 DEF SumsTo
  <2> QED BY <1>2, <2>1, <2>3, <2>7, SumOfNaturals
<1>5. MapThenSumSet(Racks, Blocks) \in Nat
  <2> DEFINE F == [b \in Blocks |-> Racks(b)]
             it == CHOOSE iter : iter = [s \in SUBSET Blocks |->
                     IF s = {} THEN 0
                     ELSE Racks(CHOOSE x \in s : TRUE) + iter[s \ {CHOOSE x \in s : TRUE}]]
  <2>1. F \in [Blocks -> Nat] BY <1>1
  <2>2. \A s \in SUBSET Blocks : s # {} => F[CHOOSE x \in s : TRUE] = Racks(CHOOSE x \in s : TRUE)
    OBVIOUS
  <2>3. MapThenSumSet(Racks, Blocks) = it[Blocks] BY DEF MapThenSumSet, MapThenFoldSet
  <2> HIDE DEF F
  <2>4. PICK f : SumsTo(f, F, Blocks) BY <1>2, <2>1, SumOfNaturals
  <2>5. f = [s \in SUBSET Blocks |->
               IF s = {} THEN 0
               ELSE Racks(CHOOSE x \in s : TRUE) + f[s \ {CHOOSE x \in s : TRUE}]]
    BY <2>2, <2>4 DEF SumsTo
  <2>6. it = [s \in SUBSET Blocks |->
               IF s = {} THEN 0
               ELSE Racks(CHOOSE x \in s : TRUE) + it[s \ {CHOOSE x \in s : TRUE}]]
    BY <2>5
  <2> HIDE DEF it
  <2>7. SumsTo(it, F, Blocks) BY <2>2, <2>6 DEF SumsTo
  <2> QED BY <1>2, <2>1, <2>3, <2>7, SumOfNaturals
<1>6. Cardinality(plant.bits) \in Nat BY PlantsAssumption, BitsCounted
<1> QED BY <1>3, <1>4, <1>5, <1>6

Ticks == [plant : Plants, count : Nat, tick : Nat]

(* What a point reads of any tick is a number.                                 *)
LEMMA PointReadsANumber ==
  ASSUME NEW p \in SignalTable, NEW tock \in Ticks PROVE Extract(p, tock) \in Int
<1>1. tock.plant \in Plants /\ tock.count \in Nat /\ tock.tick \in Nat BY DEF Ticks
<1>2. CASE p.node = Site \/ p.space = "holding"
  <2> DEFINE own == {"alarm_count", "alarm_bits", "event_counter", "sim_tick", "pcs_online_count"}
  <2>1. DOMAIN SiteReads(tock) = own BY DEF SiteReads
  <2>2. CASE p.name \in own
    <3>1. PICK a \in Nat, w \in Nat : a = ActiveCount(tock.plant) /\ w = Word(tock.plant.bits)
      BY <1>1, ActiveCounted, WordNatural, PlantsAssumption
    <3>2. PICK c \in Nat : c = CounterOf(tock.count)
      <4>1. tock.count % Base \in Nat BY <1>1, BaseAssumption
      <4> QED BY <4>1 DEF CounterOf
    <3>3. PICK k \in Int : k = tock.tick % (Base * Base - 1)
      <4>1. Base \in Nat \ {0} /\ Base # 1 BY BaseAssumption
      <4>2. Base * Base \in Nat /\ Base * Base > 1
        <5>1. PICK h \in Nat : Base = h + 2
          <6>1. Base - 2 \in Nat /\ Base = (Base - 2) + 2 BY <4>1
          <6> QED BY <6>1
        <5>2. (h + 2) * (h + 2) = h * h + 4 * h + 4 /\ h * h \in Nat OBVIOUS
        <5> QED BY <5>1, <5>2
      <4>3. PICK m \in Nat \ {0} : m = Base * Base - 1 BY <4>2
      <4>4. tock.tick % m \in Int BY <1>1
      <4> QED BY <4>3, <4>4
    <3>4. PICK o \in Nat : o = Cardinality({b \in Blocks : tock.plant.blocks[b].state = Run})
      <4> DEFINE O == {b \in Blocks : tock.plant.blocks[b].state = Run}
      <4>1. O \subseteq 0..(NBlocks - 1) BY DEF Blocks
      <4> HIDE DEF O
      <4>2. 0 \in Int /\ NBlocks - 1 \in Int BY BlocksAssumption
      <4>3. Cardinality(O) \in Nat BY <4>1, <4>2, FS_Interval, FS_Subset, FS_CardinalityType
      <4> QED BY <4>3 DEF O
    <3>5. SiteReads(tock) = [alarm_count |-> 1000 * a, alarm_bits |-> 1000 * w,
                             event_counter |-> 1000 * c, sim_tick |-> 1000 * k,
                             pcs_online_count |-> 1000 * o]
      BY <3>1, <3>2, <3>3, <3>4 DEF SiteReads
    <3>6. /\ 1000 * a \in Int /\ 1000 * w \in Int /\ 1000 * c \in Int /\ 1000 * k \in Int
          /\ 1000 * o \in Int
      OBVIOUS
    <3>7. SiteReads(tock)[p.name] \in Int BY <2>2, <3>5, <3>6
    <3> QED BY <1>2, <2>1, <2>2, <3>7 DEF Extract
  <2>3. CASE p.name \notin own
    <3>1. p.name \in ReadFields BY <1>2, <2>3 DEF ReadFields
    <3>2. tock.plant.fields[p.name] \in Int BY <1>1, <3>1, PlantsAssumption
    <3> QED BY <1>2, <2>1, <2>3, <3>2 DEF Extract
  <2> QED BY <2>2, <2>3
<1>3. CASE ~(p.node = Site \/ p.space = "holding")
  <2>1. p.node[2] \in Blocks /\ p.name \in Names BY <1>3, SoundTable DEF Sound
  <2>2. tock.plant.blocks[p.node[2]] \in BlockStates BY <1>1, <2>1, PlantsAssumption
  <2>3. BlockReads(tock.plant.blocks[p.node[2]])[p.name] \in Int BY <2>1, <2>2, BlockNumbers
  <2> QED BY <1>3, <2>3 DEF Extract
<1> QED BY <1>2, <1>3
-------------------------------------------------------------------------------
(* What a tap makes of a reading. A freeze holds what it found when it began,  *)
(* from the tick after that.                                                   *)
FrozenSince(t) ==
  \A i \in DOMAIN windows :
    windows[i].kind = "freeze" =>
      windows[i].frozen = IF windows[i].start < t THEN windows[i].start ELSE Forever

Holding(p, t) == {i \in Lying(p, "freeze", t) : windows[i].start < t}
OffAfter(p, t) == {i \in Lying(p, "unit_error", t) : \A j \in Holding(p, t) : j < i}

Readings == [of : Nat, exp : Int, nan : BOOLEAN]

(* The reading of the first windows, those in s, for the sums f of exponents.  *)
TakenBy(s, p, t, f, read) ==
  LET held == s \cap Holding(p, t)
      off == {i \in s \cap Lying(p, "unit_error", t) : \A j \in held : j < i}
  IN /\ read \in Readings
     /\ read.of = IF held = {} THEN t ELSE windows[Max(held)].start
     /\ read.exp = f[off]
     /\ read.of <= t

LEMMA ThroughOne ==
  ASSUME NEW t \in Nat, NEW p, NEW n \in Nat, DOMAIN windows = 1..n,
         \A i \in 1..n : windows[i] \in Windows, FrozenSince(t),
         NEW f, SumsTo(f, [i \in 1..n |-> windows[i].exponent], 1..n),
         NEW s \in SUBSET (1..n), NEW m \in s, \A y \in s : m >= y,
         NEW read, TakenBy(s \ {m}, p, t, f, read)
  PROVE  TakenBy(s, p, t, f, IF Reaches(windows[m], "modbus", p, t)
                             THEN Through(read, windows[m]) ELSE read)
<1> DEFINE w == windows[m]
           H == Holding(p, t)
           U == Lying(p, "unit_error", t)
           held0 == (s \ {m}) \cap H
           held == s \cap H
           off0 == {i \in (s \ {m}) \cap U : \A j \in held0 : j < i}
           off == {i \in s \cap U : \A j \in held : j < i}
           F == [i \in 1..n |-> windows[i].exponent]
           next == IF Reaches(w, "modbus", p, t) THEN Through(read, w) ELSE read
<1>1. /\ m \in 1..n /\ w \in Windows /\ w.exponent \in Int /\ w.start \in Nat
      /\ w.kind \in {"dropout", "freeze", "unit_error", "chatter"} /\ w.surface = "modbus"
  BY DEF Windows
<1>2. /\ read \in Readings /\ read.of = (IF held0 = {} THEN t ELSE windows[Max(held0)].start)
      /\ read.exp = f[off0] /\ read.of <= t
  BY DEF TakenBy
<1>3. m \in H <=> w.kind = "freeze" /\ Reaches(w, "modbus", p, t) /\ w.start < t
  BY <1>1 DEF Holding, Lying, Reaches, OpenOn
<1>4. m \in U <=> w.kind = "unit_error" /\ Reaches(w, "modbus", p, t)
  BY <1>1 DEF Lying, Reaches, OpenOn
<1>5. /\ f[{}] = 0 /\ \A q \in SUBSET (1..n) : f[q] \in Int
      /\ \A q \in SUBSET (1..n) : \A x \in q : f[q] = F[x] + f[q \ {x}]
  <2>1. IsFiniteSet(1..n)
    <3>1. 1 \in Int /\ n \in Int OBVIOUS
    <3> QED BY <3>1, FS_Interval
  <2>2. F \in [1..n -> Int] BY DEF Windows
  <2>3. SumsTo(f, F, 1..n) OBVIOUS
  <2> HIDE DEF F
  <2>4. AddsUp(f, F, 1..n) BY <2>1, <2>2, <2>3, SumAnyOrder
  <2> QED BY <2>4 DEF AddsUp
<1>6. \A i \in s : i \in Nat /\ m \in Nat /\ i <= m BY <1>1
<1>7. SUFFICES /\ next \in Readings /\ next.of = (IF held = {} THEN t ELSE windows[Max(held)].start)
               /\ next.exp = f[off] /\ next.of <= t
  BY DEF TakenBy
<1> HIDE DEF w, H, U, F
<1>8. CASE m \in H
  <2>1. w.kind = "freeze" /\ w.frozen = w.start /\ Reaches(w, "modbus", p, t) /\ w.start < t
    BY <1>1, <1>3, <1>8 DEF FrozenSince, w
  <2>2. next = [of |-> w.start, exp |-> 0, nan |-> FALSE]
    <3>1. w.frozen # Forever BY <1>1, <2>1 DEF Forever
    <3> QED BY <2>1, <3>1 DEF Through
  <2>3. m \in held /\ \A y \in held : m >= y BY <1>8
  <2>4. held # {} /\ Max(held) = m
    <3>1. Max(held) \in held /\ \A y \in held : Max(held) >= y BY <2>3, MaxOfIndices
    <3> HIDE DEF held
    <3>2. PICK x : x = Max(held) OBVIOUS
    <3>3. held \subseteq Nat BY <1>6 DEF held
    <3>4. x \in held /\ x >= m BY <2>3, <3>1, <3>2
    <3>5. m >= x /\ m \in held BY <2>3, <3>4
    <3>6. x = m BY <3>3, <3>4, <3>5
    <3> QED BY <3>2, <3>5, <3>6
  <2>5. off = {}
    <3>1. ASSUME NEW i \in off PROVE FALSE
      <4>1. i \in s /\ m < i BY <2>3
      <4> QED BY <1>6, <4>1
    <3> QED BY <3>1
  <2> HIDE DEF next, held, off
  <2>6. next.exp = f[off] BY <1>5, <2>2, <2>5
  <2>7. next.of = windows[Max(held)].start BY <2>2, <2>4 DEF w
  <2>8. next \in Readings /\ next.of <= t BY <1>1, <2>1, <2>2 DEF Readings
  <2> QED BY <2>4, <2>6, <2>7, <2>8
<1>9. CASE m \notin H /\ m \in U
  <2>1. held = held0 BY <1>9
  <2>2. m \in off /\ off \ {m} = off0 /\ off \in SUBSET (1..n)
    <3>1. \A j \in held : j \in s /\ j # m BY <1>9
    <3>2. \A j \in held : j < m BY <1>6, <3>1
    <3>3. m \in off BY <1>9, <3>2
    <3> QED BY <2>1, <3>3
  <2>3. next = [read EXCEPT !.exp = @ + w.exponent] BY <1>4, <1>9 DEF Through
  <2> HIDE DEF next, held, held0, off, off0
  <2>4. f[off] = w.exponent + f[off0] /\ f[off0] \in Int
    <3>1. F[m] = w.exponent BY <1>1 DEF F, w
    <3>2. off0 \in SUBSET (1..n) BY <2>2
    <3> QED BY <1>5, <2>2, <3>1, <3>2
  <2>5. /\ next.of = read.of /\ next.exp = read.exp + w.exponent /\ next \in Readings
    BY <1>1, <1>2, <2>3 DEF Readings
  <2>6. next.exp = f[off] BY <1>1, <1>2, <2>4, <2>5
  <2> QED BY <1>2, <2>1, <2>5, <2>6
<1>10. CASE m \notin H /\ m \notin U
  <2>1. held = held0 BY <1>10
  <2>2. off = off0 BY <1>10
  <2>3. next = read
    <3>1. CASE ~Reaches(w, "modbus", p, t) BY <3>1
    <3>2. CASE Reaches(w, "modbus", p, t) /\ w.kind = "freeze"
      <4>1. ~(w.start < t) BY <1>3, <1>10, <3>2
      <4>2. w.frozen = Forever BY <1>1, <3>2, <4>1 DEF FrozenSince, w
      <4> QED BY <3>2, <4>2 DEF Through
    <3>3. CASE Reaches(w, "modbus", p, t) /\ w.kind # "freeze"
      <4>1. w.kind \in {"dropout", "chatter"} BY <1>1, <1>4, <1>10, <3>3
      <4> QED BY <3>3, <4>1 DEF Through
    <3> QED BY <3>1, <3>2, <3>3
  <2> HIDE DEF next, held, held0, off, off0
  <2> QED BY <1>2, <2>1, <2>2, <2>3
<1> QED BY <1>8, <1>9, <1>10

LEMMA StepInReadings ==
  ASSUME NEW w \in Windows, NEW surface, NEW p, NEW t, NEW read \in Readings,
         w.kind = "freeze" => w.frozen = Forever \/ w.frozen \in Nat
  PROVE  (IF Reaches(w, surface, p, t) THEN Through(read, w) ELSE read) \in Readings
<1>1. w.exponent \in Int BY DEF Windows
<1>2. [read EXCEPT !.exp = @ + w.exponent] \in Readings BY <1>1 DEF Readings
<1>3. [read EXCEPT !.nan = TRUE] \in Readings BY DEF Readings
<1>4. w.kind = "freeze" /\ w.frozen # Forever =>
        [of |-> w.frozen, exp |-> 0, nan |-> FALSE] \in Readings BY DEF Readings
<1> QED BY <1>2, <1>3, <1>4 DEF Through

ExponentsIn(ws, T) == MapThenSumSet(LAMBDA i : ws[i].exponent, T)

LEMMA ExponentSum ==
  ASSUME NEW ws, NEW T, IsFiniteSet(T), \A i \in T : ws[i].exponent \in Int
  PROVE  \E g : /\ SumsTo(g, [i \in T |-> ws[i].exponent], T)
                /\ ExponentsIn(ws, T) = g[T]
<1> DEFINE G == [i \in T |-> ws[i].exponent]
           it == CHOOSE iter : iter = [s \in SUBSET T |->
                   IF s = {} THEN 0
                   ELSE ws[CHOOSE x \in s : TRUE].exponent
                          + iter[s \ {CHOOSE x \in s : TRUE}]]
<1>1. G \in [T -> Int] OBVIOUS
<1>2. \A s \in SUBSET T : s # {} =>
        G[CHOOSE x \in s : TRUE] = ws[CHOOSE x \in s : TRUE].exponent
  OBVIOUS
<1>3. ExponentsIn(ws, T) = it[T]
  BY DEF ExponentsIn, MapThenSumSet, MapThenFoldSet
<1> HIDE DEF G
<1>4. PICK g : SumsTo(g, G, T) BY <1>1, SumOfIntegers
<1>5. g = [s \in SUBSET T |->
             IF s = {} THEN 0
             ELSE ws[CHOOSE x \in s : TRUE].exponent
                    + g[s \ {CHOOSE x \in s : TRUE}]]
  BY <1>2, <1>4 DEF SumsTo
<1>6. it = [s \in SUBSET T |->
             IF s = {} THEN 0
             ELSE ws[CHOOSE x \in s : TRUE].exponent
                    + it[s \ {CHOOSE x \in s : TRUE}]]
  BY <1>5
<1> HIDE DEF it
<1>7. SumsTo(it, G, T) BY <1>2, <1>6 DEF SumsTo
<1> QED BY <1>3, <1>7 DEF G

(* The exponents of some of the windows, as a sum over all of them has them.   *)
LEMMA ExponentsOf ==
  ASSUME NEW n \in Nat, \A i \in 1..n : windows[i].exponent \in Int,
         NEW f, SumsTo(f, [i \in 1..n |-> windows[i].exponent], 1..n),
         NEW T \in SUBSET (1..n)
  PROVE  ExponentsIn(windows, T) = f[T]
<1> DEFINE F == [i \in 1..n |-> windows[i].exponent]
           G == [i \in T |-> windows[i].exponent]
<1>1. IsFiniteSet(1..n) /\ IsFiniteSet(T)
  <2>1. 1 \in Int /\ n \in Int OBVIOUS
  <2>2. IsFiniteSet(1..n) BY <2>1, FS_Interval
  <2> QED BY <2>2, FS_Subset
<1>2. Partly(T, G, 1..n, F) BY DEF Partly
<1>3. SumsTo(f, F, 1..n) OBVIOUS
<1>4. PICK g : SumsTo(g, G, T) /\ ExponentsIn(windows, T) = g[T]
  <2>1. \A i \in T : windows[i].exponent \in Int OBVIOUS
  <2> QED BY <1>1, <2>1, ExponentSum
<1>5. SumsTo(g, G, T) BY <1>4
<1> HIDE DEF F, G
<1>6. g[T] = f[T] BY <1>1, <1>2, <1>3, <1>5, SumOfPart
<1> QED BY <1>4, <1>6

LEMMA ReadingTaken ==
  ASSUME NEW t \in Nat, NEW p, windows \in Seq(Windows), FrozenSince(t)
  PROVE  LET read == Value(windows, "modbus", p, t)
         IN /\ read.of = IF Holding(p, t) = {} THEN t ELSE windows[Max(Holding(p, t))].start
            /\ read.exp = ExponentsIn(windows, OffAfter(p, t))
            /\ read.of \in 0..t /\ read.exp \in Int
<1>1. PICK n \in Nat : DOMAIN windows = 1..n /\ \A i \in 1..n : windows[i] \in Windows
  BY LenProperties
<1> DEFINE base == [of |-> t, exp |-> 0, nan |-> FALSE]
           Step(read, i) == IF Reaches(windows[i], "modbus", p, t)
                            THEN Through(read, windows[i]) ELSE read
           Loop(f) == [s \in SUBSET (1..n) |->
                         IF s = {} THEN base ELSE Step(f[s \ {Max(s)}], Max(s))]
           it == CHOOSE f : f = Loop(f)
           G == [q \in Readings \X (1..n) |-> Step(q[1], q[2])]
           F == [i \in 1..n |-> windows[i].exponent]
<1>2. Value(windows, "modbus", p, t) = it[1..n]
  BY <1>1 DEF Value, FoldLeft, MapThenFoldSet
<1>3. base \in Readings BY DEF Readings
<1>4. base.of = t /\ base.exp = 0 OBVIOUS
<1> HIDE DEF base
<1>5. ASSUME NEW s \in SUBSET (1..n), s # {}
      PROVE  Max(s) \in s /\ Max(s) \in 1..n /\ s \ {Max(s)} \in SUBSET (1..n)
             /\ \A y \in s : Max(s) >= y
  <2>1. Max(s) \in s /\ \A y \in s : Max(s) >= y BY <1>5, MaxOfIndices
  <2> QED BY <2>1
<1>6. \A q \in Readings, i \in 1..n : Step(q, i) \in Readings
  <2> SUFFICES ASSUME NEW q \in Readings, NEW i \in 1..n PROVE Step(q, i) \in Readings
    OBVIOUS
  <2>1. windows[i] \in Windows BY <1>1
  <2>2. windows[i].start \in Nat BY <2>1 DEF Windows
  <2>3. windows[i].kind = "freeze" => windows[i].frozen = Forever \/ windows[i].frozen \in Nat
    BY <1>1, <2>2 DEF FrozenSince
  <2> QED BY <2>1, <2>3, StepInReadings
<1> HIDE DEF Step
<1>7. \E f : f = Loop(f)
  <2>1. G \in [Readings \X (1..n) -> Readings] BY <1>6
  <2> HIDE DEF G
  <2>2. PICK f : FoldsTo(f, Readings, base, G, n) BY <1>3, <2>1, FoldExists, Zenon
  <2>3. /\ f \in [SUBSET (1..n) -> Readings]
        /\ \A s \in SUBSET (1..n) :
             f[s] = IF s = {} THEN base ELSE G[<<f[s \ {Max(s)}], Max(s)>>]
    BY <2>2 DEF FoldsTo
  <2>4. ASSUME NEW s \in SUBSET (1..n), s # {}
        PROVE  f[s] = Step(f[s \ {Max(s)}], Max(s))
    <3>1. PICK x \in Readings : x = f[s \ {Max(s)}] BY <1>5, <2>3, <2>4
    <3>2. PICK k \in 1..n : k = Max(s) BY <1>5, <2>4
    <3>3. f[s] = G[<<x, k>>] BY <2>3, <2>4, <3>1, <3>2
    <3>4. G[<<x, k>>] = Step(x, k)
      <4>1. <<x, k>> \in Readings \X (1..n) OBVIOUS
      <4> QED BY <4>1 DEF G
    <3> QED BY <3>1, <3>2, <3>3, <3>4
  <2>5. \A s \in SUBSET (1..n) :
          f[s] = IF s = {} THEN base ELSE Step(f[s \ {Max(s)}], Max(s))
    BY <2>3, <2>4
  <2>6. f = [s \in SUBSET (1..n) |-> f[s]] BY <2>3
  <2>7. f = Loop(f) BY <2>5, <2>6
  <2> QED BY <2>7
<1>8. it = Loop(it) BY <1>7
<1> HIDE DEF it
<1>9. /\ it[{}] = base
      /\ \A s \in SUBSET (1..n) : s # {} => it[s] = Step(it[s \ {Max(s)}], Max(s))
  <2>1. {} \in SUBSET (1..n) OBVIOUS
  <2>2. \A s \in SUBSET (1..n) : it[s] = IF s = {} THEN base ELSE Step(it[s \ {Max(s)}], Max(s))
    BY <1>8
  <2> QED BY <2>1, <2>2
<1>10. PICK f : SumsTo(f, F, 1..n)
  <2>1. IsFiniteSet(1..n)
    <3>1. 1 \in Int /\ n \in Int OBVIOUS
    <3> QED BY <3>1, FS_Interval
  <2>2. F \in [1..n -> Int] BY <1>1 DEF Windows
  <2> HIDE DEF F
  <2> QED BY <2>1, <2>2, SumOfIntegers
<1>11. TakenBy({}, p, t, f, base)
  <2>1. f[{}] = 0 BY <1>10 DEF SumsTo
  <2>2. {i \in {} \cap Lying(p, "unit_error", t) : \A j \in {} \cap Holding(p, t) : j < i} = {}
    OBVIOUS
  <2>3. {} \cap Holding(p, t) = {} OBVIOUS
  <2> QED BY <1>3, <1>4, <2>1, <2>2, <2>3 DEF TakenBy
<1>12. TakenBy(1..n, p, t, f, it[1..n])
  <2> DEFINE R == {q \in (SUBSET (1..n)) \X Readings : TakenBy(q[1], p, t, f, q[2])}
  <2>1. <<{}, it[{}]>> \in R BY <1>3, <1>9, <1>11
  <2>2. ASSUME NEW s \in SUBSET (1..n), s # {}, <<s \ {Max(s)}, it[s \ {Max(s)}]>> \in R
        PROVE  <<s, it[s]>> \in R
    <3>1. PICK m : m = Max(s) OBVIOUS
    <3>2. PICK read : read = it[s \ {m}] OBVIOUS
    <3>3. m \in s /\ \A y \in s : m >= y BY <1>5, <2>2, <3>1
    <3>4. read \in Readings /\ TakenBy(s \ {m}, p, t, f, read) BY <2>2, <3>1, <3>2
    <3>5. it[s] = Step(read, m) BY <1>9, <2>2, <3>1, <3>2
    <3>6. TakenBy(s, p, t, f, Step(read, m))
      BY <1>1, <1>10, <3>3, <3>4, ThroughOne DEF Step
    <3>7. Step(read, m) \in Readings BY <3>6 DEF TakenBy
    <3> QED BY <3>5, <3>6, <3>7
  <2> HIDE DEF R
  <2>3. <<1..n, it[1..n]>> \in R BY <2>1, <2>2, FoldStays
  <2> QED BY <2>3 DEF R
<1>13. (1..n) \cap Holding(p, t) = Holding(p, t) BY <1>1 DEF Holding, Lying
<1>14. {i \in (1..n) \cap Lying(p, "unit_error", t) : \A j \in Holding(p, t) : j < i} = OffAfter(p, t)
  BY <1>1 DEF OffAfter, Lying
<1>15. OffAfter(p, t) \in SUBSET (1..n) BY <1>1 DEF OffAfter, Lying
<1>16. f[OffAfter(p, t)] = ExponentsIn(windows, OffAfter(p, t))
  <2>1. \A i \in 1..n : windows[i].exponent \in Int BY <1>1 DEF Windows
  <2> QED BY <1>10, <1>15, <2>1, ExponentsOf
<1> DEFINE read == it[1..n]
<1>17. /\ read \in Readings
       /\ read.of = IF Holding(p, t) = {} THEN t ELSE windows[Max(Holding(p, t))].start
       /\ read.exp = f[OffAfter(p, t)]
       /\ read.of <= t
  BY <1>12, <1>13, <1>14 DEF TakenBy
<1>18. read.of \in 0..t /\ read.exp \in Int BY <1>17 DEF Readings
<1> QED BY <1>2, <1>16, <1>17, <1>18

PastTick(t) == At(t) \in Ticks

LEMMA PastTicks ==
  ASSUME MapTypeOK PROVE Tick \in Nat /\ \A t \in 0..Tick : PastTick(t)
<1> DEFINE R == [plant : Plants, count : Nat, tick : Nat]
<1>1. past \in Seq(R) /\ past # << >> BY DEF MapTypeOK
<1>2. R = Ticks BY DEF Ticks
<1> HIDE DEF R
<1>3. Len(past) \in Nat \ {0} BY <1>1, EmptySeq, LenProperties
<1>4. Tick \in Nat /\ Tick + 1 = Len(past) BY <1>3 DEF Tick
<1>5. ASSUME NEW t \in 0..Tick PROVE PastTick(t)
  <2>1. t + 1 \in 1..Len(past) BY <1>4
  <2>2. past[t + 1] \in R BY <1>1, <2>1, ElementOfSeq
  <2> QED BY <1>2, <2>2 DEF PastTick, At
<1> QED BY <1>4, <1>5

LEMMA FlapsAlike ==
  ASSUME windows \in Seq(Windows), NEW p, NEW t
  PROVE  /\ Flipped(windows, "modbus", p, t) <=> Flaps(p, t)
         /\ Flaps(p, t) => p.word
<1> DEFINE second(i) == ((t - windows[i].start) * windows[i].rate) % 600 >= 300
           flips == {i \in DOMAIN windows :
                       /\ windows[i].kind = "chatter" /\ second(i)
                       /\ Reaches(windows[i], "modbus", p, t)}
           flaps == {i \in Lying(p, "chatter", t) : second(i)}
<1>1. \A i \in DOMAIN windows : windows[i].surface = "modbus"
  <2>1. \A i \in DOMAIN windows : windows[i] \in Windows BY LenProperties
  <2> QED BY <2>1 DEF Windows
<1>2. Flipped(windows, "modbus", p, t) <=> Cardinality(flips) % 2 = 1 BY DEF Flipped
<1>3. Flaps(p, t) <=> Cardinality(flaps) % 2 = 1 BY DEF Flaps
<1> HIDE DEF second
<1>4. flips = flaps BY <1>1 DEF Lying, Reaches, OpenOn
<1>5. ASSUME ~p.word PROVE flaps = {} BY <1>5 DEF Lying, Selects
<1> HIDE DEF flips, flaps
<1>6. Cardinality({}) = 0 BY FS_EmptySet
<1>7. ~p.word => ~Flaps(p, t)
  <2> SUFFICES ASSUME ~p.word PROVE ~Flaps(p, t) OBVIOUS
  <2>1. Cardinality(flaps) = 0 BY <1>5, <1>6
  <2>2. 0 % 2 # 1 OBVIOUS
  <2> QED BY <1>3, <2>1, <2>2
<1> QED BY <1>2, <1>3, <1>4, <1>7

(* What a point's words say, through every fault.                              *)
LEMMA WordsSay ==
  ASSUME MapTypeOK, FrozenSince(Tick), NEW p \in SignalTable, NEW w, w = WordsOf(p),
         NEW of, of = (IF Holding(p, Tick) = {} THEN Tick ELSE windows[Max(Holding(p, Tick))].start),
         NEW exp, exp = ExponentsIn(windows, OffAfter(p, Tick))
  PROVE  Nearest(p, IF Flaps(p, Tick) THEN FlipLowest(Spelt(p, w)) ELSE Spelt(p, w),
                 Extract(p, At(of)), exp)
<1> DEFINE read == Value(windows, "modbus", p, Tick)
           value == Extract(p, At(of))
           c == Counts(p, value, exp)
           s == Saturated(p, c)
           words == Encode(p, c)
<1>1. Tick \in Nat /\ windows \in Seq(Windows) BY PastTicks DEF MapTypeOK
<1>2. PICK t \in Nat : t = Tick BY <1>1
<1>3. read.of = of /\ read.exp = exp /\ read.of \in 0..Tick /\ read.exp \in Int
  <2>1. FrozenSince(t) BY <1>2
  <2> DEFINE r == Value(windows, "modbus", p, t)
  <2>2. /\ r.of = IF Holding(p, t) = {} THEN t ELSE windows[Max(Holding(p, t))].start
        /\ r.exp = ExponentsIn(windows, OffAfter(p, t))
        /\ r.of \in 0..t /\ r.exp \in Int
    BY <1>1, <2>1, ReadingTaken
  <2>3. r = read BY <1>2
  <2> QED BY <1>2, <2>2, <2>3
<1>4. of \in 0..Tick /\ exp \in Int BY <1>3
<1>5. value \in Int
  <2>1. At(of) \in Ticks BY <1>4, PastTicks DEF PastTick
  <2> QED BY <2>1, PointReadsANumber
<1>6. p.enc \in Encodings /\ p.scale \in Nat \ {0} /\ (p.word => p.enc = "U16")
  BY SoundTable DEF Sound
<1>7. c \in Int /\ Nearest(p, s, value, exp)
  <2> HIDE DEF value
  <2> QED BY <1>4, <1>5, <1>6, SaidNearest
<1>8. w = IF Flipped(windows, "modbus", p, Tick)
          THEN [words EXCEPT ![Len(words)] = FlipLowest(@)] ELSE words
  <2>1. w = LET r == read
                ws == Encode(p, Counts(p, Extract(p, At(r.of)), r.exp))
            IN IF Flipped(windows, "modbus", p, Tick)
               THEN [ws EXCEPT ![Len(ws)] = FlipLowest(@)] ELSE ws
    BY DEF WordsOf
  <2> HIDE DEF read
  <2> QED BY <1>3, <2>1
<1> HIDE DEF read, value, c
<1>9. /\ s \in Least(p)..Most(p)
      /\ Spelt(p, words) = s
      /\ Words(p.enc) = 1 => words = <<s % Base>> /\ Modulus(p.enc) = Base
  BY <1>6, <1>7, EncodedReadsBack
<1> HIDE DEF s, words
<1>10. CASE ~Flaps(p, Tick)
  <2>1. w = words BY <1>1, <1>8, <1>10, FlapsAlike
  <2> QED BY <1>7, <1>9, <1>10, <2>1 DEF value
<1>11. CASE Flaps(p, Tick)
  <2>1. p.word /\ w = [words EXCEPT ![Len(words)] = FlipLowest(@)]
    BY <1>1, <1>8, <1>11, FlapsAlike
  <2>2. p.enc = "U16" /\ Words(p.enc) = 1 /\ ~Signed(p.enc) BY <1>6, <2>1 DEF Words, Signed
  <2>3. s \in 0..(Base - 1) /\ Base \in Nat \ {0}
    BY <1>9, <2>2, BaseAssumption DEF Least, Most
  <2>4. words = <<s>>
    <3>1. s % Base = s BY <2>3
    <3> QED BY <1>9, <2>2, <3>1
  <2>5. w = <<FlipLowest(s)>> BY <2>1, <2>4
  <2>6. Spelt(p, w) = FlipLowest(s) BY <2>2, <2>5 DEF Spelt
  <2>7. FlipLowest(FlipLowest(s)) = s BY <2>3, FlipTwice
  <2> QED BY <1>7, <1>11, <2>6, <2>7 DEF value
<1> QED BY <1>10, <1>11

Told(a) == a.tick \in 0..Tick /\ \A p \in Inside(a) : ReadsTheDevice(p, a)

PollInv == /\ MapTypeOK /\ FrozenSince(Tick)
           /\ Told(reply) /\ Told(heard[1]) /\ Told(heard[2])

(* What an answer reads, in the names of the lemmas.                           *)
LEMMA ReadsIt ==
  ASSUME NEW p, NEW a, NEW of, NEW d,
         of = (IF Holding(p, a.tick) = {} THEN a.tick
               ELSE windows[Max(Holding(p, a.tick))].start),
         d = Decoded(p, a)
  PROVE  ReadsTheDevice(p, a) <=>
           Nearest(p, IF Flaps(p, a.tick) THEN FlipLowest(d) ELSE d, Extract(p, At(of)),
                   ExponentsIn(windows, OffAfter(p, a.tick)))
BY DEF ReadsTheDevice, ExponentsIn, OffAfter, Holding

LEMMA ServedPoint ==
  ASSUME MapTypeOK, FrozenSince(Tick), NEW req \in Requests \cup {Nothing.request}
  PROVE  Told(ReadBank(req))
<1> DEFINE a == ReadBank(req)
<1>1. /\ a.request = req /\ a.tick = Tick
      /\ a.words = IF Refused(req) THEN << >>
                   ELSE [i \in 1..req.count |-> Register(req.space, req.addr + i - 1)]
  BY DEF ReadBank
<1>2. req.addr \in Nat /\ req.count \in Nat BY MapAssumption DEF Nothing
<1>3. a.tick \in 0..Tick BY <1>1, PastTicks
<1> HIDE DEF a
<1>4. ASSUME NEW p \in Inside(a) PROVE ReadsTheDevice(p, a)
  <2>1. /\ p \in SignalTable /\ p.space = req.space /\ p.addr >= req.addr
        /\ p.addr + Words(p.enc) <= req.addr + Len(a.words)
    BY <1>1, <1>4 DEF Inside
  <2>2. p.addr \in Nat /\ Words(p.enc) \in {1, 2} BY <2>1, SoundTable DEF Sound, Words
  <2>3. ~Refused(req)
    <3>1. Len(<< >>) = 0 OBVIOUS
    <3> QED BY <1>1, <1>2, <2>1, <2>2, <3>1
  <2>4. Len(a.words) = req.count BY <1>1, <1>2, <2>3
  <2>5. PICK w : w = WordsOf(p) OBVIOUS
  <2>6. ASSUME NEW k \in 1..Words(p.enc)
        PROVE  a.words[p.addr - req.addr + k] = w[k]
    <3>1. PICK j \in 1..req.count : j = p.addr - req.addr + k BY <1>2, <2>1, <2>2, <2>4
    <3>2. req.addr + j - 1 = p.addr + k - 1 BY <1>2, <2>2, <3>1
    <3>3. a.words[j] = Register(req.space, req.addr + j - 1) BY <1>1, <2>3
    <3>4. Register(p.space, p.addr + k - 1) = w[k] BY <2>1, <2>5, RegisterHolds
    <3> QED BY <2>1, <3>1, <3>2, <3>3, <3>4
  <2>7. a.words[p.addr - req.addr + 1] = w[1] BY <2>2, <2>6
  <2>8. Words(p.enc) = 2 => a.words[p.addr - req.addr + 2] = w[2] BY <2>6
  <2>9. Decoded(p, a) = Spelt(p, w)
    BY <1>1, <2>7, <2>8 DEF Decoded, Spelt
  <2>10. PICK of : of = IF Holding(p, Tick) = {} THEN Tick ELSE windows[Max(Holding(p, Tick))].start
    OBVIOUS
  <2>11. PICK exp : exp = ExponentsIn(windows, OffAfter(p, Tick)) OBVIOUS
  <2>12. PICK d : d = Spelt(p, w) OBVIOUS
  <2>13. Nearest(p, IF Flaps(p, Tick) THEN FlipLowest(d) ELSE d, Extract(p, At(of)), exp)
    BY <2>1, <2>5, <2>10, <2>11, <2>12, WordsSay
  <2> QED BY <1>1, <2>9, <2>10, <2>11, <2>12, <2>13, ReadsIt
<1> QED BY <1>3, <1>4 DEF Told, a

LEMMA NothingTold == MapTypeOK => Told(Nothing)
<1> SUFFICES ASSUME MapTypeOK PROVE Told(Nothing) OBVIOUS
<1>1. Nothing.tick \in 0..Tick BY PastTicks DEF Nothing
<1>2. ASSUME NEW p \in Inside(Nothing) PROVE FALSE
  <2>1. Len(Nothing.words) = 0 /\ Nothing.request.addr = 0 BY DEF Nothing
  <2>2. p.addr \in Nat /\ Words(p.enc) \in {1, 2} BY SoundTable DEF Sound, Words, Inside
  <2> QED BY <2>1, <2>2 DEF Inside
<1> QED BY <1>1, <1>2 DEF Told

LEMMA Published ==
  ASSUME MapTypeOK, Publish
  PROVE  /\ Tick' = Tick + 1
         /\ \A t \in 0..Tick : At(t)' = At(t)
         /\ DOMAIN windows' = DOMAIN windows
         /\ \A i \in DOMAIN windows :
              /\ windows'[i].kind = windows[i].kind /\ windows'[i].points = windows[i].points
              /\ windows'[i].start = windows[i].start /\ windows'[i].end = windows[i].end
              /\ windows'[i].exponent = windows[i].exponent /\ windows'[i].rate = windows[i].rate
              /\ windows'[i].frozen = IF windows[i].kind = "freeze" /\ windows[i].start = Tick
                                      THEN Tick ELSE windows[i].frozen
<1> DEFINE R == [plant : Plants, count : Nat, tick : Nat]
<1>1. past \in Seq(R) /\ past # << >> BY DEF MapTypeOK
<1>2. PICK next : past' = Append(past, next) BY DEF Publish
<1>3. MapTypeOK' BY PublishKeeps
<1>4. past' \in Seq(R) BY <1>3 DEF MapTypeOK
<1> HIDE DEF R
<1>5. Len(past) \in Nat \ {0} BY <1>1, EmptySeq, LenProperties
<1>6. Len(past') = Len(past) + 1 /\ \A i \in 1..Len(past) : past'[i] = past[i]
  BY <1>1, <1>2
<1>7. Tick = Len(past) - 1 /\ Tick' = Len(past') - 1 BY DEF Tick
<1>8. Tick' = Tick + 1 BY <1>5, <1>6, <1>7
<1>9. ASSUME NEW t \in 0..Tick PROVE At(t)' = At(t)
  <2>1. t + 1 \in 1..Len(past) BY <1>5, <1>7
  <2> QED BY <1>6, <2>1 DEF At
<1>10. \A i \in DOMAIN windows : windows[i] \in Windows
  BY LenProperties DEF MapTypeOK
<1>11. windows' = [i \in DOMAIN windows |->
                     IF windows[i].kind = "freeze" /\ windows[i].start = Tick
                     THEN [windows[i] EXCEPT !.frozen = Tick] ELSE windows[i]]
  BY DEF Publish
<1>12. DOMAIN windows' = DOMAIN windows BY <1>11
<1>13. ASSUME NEW i \in DOMAIN windows
       PROVE /\ windows'[i].kind = windows[i].kind /\ windows'[i].points = windows[i].points
             /\ windows'[i].start = windows[i].start /\ windows'[i].end = windows[i].end
             /\ windows'[i].exponent = windows[i].exponent /\ windows'[i].rate = windows[i].rate
             /\ windows'[i].frozen = IF windows[i].kind = "freeze" /\ windows[i].start = Tick
                                     THEN Tick ELSE windows[i].frozen
  BY <1>10, <1>11 DEF Windows
<1> QED BY <1>8, <1>9, <1>12, <1>13

(* A freeze takes its values at the tick it begins, and once.                  *)
LEMMA FreezesKept ==
  ASSUME MapTypeOK, FrozenSince(Tick), Publish PROVE FrozenSince(Tick)'
<1>1. Tick \in Nat BY PastTicks
<1>2. \A i \in DOMAIN windows : windows[i].start \in Nat
  <2>1. \A i \in DOMAIN windows : windows[i] \in Windows BY LenProperties DEF MapTypeOK
  <2> QED BY <2>1 DEF Windows
<1>3. SUFFICES ASSUME NEW i \in DOMAIN windows', windows'[i].kind = "freeze"
               PROVE windows'[i].frozen =
                       IF windows'[i].start < Tick' THEN windows'[i].start ELSE Forever
  BY DEF FrozenSince
<1>4. /\ i \in DOMAIN windows /\ windows[i].kind = "freeze" /\ Tick' = Tick + 1
      /\ windows'[i].start = windows[i].start
      /\ windows'[i].frozen = IF windows[i].start = Tick THEN Tick ELSE windows[i].frozen
  BY <1>3, Published
<1>5. windows[i].frozen = IF windows[i].start < Tick THEN windows[i].start ELSE Forever
  BY <1>4 DEF FrozenSince
<1> QED BY <1>1, <1>2, <1>4, <1>5

(* What was told of a tick stays what its device read then.                    *)
LEMMA ToldForGood ==
  ASSUME MapTypeOK, Publish, NEW a, Told(a) PROVE Told(a)'
<1>1. a.tick \in 0..Tick /\ Tick \in Nat /\ a.tick \in 0..Tick'
  <2>1. Tick \in Nat /\ a.tick \in 0..Tick /\ Tick' = Tick + 1 BY PastTicks, Published DEF Told
  <2> QED BY <2>1
<1>2. PICK t \in Nat : t = a.tick BY <1>1
<1>3. ASSUME NEW p
      PROVE  /\ Holding(p, t)' = Holding(p, t) /\ OffAfter(p, t)' = OffAfter(p, t)
             /\ Flaps(p, t)' <=> Flaps(p, t)
             /\ \A i \in Holding(p, t) : i \in DOMAIN windows /\ windows[i].start < t
             /\ OffAfter(p, t) \subseteq DOMAIN windows
  <2>1. ASSUME NEW kind PROVE Lying(p, kind, t)' = Lying(p, kind, t)
    BY Published DEF Lying, Covers
  <2>2. \A kind : Lying(p, kind, t) \subseteq DOMAIN windows BY DEF Lying
  <2>3. Holding(p, t)' = Holding(p, t) BY <2>1, <2>2, Published DEF Holding
  <2>4. OffAfter(p, t)' = OffAfter(p, t) BY <2>1, <2>3 DEF OffAfter
  <2>5. {i \in Lying(p, "chatter", t)' : ((t - windows'[i].start) * windows'[i].rate) % 600 >= 300}
          = {i \in Lying(p, "chatter", t) : ((t - windows[i].start) * windows[i].rate) % 600 >= 300}
    BY <2>1, <2>2, Published
  <2>6. Flaps(p, t)' <=> Flaps(p, t) BY <2>5 DEF Flaps
  <2> QED BY <2>2, <2>3, <2>4, <2>6 DEF Holding, OffAfter
<1>4. ASSUME NEW p \in Inside(a) PROVE ReadsTheDevice(p, a)'
  <2> DEFINE H == Holding(p, t)
             d == Decoded(p, a)
  <2>1. PICK of \in 0..t : /\ of = IF H = {} THEN t ELSE windows[Max(H)].start
                           /\ of = IF H = {} THEN t ELSE windows'[Max(H)].start
    <3>1. CASE H = {} BY <3>1
    <3>2. CASE H # {}
      <4>1. PICK n \in Nat : DOMAIN windows = 1..n BY LenProperties DEF MapTypeOK
      <4>2. H \subseteq 1..n BY <1>3, <4>1
      <4>3. PICK m : m = Max(H) OBVIOUS
      <4> HIDE DEF H
      <4>4. m \in H BY <3>2, <4>2, <4>3, MaxOfIndices
      <4>5. m \in DOMAIN windows /\ windows[m].start < t BY <1>3, <4>4 DEF H
      <4>6. windows[m].start \in Nat
        <5>1. windows[m] \in Windows BY <4>5, LenProperties DEF MapTypeOK
        <5> QED BY <5>1 DEF Windows
      <4>7. windows'[m].start = windows[m].start BY <4>5, Published
      <4> QED BY <3>2, <4>3, <4>5, <4>6, <4>7
    <3> QED BY <3>1, <3>2
  <2>2. At(of)' = At(of)
    <3>1. of \in 0..Tick BY <1>1, <1>2, <2>1
    <3> QED BY <3>1, Published
  <2>3. ExponentsIn(windows', OffAfter(p, t)) = ExponentsIn(windows, OffAfter(p, t))
    <3> DEFINE O == OffAfter(p, t)
               F == [i \in O |-> windows[i].exponent]
               G == [i \in O |-> windows'[i].exponent]
    <3>1. PICK n \in Nat : DOMAIN windows = 1..n BY LenProperties DEF MapTypeOK
    <3>2. O \subseteq 1..n BY <1>3, <3>1
    <3>3. IsFiniteSet(O)
      <4>1. 1 \in Int /\ n \in Int OBVIOUS
      <4> HIDE DEF O
      <4> QED BY <3>2, <4>1, FS_Interval, FS_Subset
    <3>4. \A i \in O : windows[i].exponent \in Int
      <4>1. \A i \in DOMAIN windows : windows[i] \in Windows BY LenProperties DEF MapTypeOK
      <4> QED BY <3>1, <3>2, <4>1 DEF Windows
    <3>5. \A i \in O : windows'[i].exponent = windows[i].exponent BY <3>1, <3>2, Published
    <3> HIDE DEF O
    <3>6. G = F BY <3>5
    <3>7. \A i \in O : windows'[i].exponent \in Int BY <3>4, <3>5
    <3>8. PICK f : SumsTo(f, F, O) /\ ExponentsIn(windows, O) = f[O] BY <3>3, <3>4, ExponentSum
    <3>9. PICK g : SumsTo(g, G, O) /\ ExponentsIn(windows', O) = g[O] BY <3>3, <3>7, ExponentSum
    <3> HIDE DEF F, G
    <3>10. Partly(O, G, O, F) BY <3>6 DEF Partly
    <3>11. SumsTo(f, F, O) /\ SumsTo(g, G, O) BY <3>8, <3>9
    <3>12. g[O] = f[O] BY <3>3, <3>10, <3>11, SumOfPart
    <3> QED BY <3>8, <3>9, <3>12 DEF O
  <2>4. Nearest(p, IF Flaps(p, t) THEN FlipLowest(d) ELSE d, Extract(p, At(of)),
                ExponentsIn(windows, OffAfter(p, t)))
    <3>1. ReadsTheDevice(p, a) BY DEF Told
    <3>2. PICK e : e = d OBVIOUS
    <3> HIDE DEF d
    <3>3. of = (IF Holding(p, a.tick) = {} THEN a.tick
                ELSE windows[Max(Holding(p, a.tick))].start) /\ e = Decoded(p, a)
      BY <1>2, <2>1, <3>2 DEF d
    <3>4. Nearest(p, IF Flaps(p, a.tick) THEN FlipLowest(e) ELSE e, Extract(p, At(of)),
                   ExponentsIn(windows, OffAfter(p, a.tick)))
      BY <3>1, <3>3, ReadsIt
    <3> QED BY <1>2, <3>2, <3>4
  <2>5. ReadsTheDevice(p, a)' <=>
          Nearest(p, IF Flaps(p, t)' THEN FlipLowest(d) ELSE d, Extract(p, At(of)'),
                  ExponentsIn(windows', OffAfter(p, t)'))
    <3>1. of = IF Holding(p, t)' = {} THEN t ELSE windows'[Max(Holding(p, t)')].start
      BY <1>3, <2>1
    <3>2. ReadsTheDevice(p, a)' <=>
            Nearest(p, IF Flaps(p, a.tick)' THEN FlipLowest(Decoded(p, a)) ELSE Decoded(p, a),
              Extract(p, past'[(IF Holding(p, a.tick)' = {} THEN a.tick
                                ELSE windows'[Max(Holding(p, a.tick)')].start) + 1]),
              ExponentsIn(windows', OffAfter(p, a.tick)'))
      BY DEF ReadsTheDevice, ExponentsIn, OffAfter, Holding, At, MapThenSumSet, MapThenFoldSet
    <3>3. At(of)' = past'[of + 1] BY DEF At
    <3> QED BY <1>2, <3>1, <3>2, <3>3
  <2> HIDE DEF d
  <2> QED BY <1>3, <2>2, <2>3, <2>4, <2>5
<1>5. Inside(a)' = Inside(a) BY DEF Inside
<1> QED BY <1>1, <1>4, <1>5 DEF Told

(* Whatever a schedule of faults freezes, scales, flaps or cuts, whenever the  *)
(* plant publishes between a request, its answer and its write, and for every  *)
(* plant of up to twenty blocks: each point of what a client hears decodes to  *)
(* the nearest its encoding has to what its device read at the one tick the    *)
(* answer names, or at the tick the last freeze it is in began, scaled by the  *)
(* unit errors scheduled after that freeze.                                    *)
THEOREM PollsReadTheDevice == MapSpec => []PollReadsTheDevice
<1>1. ASSUME MapInit PROVE PollInv
  <2>1. PICK plant \in Plants : past = <<[plant |-> plant, count |-> FirstCount, tick |-> 0]>>
    BY <1>1 DEF MapInit
  <2>2. past \in Seq([plant : Plants, count : Nat, tick : Nat]) /\ past # << >>
    BY <2>1, MapAssumption
  <2>3. windows \in Seq(Windows) BY <1>1, MapAssumption DEF MapInit
  <2>4. MapTypeOK BY <1>1, <2>2, <2>3 DEF MapInit, MapTypeOK
  <2>5. FrozenSince(Tick)
    <3>1. Tick = 0 BY <2>1 DEF Tick
    <3>2. \A i \in DOMAIN windows : windows[i].start \in Nat
      <4>1. \A i \in DOMAIN windows : windows[i] \in Windows BY <2>3, LenProperties
      <4> QED BY <4>1 DEF Windows
    <3>3. \A i \in DOMAIN windows : windows[i].frozen = Forever
      BY <1>1, MapAssumption DEF MapInit
    <3>4. \A i \in DOMAIN windows : ~(windows[i].start < 0) BY <3>2
    <3> QED BY <3>1, <3>3, <3>4 DEF FrozenSince
  <2> QED BY <1>1, <2>4, <2>5, NothingTold DEF MapInit, PollInv
<1>2. ASSUME PollInv, [MapNext]_mapVars PROVE PollInv'
  <2> USE <1>2 DEF PollInv
  <2>1. CASE Publish
    <3>1. MapTypeOK' /\ FrozenSince(Tick)' BY <2>1, PublishKeeps, FreezesKept
    <3>2. \A a : Told(a) => Told(a)' BY <2>1, ToldForGood
    <3>3. heard' = heard /\ reply' = reply BY <2>1 DEF Publish
    <3>4. PICK r, h1, h2 : r = reply /\ h1 = heard[1] /\ h2 = heard[2] OBVIOUS
    <3>5. Told(r)' /\ Told(h1)' /\ Told(h2)' BY <3>2, <3>4
    <3>6. r = reply' /\ h1 = heard'[1] /\ h2 = heard'[2] BY <3>3, <3>4
    <3> QED BY <3>1, <3>5, <3>6 DEF Told
  <2>2. ASSUME UNCHANGED <<past, windows>>
        PROVE  FrozenSince(Tick)' /\ \A a : Told(a) => Told(a)'
    <3>1. FrozenSince(Tick)' BY <2>2 DEF FrozenSince, Tick
    <3>2. ASSUME NEW p, NEW a PROVE ReadsTheDevice(p, a)' <=> ReadsTheDevice(p, a)
      BY <2>2 DEF ReadsTheDevice, Lying, Flaps, At, MapThenSumSet, MapThenFoldSet
    <3>3. ASSUME NEW a, Told(a) PROVE Told(a)' BY <2>2, <3>2, <3>3 DEF Told, Tick
    <3> QED BY <3>1, <3>3
  <2>3. CASE Serve
    <3>1. UNCHANGED <<past, windows, request, heard>> /\ reply' = ReadBank(request)
      BY <2>3 DEF Serve
    <3>2. Told(ReadBank(request)) BY ServedPoint DEF MapTypeOK
    <3> QED BY <2>2, <3>1, <3>2 DEF MapTypeOK
  <2>4. CASE Connect BY <2>2, <2>4 DEF Connect, MapTypeOK
  <2>8. Told(Nothing) BY NothingTold
  <2>5. CASE Ask
    BY <2>2, <2>5, <2>8 DEF Ask, Close, MapTypeOK
  <2>6. CASE Send
    BY <2>2, <2>6, <2>8 DEF Send, Close, MapTypeOK
  <2>7. CASE UNCHANGED mapVars BY <2>2, <2>7 DEF mapVars, MapTypeOK
  <2> QED BY <2>1, <2>3, <2>4, <2>5, <2>6, <2>7 DEF MapNext
<1>3. PollInv => PollReadsTheDevice BY DEF PollInv, Told, PollReadsTheDevice
<1> QED BY <1>1, <1>2, <1>3, PTL DEF MapSpec
-------------------------------------------------------------------------------
(* The power path: a rack is what its fields hold, and within its window.       *)
RackStates == [inService : BOOLEAN, leaking : BOOLEAN, active : BOOLEAN, soc : SocMin..SocMax,
          dsoc : 0..Full, dv : Int, current : Int]
Limits == [charge : Nat, discharge : Nat]

PathInv == rack \in [Cells -> RackStates]

LEMMA PathNumbers ==
  /\ {Full, SocMin, SocMax, TaperBand, RackRated, Leak, Bleed, BalanceSoc} \subseteq Nat
  /\ {PcsRated, Threshold, NoLoadLoss} \subseteq Nat
  /\ SocMin <= SocMax /\ SocMax <= Full /\ TaperBand # 0 /\ RackRated <= TaperBand
  /\ SocMin + Bleed <= BalanceSoc
  BY PathAssumption

(* A limit that tapers never exceeds the room that is left.                    *)
LEMMA TaperFits ==
  ASSUME NEW room \in Nat
  PROVE  Taper(room) \in 0..room
<1> DEFINE c == Clamp(room, 0, TaperBand)
           k == RackRated * c
           q == k \div TaperBand
<1>1. c \in Nat /\ c <= room /\ TaperBand \in Nat \ {0} /\ RackRated \in Nat /\ RackRated <= TaperBand
  BY PathNumbers DEF Clamp, Larger, Smaller
<1> HIDE DEF c
<1>2. k \in Nat /\ k <= TaperBand * c
  <2>1. PICK d \in Nat : TaperBand = RackRated + d
    <3>1. TaperBand - RackRated \in Nat /\ TaperBand = RackRated + (TaperBand - RackRated) BY <1>1
    <3> QED BY <3>1
  <2>2. TaperBand * c = RackRated * c + d * c /\ d * c \in Nat /\ RackRated * c \in Nat BY <1>1, <2>1
  <2> QED BY <2>2
<1> HIDE DEF k
<1>3. q \in Nat /\ TaperBand * q <= k
  <2>1. q \in Nat /\ k % TaperBand \in Nat /\ k = TaperBand * q + (k % TaperBand)
    BY <1>1, <1>2, DivMod
  <2>2. TaperBand * q \in Int BY <1>1, <2>1
  <2> QED BY <2>1, <2>2
<1> HIDE DEF q
<1>4. q <= c
  <2> SUFFICES ASSUME q > c PROVE FALSE BY <1>1, <1>3
  <2>1. PICK d \in Nat : q = c + 1 + d
    <3>1. q - c - 1 \in Nat /\ q = c + 1 + (q - c - 1) BY <1>1, <1>3
    <3> QED BY <3>1
  <2>2. TaperBand * q = TaperBand * c + TaperBand + TaperBand * d /\ TaperBand * d \in Nat
        /\ TaperBand * c \in Nat
    BY <1>1, <2>1
  <2> QED BY <1>1, <1>2, <1>3, <2>2
<1> QED BY <1>1, <1>3, <1>4 DEF Taper, q, k, c

(* A tick of balancing keeps a rack in its window.                             *)
LEMMA BmsKeeps ==
  ASSUME NEW r \in RackStates, NEW growth \in Nat
  PROVE  StepBms(r, growth) \in RackStates
<1> DEFINE wide     == Smaller(r.dsoc + growth + (IF r.leaking THEN Leak ELSE 0), Full)
           active   == Active(r)
           narrowed == IF active THEN Smaller(Bleed, wide) ELSE 0
           soc      == Larger(r.soc - narrowed, 0)
           after    == StepBms(r, growth)
<1>1. r.soc \in SocMin..SocMax /\ r.dsoc \in 0..Full /\ r.active \in BOOLEAN
      /\ r.inService \in BOOLEAN /\ r.leaking \in BOOLEAN /\ r.current \in Int
  BY DEF RackStates
<1>2. active \in BOOLEAN BY <1>1 DEF Active, MayBleed
<1>3. active => r.soc >= BalanceSoc BY DEF Active, MayBleed
<1> HIDE DEF active
<1>4. wide \in 0..Full BY <1>1, PathNumbers DEF Smaller
<1> HIDE DEF wide
<1>5. narrowed \in 0..wide /\ narrowed <= Bleed /\ (~active => narrowed = 0)
  BY <1>2, <1>4, PathNumbers DEF Smaller
<1> HIDE DEF narrowed
<1>6. soc \in SocMin..SocMax
  BY <1>1, <1>2, <1>3, <1>4, <1>5, PathNumbers DEF Larger
<1> HIDE DEF soc
<1>7. wide - narrowed \in 0..Full BY <1>4, <1>5, PathNumbers
<1>8. CellDv(soc, wide - narrowed) \in Int
  <2>1. \A x \in Int : Clamp(x, 0, 2 * Full) \in 0..(2 * Full)
    <3>1. PICK top \in Int : top = 2 * Full /\ 0 <= top
      <4>1. 2 * Full \in Int /\ 0 <= 2 * Full BY PathNumbers
      <4> QED BY <4>1
    <3>2. \A x \in Int : Clamp(x, 0, top) \in 0..top BY <3>1 DEF Clamp, Larger, Smaller
    <3> QED BY <3>1, <3>2
  <2>2. Ocv \in [0..(2 * Full) -> Int] BY PathAssumption
  <2>3. 2 * soc + (wide - narrowed) \in Int /\ 2 * soc - (wide - narrowed) \in Int
    BY <1>6, <1>7, PathNumbers
  <2>4. Ocv[Clamp(2 * soc + (wide - narrowed), 0, 2 * Full)] \in Int
        /\ Ocv[Clamp(2 * soc - (wide - narrowed), 0, 2 * Full)] \in Int
    BY <2>1, <2>2, <2>3
  <2> QED BY <2>4 DEF CellDv
<1>9. after = [r EXCEPT !.dsoc = wide - narrowed, !.active = active, !.soc = soc,
                        !.dv = CellDv(soc, wide - narrowed)]
  BY DEF StepBms, wide, active, narrowed, soc
<1> HIDE DEF after
<1> QED BY <1>1, <1>2, <1>6, <1>7, <1>8, <1>9 DEF RackStates, after

LEMMA LimitsType ==
  ASSUME NEW r \in RackStates
  PROVE  /\ RackLimits(r) \in Limits
         /\ r.inService => /\ RackLimits(r).charge <= SocMax - r.soc
                           /\ RackLimits(r).discharge <= r.soc - SocMin
<1>1. SocMax - r.soc \in Nat /\ r.soc - SocMin \in Nat BY PathNumbers DEF RackStates
<1>2. /\ Taper(SocMax - r.soc) \in 0..(SocMax - r.soc)
      /\ Taper(r.soc - SocMin) \in 0..(r.soc - SocMin)
  BY <1>1, TaperFits
<1> QED BY <1>1, <1>2 DEF RackLimits, Limits

(* What the racks of a block allow together is a sum of what each allows.      *)
LEMMA BlockLimitsType ==
  ASSUME NEW limits \in [Cells -> Limits]
  PROVE  /\ MapThenSumSet(LAMBDA c : limits[c].charge, Cells) \in Nat
         /\ MapThenSumSet(LAMBDA c : limits[c].discharge, Cells) \in Nat
<1>0. IsFiniteSet(Cells) BY PathAssumption
<1>1. MapThenSumSet(LAMBDA c : limits[c].charge, Cells) \in Nat
  <2> DEFINE F == [c \in Cells |-> limits[c].charge]
             it == CHOOSE iter : iter = [s \in SUBSET Cells |->
                     IF s = {} THEN 0
                     ELSE limits[CHOOSE x \in s : TRUE].charge + iter[s \ {CHOOSE x \in s : TRUE}]]
  <2>1. F \in [Cells -> Nat] BY DEF Limits
  <2>2. \A s \in SUBSET Cells : s # {} => F[CHOOSE x \in s : TRUE] = limits[CHOOSE x \in s : TRUE].charge
    OBVIOUS
  <2> HIDE DEF F
  <2>3. PICK f : SumsTo(f, F, Cells) BY <1>0, <2>1, SumOfNaturals
  <2>4. f = [s \in SUBSET Cells |->
                     IF s = {} THEN 0
                     ELSE limits[CHOOSE x \in s : TRUE].charge + f[s \ {CHOOSE x \in s : TRUE}]]
    BY <2>2, <2>3 DEF SumsTo
  <2>5. it = [s \in SUBSET Cells |->
                     IF s = {} THEN 0
                     ELSE limits[CHOOSE x \in s : TRUE].charge + it[s \ {CHOOSE x \in s : TRUE}]]
    BY <2>4
  <2>6. MapThenSumSet(LAMBDA c : limits[c].charge, Cells) = it[Cells]
    BY DEF MapThenSumSet, MapThenFoldSet
  <2> HIDE DEF it
  <2>7. SumsTo(it, F, Cells) BY <2>2, <2>5 DEF SumsTo
  <2> QED BY <1>0, <2>1, <2>6, <2>7, SumOfNaturals
<1>2. MapThenSumSet(LAMBDA c : limits[c].discharge, Cells) \in Nat
  <2> DEFINE F == [c \in Cells |-> limits[c].discharge]
             it == CHOOSE iter : iter = [s \in SUBSET Cells |->
                     IF s = {} THEN 0
                     ELSE limits[CHOOSE x \in s : TRUE].discharge + iter[s \ {CHOOSE x \in s : TRUE}]]
  <2>1. F \in [Cells -> Nat] BY DEF Limits
  <2>2. \A s \in SUBSET Cells : s # {} => F[CHOOSE x \in s : TRUE] = limits[CHOOSE x \in s : TRUE].discharge
    OBVIOUS
  <2> HIDE DEF F
  <2>3. PICK f : SumsTo(f, F, Cells) BY <1>0, <2>1, SumOfNaturals
  <2>4. f = [s \in SUBSET Cells |->
                     IF s = {} THEN 0
                     ELSE limits[CHOOSE x \in s : TRUE].discharge + f[s \ {CHOOSE x \in s : TRUE}]]
    BY <2>2, <2>3 DEF SumsTo
  <2>5. it = [s \in SUBSET Cells |->
                     IF s = {} THEN 0
                     ELSE limits[CHOOSE x \in s : TRUE].discharge + it[s \ {CHOOSE x \in s : TRUE}]]
    BY <2>4
  <2>6. MapThenSumSet(LAMBDA c : limits[c].discharge, Cells) = it[Cells]
    BY DEF MapThenSumSet, MapThenFoldSet
  <2> HIDE DEF it
  <2>7. SumsTo(it, F, Cells) BY <2>2, <2>5 DEF SumsTo
  <2> QED BY <1>0, <2>1, <2>6, <2>7, SumOfNaturals
<1> QED BY <1>1, <1>2

(* The power of a block never runs against what the site asked of it, ...      *)
Along(x, target) == (target >= 0 => x >= 0) /\ (target <= 0 => x <= 0)

LEMMA RequestAlong ==
  ASSUME NEW target \in Int, NEW limits \in Limits
  PROVE  DcRequest(target, limits) \in Int /\ Along(DcRequest(target, limits), target)
<1> DEFINE ac == Clamp(target, -PcsRated, PcsRated)
           dc == ac + NoLoadLoss
<1>1. ac \in Int /\ Along(ac, target) BY PathNumbers DEF Clamp, Larger, Smaller, Along
<1>2. limits.charge \in Nat /\ limits.discharge \in Nat BY DEF Limits
<1>3. CASE ac < Threshold /\ -ac < Threshold
  BY <1>3 DEF DcRequest, Along
<1>4. CASE ~(ac < Threshold /\ -ac < Threshold) /\ ac > 0
  <2>1. DcRequest(target, limits) = Smaller(dc, limits.discharge) BY <1>4 DEF DcRequest
  <2>2. Smaller(dc, limits.discharge) \in Nat BY <1>1, <1>2, <1>4, PathNumbers DEF Smaller
  <2>3. ~(target <= 0) BY <1>1, <1>4 DEF Along
  <2> QED BY <2>1, <2>2, <2>3 DEF Along
<1>5. CASE ~(ac < Threshold /\ -ac < Threshold) /\ ~(ac > 0)
  <2>1. DcRequest(target, limits) = Larger(Smaller(dc, 0), -limits.charge) BY <1>5 DEF DcRequest
  <2>2. dc \in Int BY <1>1, PathNumbers
  <2>3. Larger(Smaller(dc, 0), -limits.charge) \in Int /\ Larger(Smaller(dc, 0), -limits.charge) <= 0
    BY <1>2, <2>2 DEF Larger, Smaller
  <2>4. target >= 0 => Larger(Smaller(dc, 0), -limits.charge) = 0
    BY <1>1, <1>2, <1>5, PathNumbers DEF Larger, Smaller, Along
  <2> QED BY <2>1, <2>3, <2>4 DEF Along
<1> QED BY <1>3, <1>4, <1>5

LEMMA SplitAlong ==
  ASSUME NEW power \in Int, NEW n \in Nat
  PROVE  PerRack(power, n) \in Int /\ Along(PerRack(power, n), power)
<1>1. CASE n = 0 BY <1>1 DEF PerRack, Along
<1>2. CASE n # 0 /\ power >= 0
  <2>1. power \div n \in Nat BY <1>2, DivMod
  <2>2. power = 0 => power \div n = 0
    <3> SUFFICES ASSUME power = 0 PROVE power \div n = 0 OBVIOUS
    <3>1. n * 0 + 0 = 0 /\ 0 \in 0..(n - 1) BY <1>2
    <3>2. (n * 0 + 0) \div n = 0 BY <1>2, <3>1, DivModOf
    <3> QED BY <3>1, <3>2
  <2> QED BY <1>2, <2>1, <2>2 DEF PerRack, Along
<1>3. CASE n # 0 /\ ~(power >= 0)
  <2>1. -power \in Nat BY <1>3
  <2>2. (-power) \div n \in Nat BY <1>3, <2>1, DivMod
  <2> QED BY <1>3, <2>2 DEF PerRack, Along
<1> QED BY <1>1, <1>2, <1>3

(* ... nor does the current of a rack, which takes it no further than its      *)
(* window goes.                                                                *)
LEMMA RackFollows ==
  ASSUME NEW r \in RackStates, NEW each \in Int, NEW target \in Int, Along(each, target)
  PROVE  LET after == StepRack(r, Clamp(each, -RackLimits(r).charge, RackLimits(r).discharge))
         IN after \in RackStates /\ Along(after.current, target)
<1> DEFINE lo == -RackLimits(r).charge
           hi == RackLimits(r).discharge
           ask == Clamp(each, lo, hi)
           held == Clamp(ask, -RackRated, RackRated)
           i == IF ~r.inService THEN 0 ELSE Clamp(held, r.soc - Full, r.soc)
           soc == Clamp(r.soc - i, 0, Full)
           after == StepRack(r, ask)
<1>1. /\ lo \in Int /\ hi \in Int /\ lo <= 0 /\ 0 <= hi
      /\ r.inService => -lo <= SocMax - r.soc /\ hi <= r.soc - SocMin
  BY LimitsType DEF Limits
<1>2. r.soc \in SocMin..SocMax /\ r.inService \in BOOLEAN BY DEF RackStates
<1> HIDE DEF lo, hi
<1>3. ask \in Int /\ lo <= ask /\ ask <= hi /\ Along(ask, target)
  BY <1>1 DEF Clamp, Larger, Smaller, Along
<1> HIDE DEF ask
<1>4. held \in Int /\ lo <= held /\ held <= hi /\ Along(held, target)
  BY <1>1, <1>3, PathNumbers DEF Clamp, Larger, Smaller, Along
<1> HIDE DEF held
<1>5. i \in Int /\ Along(i, target) /\ (r.inService => lo <= i /\ i <= hi)
  BY <1>1, <1>2, <1>4, PathNumbers DEF Clamp, Larger, Smaller, Along
<1>6. ~r.inService => i = 0 OBVIOUS
<1>7. after = [r EXCEPT !.current = i, !.soc = soc] BY DEF StepRack, i, held
<1> HIDE DEF i
<1>8. soc \in SocMin..SocMax
  BY <1>1, <1>2, <1>5, <1>6, PathNumbers DEF Clamp, Larger, Smaller
<1> HIDE DEF soc, after
<1>9. after \in RackStates /\ after.current = i BY <1>5, <1>7, <1>8 DEF RackStates
<1> QED BY <1>5, <1>9 DEF after, ask, lo, hi

LEMMA PathStarts == PathInit => PathInv
<1> SUFFICES ASSUME NEW soc \in SocMin..SocMax,
                    rack = [c \in Cells |-> [inService |-> TRUE, leaking |-> FALSE, soc |-> soc,
                              dsoc |-> 1, dv |-> 0, active |-> FALSE, current |-> 0]]
             PROVE  PathInv
  BY DEF PathInit
<1>1. 1 \in 0..Full BY PathAssumption
<1> QED BY <1>1 DEF PathInv, RackStates

(* One tick of the block: every rack stays what a rack is, and goes along.     *)
LEMMA BlockFollows ==
  ASSUME PathInv, NEW target \in Shares, StepBlock(target)
  PROVE  PathInv' /\ share' = target /\ \A c \in Cells : Along(rack'[c].current, target)
<1>1. PICK growth \in [Cells -> Growth] :
        LET bms     == [c \in Cells |-> StepBms(rack[c], growth[c])]
            limits  == [c \in Cells |-> RackLimits(bms[c])]
            block   == [charge    |-> MapThenSumSet(LAMBDA c : limits[c].charge, Cells),
                        discharge |-> MapThenSumSet(LAMBDA c : limits[c].discharge, Cells)]
            running == Cardinality({c \in Cells : bms[c].inService})
            each    == PerRack(DcRequest(target, block), running)
        IN /\ rack' = [c \in Cells |->
                        StepRack(bms[c], Clamp(each, -limits[c].charge, limits[c].discharge))]
           /\ share' = target
  BY DEF StepBlock
<1> DEFINE bms     == [c \in Cells |-> StepBms(rack[c], growth[c])]
           limits  == [c \in Cells |-> RackLimits(bms[c])]
           block   == [charge    |-> MapThenSumSet(LAMBDA c : limits[c].charge, Cells),
                       discharge |-> MapThenSumSet(LAMBDA c : limits[c].discharge, Cells)]
           running == Cardinality({c \in Cells : bms[c].inService})
           each    == PerRack(DcRequest(target, block), running)
<1>2. /\ rack' = [c \in Cells |->
                   StepRack(bms[c], Clamp(each, -limits[c].charge, limits[c].discharge))]
      /\ share' = target
  BY <1>1
<1>3. bms \in [Cells -> RackStates]
  <2>1. ASSUME NEW c \in Cells PROVE StepBms(rack[c], growth[c]) \in RackStates
    <3>1. rack[c] \in RackStates /\ growth[c] \in Nat BY PathAssumption DEF PathInv
    <3> QED BY <3>1, BmsKeeps
  <2> QED BY <2>1
<1> HIDE DEF bms
<1>4. limits \in [Cells -> Limits] /\ \A c \in Cells : limits[c] = RackLimits(bms[c])
  BY <1>3, LimitsType
<1> HIDE DEF limits
<1>5. block \in Limits BY <1>4, BlockLimitsType DEF Limits
<1> HIDE DEF block
<1>6. running \in Nat
  <2>1. IsFiniteSet({c \in Cells : bms[c].inService}) BY PathAssumption, FS_Subset
  <2> QED BY <2>1, FS_CardinalityType
<1> HIDE DEF running
<1>7. target \in Int BY PathAssumption
<1>8. each \in Int /\ Along(each, target)
  <2>1. DcRequest(target, block) \in Int /\ Along(DcRequest(target, block), target)
    BY <1>5, <1>7, RequestAlong
  <2>2. each \in Int /\ Along(each, DcRequest(target, block)) BY <1>6, <2>1, SplitAlong
  <2> HIDE DEF each
  <2> QED BY <1>7, <2>1, <2>2 DEF Along
<1> HIDE DEF each
<1>9. ASSUME NEW c \in Cells PROVE rack'[c] \in RackStates /\ Along(rack'[c].current, target)
  <2>1. rack'[c] = StepRack(bms[c], Clamp(each, -RackLimits(bms[c]).charge, RackLimits(bms[c]).discharge))
    BY <1>2, <1>4
  <2>2. bms[c] \in RackStates BY <1>3
  <2> QED BY <1>7, <1>8, <2>1, <2>2, RackFollows
<1>10. rack' = [c \in Cells |-> rack'[c]] BY <1>2
<1> QED BY <1>2, <1>9, <1>10 DEF PathInv

(* A rack leaves its window neither by use nor by balancing, whatever the      *)
(* number of racks and the limits they meet.                                   *)
LEMMA PathKeeps == PathInv /\ [PathNext]_pathVars => PathInv' /\ NeverOpposite
<1> SUFFICES ASSUME PathInv, [PathNext]_pathVars PROVE PathInv' /\ NeverOpposite
  OBVIOUS
<1>1. ASSUME NEW t \in Shares, StepBlock(t) PROVE PathInv' /\ NeverOpposite
  BY <1>1, BlockFollows DEF NeverOpposite, Along
<1>2. ASSUME NEW c \in Cells, NEW on \in BOOLEAN, SetInService(c, on) \/ SelfDischarge(c, on)
      PROVE  PathInv' /\ NeverOpposite
  <2>1. CASE SetInService(c, on)
    <3>1. rack' = [rack EXCEPT ![c] = [rack[c] EXCEPT !.inService = on]] BY <2>1 DEF SetInService
    <3>2. [rack[c] EXCEPT !.inService = on] \in RackStates BY DEF PathInv, RackStates
    <3>3. \A d \in Cells : rack'[d].soc = rack[d].soc BY <3>1 DEF PathInv, RackStates
    <3> QED BY <3>1, <3>2, <3>3 DEF PathInv, NeverOpposite
  <2>2. CASE SelfDischarge(c, on)
    <3>1. rack' = [rack EXCEPT ![c] = [rack[c] EXCEPT !.leaking = on]] BY <2>2 DEF SelfDischarge
    <3>2. [rack[c] EXCEPT !.leaking = on] \in RackStates BY DEF PathInv, RackStates
    <3>3. \A d \in Cells : rack'[d].soc = rack[d].soc BY <3>1 DEF PathInv, RackStates
    <3> QED BY <3>1, <3>2, <3>3 DEF PathInv, NeverOpposite
  <2> QED BY <1>2, <2>1, <2>2
<1>3. CASE UNCHANGED pathVars BY <1>3 DEF pathVars, PathInv, NeverOpposite
<1> QED BY <1>1, <1>2, <1>3 DEF PathNext

THEOREM RacksFollowTheirBlock == PathSpec => RacksFollow
<1>1. PathInv /\ [PathNext]_pathVars => (WindowKept' /\ NeverOpposite)
  <2>1. PathInv' => WindowKept' BY DEF PathInv, WindowKept, RackStates
  <2> QED BY <2>1, PathKeeps
<1>2. PathInv /\ [PathNext]_pathVars => PathInv' BY PathKeeps
<1> QED BY <1>1, <1>2, PathStarts, PTL DEF PathSpec, RacksFollow
=================================================================================
