----------------------------- MODULE ScenarioProofs -----------------------------
(* Theorems about scenario files and their runs, for every set of events an    *)
(* author may list, every seed and every cut.                                  *)
EXTENDS ScenarioProperties, SequenceFacts, SequenceTheorems, FiniteSetTheorems

-------------------------------------------------------------------------------
(* A set of naturals has a least member.                                       *)
LEMMA LeastOf ==
  ASSUME NEW T, T \subseteq Nat, T # {}
  PROVE  \E m \in T : \A y \in T : m <= y
<1> DEFINE R == {ss \in Nat \X Nat : ss[1] < ss[2]}
<1>1. PICK x \in T : \A y \in T : ~ (<<y, x>> \in R)
  <2> HIDE DEF R
  <2>1. IsWellFoundedOn(R, Nat) BY LessIsWellFounded DEF R
  <2> QED BY <2>1, WFMin
<1>2. ASSUME NEW y \in T PROVE x <= y
  <2>1. x \in Nat /\ y \in Nat /\ ~(y < x) BY <1>1
  <2> QED BY <2>1
<1> QED BY <1>2

(* The first refusal of a list: none, or one of its refusals with no other     *)
(* before it.                                                                  *)
LEMMA FirstIsFirst ==
  ASSUME NEW whys, NEW n \in Nat, DOMAIN whys \subseteq 0..n
  PROVE  LET first == FirstOf(whys)
         IN \/ first = [index |-> 0, why |-> Ok] /\ \A i \in DOMAIN whys : whys[i] = Ok
            \/ /\ first.index \in DOMAIN whys /\ first.why = whys[first.index]
               /\ first = [index |-> first.index, why |-> first.why]
               /\ first.why # Ok
               /\ \A i \in DOMAIN whys : whys[i] # Ok => first.index <= i
<1> DEFINE bad == {i \in DOMAIN whys : whys[i] # Ok}
           least == CHOOSE i \in bad : \A j \in bad : i <= j
<1>1. FirstOf(whys) = IF bad = {} THEN [index |-> 0, why |-> Ok]
                      ELSE [index |-> least, why |-> whys[least]]
  BY DEF FirstOf
<1>2. CASE bad = {} BY <1>1, <1>2
<1>3. CASE bad # {}
  <2>1. bad \subseteq Nat OBVIOUS
  <2>2. \E m \in bad : \A y \in bad : m <= y
    <3> HIDE DEF bad
    <3> QED BY <1>3, <2>1, LeastOf
  <2>3. least \in bad /\ \A y \in bad : least <= y BY <2>2
  <2> HIDE DEF least
  <2> QED BY <1>1, <1>3, <2>3
<1> QED BY <1>2, <1>3

(* A longer list with the same beginning has the same first refusal.           *)
LEMMA FirstStands ==
  ASSUME NEW whys, NEW more, NEW n \in Nat, NEW m \in Nat, n <= m,
         DOMAIN whys = 0..n, DOMAIN more = 0..m,
         \A i \in 0..n : more[i] = whys[i],
         FirstOf(whys).why # Ok
  PROVE  FirstOf(more) = FirstOf(whys)
<1>1. PICK a : a = FirstOf(whys) OBVIOUS
<1>2. PICK b : b = FirstOf(more) OBVIOUS
<1>3. /\ a.index \in 0..n /\ a.why = whys[a.index] /\ a.why # Ok
      /\ a = [index |-> a.index, why |-> a.why]
      /\ \A i \in 0..n : whys[i] # Ok => a.index <= i
  BY <1>1, FirstIsFirst
<1>4. a.index \in 0..m /\ more[a.index] # Ok BY <1>3
<1>5. /\ b.index \in 0..m /\ b.why = more[b.index] /\ b.why # Ok
      /\ b = [index |-> b.index, why |-> b.why]
      /\ \A i \in 0..m : more[i] # Ok => b.index <= i
  BY <1>2, <1>4, FirstIsFirst
<1>6. b.index <= a.index BY <1>4, <1>5
<1>7. b.index \in 0..n BY <1>3, <1>5, <1>6
<1>8. a.index <= b.index BY <1>3, <1>5, <1>7
<1>9. a.index = b.index BY <1>3, <1>5, <1>6, <1>8
<1> QED BY <1>1, <1>2, <1>3, <1>5, <1>9

Files == [schema : {1}, name : {<<"a">>}, start : {NoText}, speed : {0},
          length : {h.length : h \in Headers}, seed : {h.seed : h \in Headers},
          events : Seq(Specs)]

(* What a rule says of an event depends on it and on those listed before.      *)
LEMMA RulesLookBack ==
  ASSUME NEW f \in Files, NEW spec \in Specs, NEW i \in 1..Len(f.events),
         NEW g, g = [f EXCEPT !.events = Append(@, spec)]
  PROVE  ListedWhy(g, Times(g.events), i) = ListedWhy(f, Times(f.events), i)
<1> DEFINE n == Len(f.events)
           at == Times(f.events)
           bt == Times(g.events)
<1>1. n \in Nat /\ DOMAIN f.events = 1..n BY DEF Files
<1>2. /\ g.events = Append(f.events, spec) /\ g.length = f.length
      /\ DOMAIN g.events = 1..(n + 1) /\ \A j \in 1..n : g.events[j] = f.events[j]
  BY AppendProperties, LenProperties DEF Files
<1>3. \A j \in 1..n : bt[j] = at[j]
  BY <1>1, <1>2 DEF Times
<1> HIDE DEF at, bt
<1>4. EventWhy(g.events[i]) = EventWhy(f.events[i]) BY <1>2
<1>5. PastLength(g, bt[i]) = PastLength(f, at[i]) BY <1>2, <1>3 DEF PastLength
<1>6. OrderWhy(g.events, bt, i) = OrderWhy(f.events, at, i)
  <2> DEFINE same == {j \in 1..(i - 1) : /\ f.events[i].target # NoPath
                                        /\ f.events[j].target = f.events[i].target}
             last == CHOOSE j \in same : \A k \in same : k <= j
  <2>1. same = {j \in 1..(i - 1) : /\ g.events[i].target # NoPath
                                    /\ g.events[j].target = g.events[i].target}
    <3>1. \A j \in 1..(i - 1) : j \in 1..n BY <1>1
    <3> QED BY <1>2, <3>1
  <2>2. OrderWhy(f.events, at, i)
          = (Must(same = {} \/ at[i] # at[last], "at", "SharedTick")
             ## Must(same = {} \/ at[i] > at[last], "at", "OutOfOrder"))
    BY DEF OrderWhy
  <2>3. OrderWhy(g.events, bt, i)
          = (Must(same = {} \/ bt[i] # bt[last], "at", "SharedTick")
             ## Must(same = {} \/ bt[i] > bt[last], "at", "OutOfOrder"))
    BY <2>1, Zenon DEF OrderWhy
  <2>4. same # {} => last \in same
    <3> SUFFICES ASSUME same # {} PROVE \E j \in same : \A k \in same : k <= j
      OBVIOUS
    <3>1. same \subseteq 1..n BY <1>1
    <3> HIDE DEF same
    <3>2. \A k \in same : k \in Int BY <3>1
    <3> QED BY <1>1, <3>1, <3>2, MaxOfIndices
  <2>5. same \subseteq 1..n BY <1>1
  <2> HIDE DEF same, last
  <2>6. bt[i] = at[i] /\ (same # {} => bt[last] = at[last]) BY <1>3, <2>4, <2>5
  <2> QED BY <2>2, <2>3, <2>6
<1> QED BY <1>4, <1>5, <1>6 DEF ListedWhy, at, bt

(* An event more leaves a refusal of the rules as it was.                      *)
LEMMA WriteStands ==
  ASSUME file \in Files, NEW spec \in Specs, Write(spec),
         Validate(file).why \notin {Ok, Refusal("at", "BackfillWithoutDropout")}
  PROVE  Validate(file') = Validate(file)
<1> DEFINE n == Len(file.events)
           whys == FieldWhys(file, Times(file.events))
           more == FieldWhys(file', Times(file'.events))
           bursts == [i \in DOMAIN file.events |-> BurstWhy(file.events, Times(file.events), i)]
<1>1. n \in Nat /\ DOMAIN file.events = 1..n BY DEF Files
<1>2. file' = [file EXCEPT !.events = Append(@, spec)] BY DEF Write
<1>3. Len(file'.events) = n + 1
  <2>1. file'.events = Append(file.events, spec) BY <1>2 DEF Files
  <2> QED BY <2>1, AppendProperties DEF Files
<1>4. DOMAIN whys = 0..n /\ DOMAIN more = 0..(n + 1)
  BY <1>3 DEF FieldWhys
<1>5. \A i \in 0..n : more[i] = whys[i]
  <2>1. HeaderWhy(file') = HeaderWhy(file)
    <3>1. /\ file'.schema = file.schema /\ file'.name = file.name /\ file'.start = file.start
          /\ file'.speed = file.speed /\ file'.length = file.length
      BY <1>2 DEF Files
    <3> QED BY <3>1 DEF HeaderWhy
  <2>2. ASSUME NEW i \in 1..n
        PROVE  ListedWhy(file', Times(file'.events), i) = ListedWhy(file, Times(file.events), i)
    BY <1>2, RulesLookBack
  <2> QED BY <1>1, <1>3, <2>1, <2>2 DEF FieldWhys
<1>6. /\ Validate(file) = IF FirstOf(whys).why # Ok THEN FirstOf(whys) ELSE FirstOf(bursts)
      /\ FirstOf(more).why # Ok => Validate(file') = FirstOf(more)
  BY Zenon DEF Validate
<1>7. FirstOf(bursts).why \in {Ok, Refusal("at", "BackfillWithoutDropout")}
  <2>1. \A i \in DOMAIN bursts : bursts[i] \in {Ok, Refusal("at", "BackfillWithoutDropout")}
    BY DEF BurstWhy, Must
  <2>2. DOMAIN bursts \subseteq 0..n BY <1>1
  <2> HIDE DEF bursts
  <2>3. PICK b : b = FirstOf(bursts) OBVIOUS
  <2>4. b.why = Ok \/ \E i \in DOMAIN bursts : b.why = bursts[i]
    <3>1. \/ b = [index |-> 0, why |-> Ok]
          \/ b.index \in DOMAIN bursts /\ b.why = bursts[b.index]
      BY <1>1, <2>2, <2>3, FirstIsFirst, Zenon
    <3>2. [index |-> 0, why |-> Ok].why = Ok OBVIOUS
    <3> QED BY <3>1, <3>2, Zenon
  <2> QED BY <2>1, <2>3, <2>4
<1> HIDE DEF whys, more, bursts
<1>8. FirstOf(whys).why # Ok BY <1>6, <1>7
<1>9. FirstOf(more) = FirstOf(whys)
  <2>1. n + 1 \in Nat /\ n <= n + 1 BY <1>1
  <2> HIDE DEF n
  <2> QED BY <1>1, <1>4, <1>5, <1>8, <2>1, FirstStands
<1> QED BY <1>6, <1>8, <1>9

(* A file stays one, and only its author changes it.                           *)
LEMMA FileStays ==
  ASSUME file \in Files, [Next]_runVars
  PROVE  file' \in Files /\ (file' = file \/ \E spec \in Specs : Write(spec))
<1>1. ASSUME NEW spec \in Specs, Write(spec) PROVE file' \in Files
  <2>1. Append(file.events, spec) \in Seq(Specs) BY AppendProperties DEF Files
  <2> QED BY <1>1, <2>1 DEF Write, Files
<1>2. CASE file' # file
  <2>1. \E spec \in Specs : Write(spec)
    BY <1>2 DEF Next, Start, StartPlain, Tick, Save, Resume, runVars
  <2> QED BY <1>1, <2>1
<1>3. (\E spec \in Specs : Write(spec)) => file' \in Files BY <1>1
<1> QED BY <1>2, <1>3

(* The author begins with a file.                                              *)
LEMMA FirstFile == Init => file \in Files
<1> DEFINE Lengths == {h.length : h \in Headers}
           Stated == {h.seed : h \in Headers}
<1>1. Init => file \in [schema : {1}, name : {<<"a">>}, start : {NoText}, speed : {0},
                       length : Lengths, seed : Stated, events : {<< >>}]
  BY DEF Init
<1>2. Files = [schema : {1}, name : {<<"a">>}, start : {NoText}, speed : {0},
               length : Lengths, seed : Stated, events : Seq(Specs)]
  BY DEF Files
<1>3. << >> \in Seq(Specs) OBVIOUS
<1> HIDE DEF Lengths, Stated
<1> QED BY <1>1, <1>2, <1>3

(* What the rules refuse stays refused for the same reason, whatever an author *)
(* lists behind it.                                                            *)
THEOREM RefusalsStand == Spec => RefusalStands
<1>1. Init => file \in Files BY FirstFile
<1>2. file \in Files /\ [Next]_runVars => (file \in Files)' BY FileStays
<1>3. file \in Files /\ [Next]_runVars =>
        [Validate(file).why \notin {Ok, Refusal("at", "BackfillWithoutDropout")}
           => Validate(file') = Validate(file)]_file
  BY FileStays, WriteStands
<1> QED BY <1>1, <1>2, <1>3, PTL DEF Spec, RefusalStands

-------------------------------------------------------------------------------
(* What is read of a duration so far. However it is spelled, it stays a        *)
(* natural of at most MaxSeconds: the ticks of a schedule can be compared.     *)
Units == {"W", "D", "H", "M", "S"}

Reading == [why : {"ok", "Malformed", "Overflow"}, total : 0..MaxSeconds,
            digits : Nat \cup {NoDigits}, units : Seq(Units)]

(* A character more leaves a reading, ...                                      *)
LEMMA ReadCharStays ==
  ASSUME NEW acc \in Reading, NEW c
  PROVE  ReadChar(acc, c) \in Reading
<1>1. CASE acc.why # "ok" BY <1>1 DEF ReadChar
<1>2. CASE acc.why = "ok" /\ c \in Range(Digits)
  <2>1. DigitOf(c) \in 0..9
    <3>1. DOMAIN Digits = 1..10 BY DEF Digits
    <3>2. PICK i \in DOMAIN Digits : Digits[i] = c BY <1>2 DEF Range
    <3>3. PICK k : k = CHOOSE j \in DOMAIN Digits : Digits[j] = c OBVIOUS
    <3>4. k \in DOMAIN Digits BY <3>2, <3>3, Zenon
    <3> QED BY <3>1, <3>3, <3>4 DEF DigitOf
  <2>2. ReadChar(acc, c)
          = [acc EXCEPT !.digits = IF @ = NoDigits THEN DigitOf(c) ELSE 10 * @ + DigitOf(c)]
    BY <1>2 DEF ReadChar
  <2>3. (IF acc.digits = NoDigits THEN DigitOf(c) ELSE 10 * acc.digits + DigitOf(c)) \in Nat
    BY <2>1 DEF Reading
  <2> QED BY <2>2, <2>3 DEF Reading
<1>3. CASE /\ acc.why = "ok" /\ c \notin Range(Digits)
           /\ c \notin Range(acc.units) \/ acc.digits = NoDigits
  BY <1>3 DEF ReadChar, Reading
<1>4. CASE /\ acc.why = "ok" /\ c \notin Range(Digits)
           /\ c \in Range(acc.units) /\ acc.digits # NoDigits
  <2> DEFINE pos == CHOOSE i \in DOMAIN acc.units : acc.units[i] = c
             total == acc.total + acc.digits * Scale[c]
  <2>1. pos \in DOMAIN acc.units
    <3>1. \E i \in DOMAIN acc.units : acc.units[i] = c BY <1>4, Zenon DEF Range
    <3> QED BY <3>1, Zenon
  <2>2. /\ acc.units \in Seq(Units) /\ acc.total \in 0..MaxSeconds /\ acc.digits \in Nat
        /\ acc.why \in {"ok", "Malformed", "Overflow"}
    BY <1>4 DEF Reading
  <2>3. pos \in 1..Len(acc.units) /\ Len(acc.units) \in Nat BY <2>1, <2>2
  <2>4. c \in Units
    <3>1. PICK i \in DOMAIN acc.units : acc.units[i] = c BY <1>4, Zenon DEF Range
    <3> QED BY <2>2, <3>1
  <2>5. Scale[c] \in Nat
    <3>1. \A u \in Units : Scale[u] \in Nat BY DEF Units, Scale
    <3> QED BY <2>4, <3>1, Zenon
  <2>6. total \in Nat
    <3>1. MaxSeconds \in Nat BY TextAssumption
    <3>2. PICK x \in Nat : x = Scale[c] BY <2>5
    <3>3. acc.digits * x \in Nat BY <2>2
    <3> QED BY <2>2, <3>1, <3>2, <3>3
  <2>7. SubSeq(acc.units, pos + 1, Len(acc.units)) \in Seq(Units)
    <3> HIDE DEF pos
    <3>1. \A i \in (pos + 1)..Len(acc.units) : acc.units[i] \in Units BY <2>2, <2>3
    <3>2. pos + 1 \in 1..(Len(acc.units) + 1) BY <2>3
    <3> QED BY <2>2, <2>3, <3>2, SubSeqProperties
  <2>8. ReadChar(acc, c)
          = IF total > MaxSeconds THEN [acc EXCEPT !.why = "Overflow"]
            ELSE [acc EXCEPT !.total = total, !.digits = NoDigits,
                             !.units = SubSeq(acc.units, pos + 1, Len(acc.units))]
    BY <1>4 DEF ReadChar
  <2>9. MaxSeconds \in Nat BY TextAssumption
  <2> HIDE DEF total, pos
  <2>10. CASE total > MaxSeconds BY <2>8, <2>10 DEF Reading
  <2>11. CASE ~(total > MaxSeconds)
    <3>1. total \in 0..MaxSeconds BY <2>6, <2>9, <2>11
    <3> QED BY <2>7, <2>8, <2>11, <3>1 DEF Reading
  <2> QED BY <2>10, <2>11
<1> QED BY <1>1, <1>2, <1>3, <1>4

(* The indices up to the next one.                                             *)
LEMMA UpToNext ==
  ASSUME NEW n \in Nat, NEW k \in 0..(n - 1)
  PROVE  /\ 1..(k + 1) \in SUBSET (1..n) /\ 1..(k + 1) # {}
         /\ Max(1..(k + 1)) = k + 1
         /\ (1..(k + 1)) \ {k + 1} = 1..k
<1>1. k + 1 \in Nat /\ 1..(k + 1) # {} /\ k + 1 \in 1..(k + 1) OBVIOUS
<1>2. PICK m : m = Max(1..(k + 1)) OBVIOUS
<1>3. m \in 1..(k + 1) /\ \A y \in 1..(k + 1) : m >= y
  <2>1. PICK T : T = 1..(k + 1) OBVIOUS
  <2>2. T \subseteq 1..(k + 1) /\ T # {} BY <1>1, <2>1
  <2>3. PICK j \in Nat : j = k + 1 BY <1>1
  <2>4. Max(T) \in T /\ \A y \in T : Max(T) >= y
    BY <2>1, <2>2, <2>3, MaxOfIndices
  <2> QED BY <1>2, <2>1, <2>4
<1>4. m = k + 1 BY <1>1, <1>3
<1> QED BY <1>1, <1>2, <1>4

(* A part is read character by character.                                      *)
RunsOver(run, acc, part, n, units) ==
  /\ run[0] = [acc EXCEPT !.units = units]
  /\ \A k \in 1..n : run[k] = ReadChar(run[k - 1], part[k])
  /\ ReadPart(acc, part, units) = EndOfPart(run[n])

LEMMA PartRuns ==
  ASSUME NEW acc \in Reading, NEW part, NEW n \in Nat, DOMAIN part = 1..n,
         NEW units \in Seq(Units)
  PROVE  \E run \in [0..n -> Reading] : RunsOver(run, acc, part, n, units)
<1> DEFINE base == [acc EXCEPT !.units = units]
           Loop(f) == [s \in SUBSET (1..n) |->
                         IF s = {} THEN base ELSE ReadChar(f[s \ {Max(s)}], part[Max(s)])]
           it == CHOOSE f : f = Loop(f)
           G == [p \in Reading \X (1..n) |-> ReadChar(p[1], part[p[2]])]
<1>1. base \in Reading BY DEF Reading
<1>2. FoldLeft(ReadChar, base, part) = it[1..n]
  BY DEF FoldLeft, MapThenFoldSet
<1> HIDE DEF base
<1>3. ASSUME NEW s \in SUBSET (1..n), s # {}
      PROVE  Max(s) \in 1..n /\ s \ {Max(s)} \in SUBSET (1..n)
  BY <1>3, MaxOfIndices
<1>4. \E f \in [SUBSET (1..n) -> Reading] : f = Loop(f)
  <2>1. G \in [Reading \X (1..n) -> Reading] BY ReadCharStays
  <2> HIDE DEF G, Reading
  <2>2. PICK f : FoldsTo(f, Reading, base, G, n) BY <1>1, <2>1, FoldExists, Zenon
  <2>3. /\ f \in [SUBSET (1..n) -> Reading]
        /\ \A s \in SUBSET (1..n) :
             f[s] = IF s = {} THEN base ELSE G[<<f[s \ {Max(s)}], Max(s)>>]
    BY <2>2 DEF FoldsTo
  <2>4. ASSUME NEW s \in SUBSET (1..n), s # {}
        PROVE  f[s] = ReadChar(f[s \ {Max(s)}], part[Max(s)])
    <3>1. PICK x \in Reading : x = f[s \ {Max(s)}] BY <1>3, <2>3, <2>4
    <3>2. PICK k \in 1..n : k = Max(s) BY <1>3, <2>4
    <3>3. f[s] = G[<<x, k>>] BY <2>3, <2>4, <3>1, <3>2
    <3>4. G[<<x, k>>] = ReadChar(x, part[k])
      <4>1. <<x, k>> \in Reading \X (1..n) OBVIOUS
      <4> QED BY <4>1 DEF G
    <3> QED BY <3>1, <3>2, <3>3, <3>4
  <2>5. \A s \in SUBSET (1..n) :
          f[s] = IF s = {} THEN base ELSE ReadChar(f[s \ {Max(s)}], part[Max(s)])
    BY <2>3, <2>4
  <2>6. f = [s \in SUBSET (1..n) |-> f[s]] BY <2>3
  <2>7. f = Loop(f) BY <2>5, <2>6
  <2> QED BY <2>3, <2>7
<1>5. it = Loop(it) BY <1>4
<1> HIDE DEF it
<1> DEFINE run == [k \in 0..n |-> it[1..k]]
<1>6. run[0] = base
  <2>1. {} \in SUBSET (1..n) /\ 1..0 = {} /\ 0 \in 0..n OBVIOUS
  <2>2. it[{}] = base BY <1>5, <2>1
  <2> QED BY <2>1, <2>2
<1>7. \A k \in 1..n : run[k] = ReadChar(run[k - 1], part[k])
  <2> TAKE k \in 1..n
  <2>1. PICK j \in 0..(n - 1) : j + 1 = k /\ k - 1 = j
    <3>1. k - 1 \in 0..(n - 1) /\ (k - 1) + 1 = k OBVIOUS
    <3> QED BY <3>1
  <2>2. /\ 1..k \in SUBSET (1..n) /\ 1..k # {} /\ Max(1..k) = k /\ (1..k) \ {k} = 1..j
    BY <2>1, UpToNext
  <2>3. it[1..k] = ReadChar(it[(1..k) \ {Max(1..k)}], part[Max(1..k)])
    <3>1. PICK s : s = 1..k OBVIOUS
    <3>2. s \in SUBSET (1..n) /\ s # {} BY <2>2, <3>1
    <3>3. it[s] = ReadChar(it[s \ {Max(s)}], part[Max(s)]) BY <1>5, <3>2
    <3> QED BY <3>1, <3>3
  <2>4. it[1..k] = ReadChar(it[1..j], part[k]) BY <2>2, <2>3
  <2>5. k \in 0..n /\ j \in 0..n BY <2>1
  <2> QED BY <2>1, <2>4, <2>5
<1>8. \A k \in 0..n : run[k] \in Reading
  <2> DEFINE S == {k \in Nat : k \in 0..n => run[k] \in Reading}
  <2> HIDE DEF run
  <2>1. 0 \in S BY <1>1, <1>6
  <2>2. ASSUME NEW k \in Nat, k \in S PROVE k + 1 \in S
    <3>1. SUFFICES ASSUME k + 1 \in 0..n PROVE run[k + 1] \in Reading OBVIOUS
    <3>2. run[k] \in Reading /\ k + 1 \in 1..n /\ (k + 1) - 1 = k BY <2>2, <3>1
    <3>3. run[k + 1] = ReadChar(run[k], part[k + 1]) BY <1>7, <3>2
    <3> QED BY <3>2, <3>3, ReadCharStays
  <2> HIDE DEF S
  <2>3. Nat \subseteq S BY <2>1, <2>2, NatSetInduction
  <2> QED BY <2>3 DEF S
<1>9. run \in [0..n -> Reading]
  <2>1. run = [k \in 0..n |-> run[k]] OBVIOUS
  <2> HIDE DEF run
  <2> QED BY <1>8, <2>1
<1>10. ReadPart(acc, part, units) = EndOfPart(run[n])
  <2>1. run[n] = it[1..n] OBVIOUS
  <2> QED BY <1>2, <2>1 DEF ReadPart, base
<1> HIDE DEF run
<1> QED BY <1>6, <1>7, <1>9, <1>10 DEF base, RunsOver

(* ... and so does a whole part.                                               *)
LEMMA PartsStay ==
  ASSUME NEW acc \in Reading, NEW part, NEW n \in Nat, DOMAIN part = 1..n,
         NEW units \in Seq(Units)
  PROVE  ReadPart(acc, part, units) \in Reading
<1>1. PICK run \in [0..n -> Reading] : RunsOver(run, acc, part, n, units) BY PartRuns
<1>2. PICK x \in Reading : x = run[n] BY <1>1
<1>3. ReadPart(acc, part, units) = EndOfPart(x) BY <1>1, <1>2 DEF RunsOver
<1> QED BY <1>3 DEF EndOfPart, Reading

(* So a duration fits into MaxSeconds.                                         *)
LEMMA DurationsFit ==
  ASSUME NEW t \in Seq(STRING)
  PROVE  ParseDuration(t).total \in 0..MaxSeconds
<1> DEFINE rest  == Tail(t)
           cut   == SelectInSeq(rest, LAMBDA c : c = "T")
           date  == IF cut = 0 THEN rest ELSE SubSeq(rest, 1, cut - 1)
           time  == IF cut = 0 THEN << >> ELSE SubSeq(rest, cut + 1, Len(rest))
           empty == [why |-> "ok", total |-> 0, digits |-> NoDigits, units |-> << >>]
           read  == ReadPart(empty, date, <<"W", "D">>)
           all   == ReadTime(read, time)
<1>1. MaxSeconds \in Nat BY TextAssumption
<1>2. \A why : Refused(why).total \in 0..MaxSeconds BY <1>1 DEF Refused
<1>3. CASE t = << >> \/ Head(t) # "P"
  BY <1>2, <1>3 DEF ParseDuration
<1>4. CASE t # << >>
  <2>1. rest \in Seq(STRING) /\ Len(rest) \in Nat BY <1>4, HeadTailProperties
  <2>2. cut = 0 \/ cut \in 1..Len(rest)
    <3> DEFINE I == {i \in 1..Len(rest) : rest[i] = "T"}
    <3>1. cut = IF I # {} THEN Min(I) ELSE 0 BY DEF SelectInSeq
    <3>2. I # {} => Min(I) \in I
      <4>1. I \subseteq Nat OBVIOUS
      <4> HIDE DEF I
      <4> SUFFICES ASSUME I # {} PROVE Min(I) \in I
        OBVIOUS
      <4>2. \E m \in I : \A y \in I : m <= y BY <4>1, LeastOf
      <4> QED BY <4>2, Zenon DEF Min
    <3> HIDE DEF cut
    <3> QED BY <3>1, <3>2
  <2> HIDE DEF cut, rest
  <2>3. \E n \in Nat : DOMAIN date = 1..n
    <3>1. CASE cut = 0 BY <2>1, <3>1
    <3>2. CASE cut # 0
      <4>1. date \in Seq(STRING) BY <2>1, <2>2, <3>2, SubSeqProperties
      <4> QED BY <4>1, LenProperties
    <3> QED BY <3>1, <3>2
  <2>4. \E n \in Nat : DOMAIN time = 1..n
    <3>1. CASE cut = 0
      <4>1. DOMAIN time = 1..0 BY <3>1
      <4> QED BY <4>1
    <3>2. CASE cut # 0
      <4>1. time \in Seq(STRING) BY <2>1, <2>2, <3>2, SubSeqProperties
      <4> QED BY <4>1, LenProperties
    <3> QED BY <3>1, <3>2
  <2> HIDE DEF date, time
  <2>5. empty \in Reading
    <3>1. << >> \in Seq(Units) /\ 0 \in 0..MaxSeconds BY <1>1
    <3> QED BY <3>1 DEF Reading, NoDigits
  <2>6. <<"W", "D">> \in Seq(Units) /\ <<"H", "M", "S">> \in Seq(Units) BY DEF Units
  <2> HIDE DEF empty
  <2>7. read \in Reading BY <2>3, <2>5, <2>6, PartsStay
  <2> HIDE DEF read
  <2>8. all \in Reading BY <2>4, <2>6, <2>7, PartsStay DEF ReadTime
  <2> HIDE DEF all
  <2>9. Total(all).total \in 0..MaxSeconds BY <1>1, <2>8 DEF Total, Reading
  <2>10. \/ \E why : ParseDuration(t) = Refused(why)
         \/ ParseDuration(t) = Total(all)
    BY Zenon DEF ParseDuration, all, read, empty, date, time, cut, rest
  <2> QED BY <1>2, <2>9, <2>10
<1> QED BY <1>3, <1>4

-------------------------------------------------------------------------------
(* What a duration says.                                                       *)
(* A digit.                                                                    *)
LEMMA DigitIs ==
  ASSUME NEW c \in Range(Digits)
  PROVE  DigitOf(c) \in Nat
<1>1. DOMAIN Digits = 1..10 BY DEF Digits
<1>2. PICK i \in DOMAIN Digits : Digits[i] = c BY DEF Range
<1>3. PICK k : k = CHOOSE j \in DOMAIN Digits : Digits[j] = c OBVIOUS
<1>4. k \in DOMAIN Digits BY <1>2, <1>3, Zenon
<1>5. k \in 1..10 BY <1>1, <1>4
<1>6. DigitOf(c) = k - 1 BY <1>3, Zenon DEF DigitOf
<1> QED BY <1>5, <1>6

(* So is a number.                                                             *)
LEMMA NumberRuns ==
  ASSUME NEW t, NEW n \in Nat, DOMAIN t = 1..n, \A k \in 1..n : t[k] \in Range(Digits)
  PROVE  \E run \in [0..n -> Nat] :
           /\ run[0] = 0
           /\ \A k \in 1..n : run[k] = 10 * run[k - 1] + DigitOf(t[k])
           /\ NumberOf(t) = run[n]
<1> DEFINE Loop(f) == [s \in SUBSET (1..n) |->
                         IF s = {} THEN 0
                         ELSE 10 * f[s \ {Max(s)}] + DigitOf(t[Max(s)])]
           it == CHOOSE f : f = Loop(f)
           G == [p \in Nat \X (1..n) |-> 10 * p[1] + DigitOf(t[p[2]])]
<1>1. NumberOf(t) = it[1..n]
  BY DEF FoldLeft, MapThenFoldSet, NumberOf
<1>2. ASSUME NEW s \in SUBSET (1..n), s # {}
      PROVE  Max(s) \in 1..n /\ s \ {Max(s)} \in SUBSET (1..n)
  BY <1>2, MaxOfIndices
<1>3. \E f \in [SUBSET (1..n) -> Nat] : f = Loop(f)
  <2>1. G \in [Nat \X (1..n) -> Nat]
    <3>1. ASSUME NEW p \in Nat \X (1..n) PROVE 10 * p[1] + DigitOf(t[p[2]]) \in Nat
      <4>1. p[1] \in Nat /\ p[2] \in 1..n BY <3>1
      <4>2. DigitOf(t[p[2]]) \in Nat BY <4>1, DigitIs
      <4> QED BY <4>1, <4>2
    <3> QED BY <3>1
  <2> HIDE DEF G
  <2>2. PICK f : FoldsTo(f, Nat, 0, G, n) BY <2>1, FoldExists
  <2>3. /\ f \in [SUBSET (1..n) -> Nat]
        /\ \A s \in SUBSET (1..n) :
             f[s] = IF s = {} THEN 0 ELSE G[<<f[s \ {Max(s)}], Max(s)>>]
    BY <2>2 DEF FoldsTo
  <2>4. ASSUME NEW s \in SUBSET (1..n), s # {}
        PROVE  f[s] = 10 * f[s \ {Max(s)}] + DigitOf(t[Max(s)])
    <3>1. PICK x \in Nat : x = f[s \ {Max(s)}] BY <1>2, <2>3, <2>4
    <3>2. PICK k \in 1..n : k = Max(s) BY <1>2, <2>4
    <3>3. f[s] = G[<<x, k>>] BY <2>3, <2>4, <3>1, <3>2
    <3>4. G[<<x, k>>] = 10 * x + DigitOf(t[k])
      <4>1. <<x, k>> \in Nat \X (1..n) OBVIOUS
      <4> QED BY <4>1 DEF G
    <3> QED BY <3>1, <3>2, <3>3, <3>4
  <2>5. \A s \in SUBSET (1..n) :
          f[s] = IF s = {} THEN 0 ELSE 10 * f[s \ {Max(s)}] + DigitOf(t[Max(s)])
    BY <2>3, <2>4
  <2>6. f = [s \in SUBSET (1..n) |-> f[s]] BY <2>3
  <2>7. f = Loop(f) BY <2>5, <2>6
  <2> QED BY <2>3, <2>7
<1>4. it = Loop(it) BY <1>3
<1> HIDE DEF it
<1> DEFINE run == [k \in 0..n |-> it[1..k]]
<1>5. run[0] = 0
  <2>1. {} \in SUBSET (1..n) /\ 1..0 = {} /\ 0 \in 0..n OBVIOUS
  <2>2. it[{}] = 0 BY <1>4, <2>1
  <2> QED BY <2>1, <2>2
<1>6. \A k \in 1..n : run[k] = 10 * run[k - 1] + DigitOf(t[k])
  <2> TAKE k \in 1..n
  <2>1. PICK j \in 0..(n - 1) : j + 1 = k /\ k - 1 = j
    <3>1. k - 1 \in 0..(n - 1) /\ (k - 1) + 1 = k OBVIOUS
    <3> QED BY <3>1
  <2>2. /\ 1..k \in SUBSET (1..n) /\ 1..k # {} /\ Max(1..k) = k /\ (1..k) \ {k} = 1..j
    BY <2>1, UpToNext
  <2>3. it[1..k] = 10 * it[(1..k) \ {Max(1..k)}] + DigitOf(t[Max(1..k)])
    <3>1. PICK s : s = 1..k OBVIOUS
    <3>2. s \in SUBSET (1..n) /\ s # {} BY <2>2, <3>1
    <3>3. it[s] = 10 * it[s \ {Max(s)}] + DigitOf(t[Max(s)]) BY <1>4, <3>2
    <3> QED BY <3>1, <3>3
  <2>4. it[1..k] = 10 * it[1..j] + DigitOf(t[k]) BY <2>2, <2>3
  <2>5. k \in 0..n /\ j \in 0..n BY <2>1
  <2> QED BY <2>1, <2>4, <2>5
<1>7. \A k \in 0..n : run[k] \in Nat
  <2> DEFINE S == {k \in Nat : k \in 0..n => run[k] \in Nat}
  <2> HIDE DEF run
  <2>1. 0 \in S BY <1>5
  <2>2. ASSUME NEW k \in Nat, k \in S PROVE k + 1 \in S
    <3>1. SUFFICES ASSUME k + 1 \in 0..n PROVE run[k + 1] \in Nat OBVIOUS
    <3>2. run[k] \in Nat /\ k + 1 \in 1..n /\ (k + 1) - 1 = k BY <2>2, <3>1
    <3>3. run[k + 1] = 10 * run[k] + DigitOf(t[k + 1]) BY <1>6, <3>2
    <3>4. DigitOf(t[k + 1]) \in Nat BY <3>2, DigitIs
    <3> QED BY <3>2, <3>3, <3>4
  <2> HIDE DEF S
  <2>3. Nat \subseteq S BY <2>1, <2>2, NatSetInduction
  <2> QED BY <2>3 DEF S
<1>8. run \in [0..n -> Nat]
  <2>1. run = [k \in 0..n |-> run[k]] OBVIOUS
  <2> HIDE DEF run
  <2> QED BY <1>7, <2>1
<1>9. NumberOf(t) = run[n]
  <2>1. run[n] = it[1..n] OBVIOUS
  <2> QED BY <1>1, <2>1
<1> HIDE DEF run
<1> QED BY <1>5, <1>6, <1>8, <1>9

(* A digit more.                                                               *)
LEMMA NumberGrows ==
  ASSUME NEW t \in Seq(STRING), Range(t) \subseteq Range(Digits)
  PROVE  /\ NumberOf(t) \in Nat /\ (t = <<>> => NumberOf(t) = 0)
         /\ \A c \in Range(Digits) :
              c \in STRING => NumberOf(Append(t, c)) = 10 * NumberOf(t) + DigitOf(c)
<1> DEFINE n == Len(t)
<1>1. n \in Nat /\ DOMAIN t = 1..n BY LenProperties
<1>2. \A k \in 1..n : t[k] \in Range(Digits)
  <2>1. \A k \in DOMAIN t : t[k] \in Range(t) BY DEF Range
  <2> QED BY <1>1, <2>1
<1> HIDE DEF n
<1>3. PICK run \in [0..n -> Nat] :
        /\ run[0] = 0
        /\ \A k \in 1..n : run[k] = 10 * run[k - 1] + DigitOf(t[k])
        /\ NumberOf(t) = run[n]
  BY <1>1, <1>2, NumberRuns
<1>4. NumberOf(t) \in Nat BY <1>1, <1>3
<1>5. t = <<>> => NumberOf(t) = 0
  <2>1. t = <<>> => n = 0 BY DEF n
  <2> QED BY <1>3, <2>1
<1>6. ASSUME NEW c \in Range(Digits), c \in STRING
      PROVE  NumberOf(Append(t, c)) = 10 * NumberOf(t) + DigitOf(c)
  <2>1. PICK q : q = Append(t, c) OBVIOUS
  <2>2. /\ DOMAIN q = 1..(n + 1) /\ q[n + 1] = c
        /\ \A k \in 1..n : q[k] = t[k]
    BY <1>1, <1>6, <2>1, AppendProperties DEF n
  <2>3. \A k \in 1..(n + 1) : q[k] \in Range(Digits)
    <3>1. \A k \in 1..(n + 1) : k \in 1..n \/ k = n + 1 BY <1>1
    <3> QED BY <1>2, <2>2, <3>1
  <2>4. n + 1 \in Nat BY <1>1
  <2>5. PICK more \in [0..(n + 1) -> Nat] :
          /\ more[0] = 0
          /\ \A k \in 1..(n + 1) : more[k] = 10 * more[k - 1] + DigitOf(q[k])
          /\ NumberOf(q) = more[n + 1]
    BY <2>2, <2>3, <2>4, NumberRuns
  <2> DEFINE S == {k \in Nat : k \in 0..n => more[k] = run[k]}
  <2>6. 0 \in S BY <1>3, <2>5
  <2>7. ASSUME NEW k \in Nat, k \in S PROVE k + 1 \in S
    <3> SUFFICES ASSUME k + 1 \in 0..n PROVE more[k + 1] = run[k + 1] OBVIOUS
    <3>1. k + 1 \in 1..n /\ k + 1 \in 1..(n + 1) /\ (k + 1) - 1 = k /\ more[k] = run[k]
      BY <1>1, <2>7
    <3>2. run[k + 1] = 10 * run[k] + DigitOf(t[k + 1]) BY <1>3, <3>1
    <3>3. more[k + 1] = 10 * more[k] + DigitOf(q[k + 1]) BY <2>5, <3>1
    <3> QED BY <2>2, <3>1, <3>2, <3>3
  <2>8. more[n] = run[n]
    <3> HIDE DEF S
    <3>1. Nat \subseteq S BY <2>6, <2>7, NatSetInduction
    <3> QED BY <1>1, <3>1 DEF S
  <2>9. n + 1 \in 1..(n + 1) /\ (n + 1) - 1 = n BY <1>1
  <2>10. more[n + 1] = 10 * more[n] + DigitOf(q[n + 1]) BY <2>5, <2>9
  <2> QED BY <1>3, <2>1, <2>2, <2>5, <2>8, <2>10
<1> QED BY <1>4, <1>5, <1>6

(* One unit of a reading, from behind place i up to place j, if it is there.   *)
Segment(t, i, j, u) ==
  \/ j = i
  \/ j > i + 1 /\ t[j] = u /\ Number(SubSeq(t, i + 1, j - 1))

Worth(t, i, j, u) ==
  IF j = i THEN 0 ELSE NumberOf(SubSeq(t, i + 1, j - 1)) * Scale[u]

Cuts(t, units) ==
  {c \in [1..(Len(units) + 1) -> 0..Len(t)] :
     /\ c[1] = 0 /\ c[Len(units) + 1] = Len(t)
     /\ \A u \in 1..Len(units) : Segment(t, c[u], c[u + 1], units[u])}

CutSum(t, units, c) ==
  FoldLeft(LAMBDA n, u : n + Worth(t, c[u], c[u + 1], units[u]), 0,
           [u \in 1..Len(units) |-> u])

LEMMA ReadingsAreCuts ==
  ASSUME NEW t, NEW units
  PROVE  Readings(t, units) = {CutSum(t, units, c) : c \in Cuts(t, units)}
<1>1. Cuts(t, units) = {c \in [1..(Len(units) + 1) -> 0..Len(t)] :
                 /\ c[1] = 0 /\ c[Len(units) + 1] = Len(t)
                 /\ \A u \in 1..Len(units) :
                      \/ c[u + 1] = c[u]
                      \/ /\ c[u + 1] > c[u] + 1
                         /\ t[c[u + 1]] = units[u]
                         /\ Number(SubSeq(t, c[u] + 1, c[u + 1] - 1))}
  BY DEF Cuts, Segment
<1> QED BY <1>1 DEF Readings, CutSum, Worth

LEMMA WorthIs ==
  ASSUME NEW t \in Seq(STRING), NEW i \in 0..Len(t), NEW j \in 0..Len(t),
         NEW u \in Units, Segment(t, i, j, u)
  PROVE  j >= i /\ Worth(t, i, j, u) \in Nat
<1>1. Len(t) \in Nat BY LenProperties
<1>2. CASE j = i BY <1>1, <1>2 DEF Worth
<1>3. CASE j # i
  <2>1. j > i + 1 /\ Number(SubSeq(t, i + 1, j - 1)) BY <1>3 DEF Segment
  <2>2. SubSeq(t, i + 1, j - 1) \in Seq(STRING)
    <3>1. i + 1 \in 1..Len(t) /\ j - 1 \in 0..Len(t) BY <1>1, <2>1
    <3>2. \A k \in (i + 1)..(j - 1) : t[k] \in STRING BY <1>1, <3>1
    <3> QED BY <1>1, <3>1, <3>2, SubSeqProperties
  <2>3. NumberOf(SubSeq(t, i + 1, j - 1)) \in Nat
    <3>1. PICK q : q = SubSeq(t, i + 1, j - 1) OBVIOUS
    <3>2. Range(q) \subseteq Range(Digits) BY <2>1, <3>1 DEF Number
    <3>3. NumberOf(q) \in Nat BY <2>2, <3>1, <3>2, NumberGrows
    <3> QED BY <3>1, <3>3
  <2>4. Scale[u] \in Nat BY DEF Units, Scale
  <2>5. Worth(t, i, j, u) = NumberOf(SubSeq(t, i + 1, j - 1)) * Scale[u]
    BY <1>3 DEF Worth
  <2>6. PICK x \in Nat, y \in Nat : x = NumberOf(SubSeq(t, i + 1, j - 1)) /\ y = Scale[u]
    BY <2>3, <2>4
  <2>7. x * y \in Nat OBVIOUS
  <2> QED BY <1>1, <2>1, <2>5, <2>6, <2>7
<1> QED BY <1>2, <1>3

(* The sum of the units of a cut, one after the other.                         *)
LEMMA SumRuns ==
  ASSUME NEW t \in Seq(STRING), NEW units \in Seq(Units), NEW c \in Cuts(t, units)
  PROVE  \E run \in [0..Len(units) -> Nat] :
           /\ run[0] = 0
           /\ \A k \in 1..Len(units) :
                run[k] = run[k - 1] + Worth(t, c[k], c[k + 1], units[k])
           /\ CutSum(t, units, c) = run[Len(units)]
<1> DEFINE n == Len(units)
           W(u) == Worth(t, c[u], c[u + 1], units[u])
           order == [u \in 1..n |-> u]
           Loop(f) == [s \in SUBSET (1..n) |->
                         IF s = {} THEN 0 ELSE f[s \ {Max(s)}] + W(order[Max(s)])]
           it == CHOOSE f : f = Loop(f)
           G == [p \in Nat \X (1..n) |-> p[1] + W(order[p[2]])]
<1>1. n \in Nat BY LenProperties
<1>2. CutSum(t, units, c) = it[1..n]
  <2>1. DOMAIN order = 1..n OBVIOUS
  <2>2. PICK q : q = order OBVIOUS
  <2>3. FoldLeft(LAMBDA m, u : m + W(u), 0, q) = it[DOMAIN q]
    BY <2>1, <2>2 DEF FoldLeft, MapThenFoldSet
  <2> QED BY <2>1, <2>2, <2>3 DEF CutSum
<1>3. ASSUME NEW s \in SUBSET (1..n), s # {}
      PROVE  Max(s) \in 1..n /\ s \ {Max(s)} \in SUBSET (1..n)
  <2> HIDE DEF n
  <2> QED BY <1>1, <1>3, MaxOfIndices
<1>4. \A u \in 1..n : W(u) \in Nat /\ order[u] = u
  <2> TAKE u \in 1..n
  <2>1. c[u] \in 0..Len(t) /\ c[u + 1] \in 0..Len(t)
    <3>1. u \in 1..(n + 1) /\ u + 1 \in 1..(n + 1) BY <1>1
    <3>2. c \in [1..(n + 1) -> 0..Len(t)] BY DEF Cuts
    <3> QED BY <3>1, <3>2
  <2>2. Segment(t, c[u], c[u + 1], units[u]) /\ units[u] \in Units BY DEF Cuts
  <2> QED BY <2>1, <2>2, WorthIs
<1> HIDE DEF W, order
<1>5. \E f \in [SUBSET (1..n) -> Nat] : f = Loop(f)
  <2>1. G \in [Nat \X (1..n) -> Nat]
    <3>1. ASSUME NEW p \in Nat \X (1..n) PROVE p[1] + W(order[p[2]]) \in Nat
      <4>1. p[1] \in Nat /\ p[2] \in 1..n BY <3>1
      <4>2. W(order[p[2]]) \in Nat BY <1>4, <4>1
      <4> QED BY <4>1, <4>2
    <3> QED BY <3>1
  <2> HIDE DEF G
  <2>2. PICK f : FoldsTo(f, Nat, 0, G, n)
    <3> HIDE DEF n
    <3> QED BY <1>1, <2>1, FoldExists
  <2>3. /\ f \in [SUBSET (1..n) -> Nat]
        /\ \A s \in SUBSET (1..n) :
             f[s] = IF s = {} THEN 0 ELSE G[<<f[s \ {Max(s)}], Max(s)>>]
    BY <2>2 DEF FoldsTo
  <2>4. ASSUME NEW s \in SUBSET (1..n), s # {}
        PROVE  f[s] = f[s \ {Max(s)}] + W(order[Max(s)])
    <3>1. PICK x \in Nat : x = f[s \ {Max(s)}] BY <1>3, <2>3, <2>4
    <3>2. PICK k \in 1..n : k = Max(s) BY <1>3, <2>4
    <3>3. f[s] = G[<<x, k>>] BY <2>3, <2>4, <3>1, <3>2
    <3>4. G[<<x, k>>] = x + W(order[k])
      <4>1. <<x, k>> \in Nat \X (1..n) OBVIOUS
      <4> QED BY <4>1 DEF G
    <3> QED BY <3>1, <3>2, <3>3, <3>4
  <2>5. \A s \in SUBSET (1..n) :
          f[s] = IF s = {} THEN 0 ELSE f[s \ {Max(s)}] + W(order[Max(s)])
    BY <2>3, <2>4
  <2>6. f = [s \in SUBSET (1..n) |-> f[s]] BY <2>3
  <2>7. f = Loop(f) BY <2>5, <2>6
  <2> QED BY <2>3, <2>7
<1>6. it = Loop(it) BY <1>5
<1> HIDE DEF it
<1> DEFINE run == [k \in 0..n |-> it[1..k]]
<1>7. run[0] = 0
  <2>1. {} \in SUBSET (1..n) /\ 1..0 = {} /\ 0 \in 0..n BY <1>1
  <2>2. it[{}] = 0 BY <1>6, <2>1
  <2> QED BY <2>1, <2>2
<1>8. \A k \in 1..n : run[k] = run[k - 1] + W(k)
  <2> HIDE DEF n
  <2> TAKE k \in 1..n
  <2>1. PICK j \in 0..(n - 1) : j + 1 = k /\ k - 1 = j
    <3>1. k - 1 \in 0..(n - 1) /\ (k - 1) + 1 = k BY <1>1
    <3> QED BY <3>1
  <2>2. /\ 1..k \in SUBSET (1..n) /\ 1..k # {} /\ Max(1..k) = k /\ (1..k) \ {k} = 1..j
    BY <1>1, <2>1, UpToNext
  <2>3. it[1..k] = it[(1..k) \ {Max(1..k)}] + W(order[Max(1..k)])
    <3>1. PICK s : s = 1..k OBVIOUS
    <3>2. s \in SUBSET (1..n) /\ s # {} BY <2>2, <3>1
    <3>3. it[s] = it[s \ {Max(s)}] + W(order[Max(s)]) BY <1>6, <3>2
    <3> QED BY <3>1, <3>3
  <2>4. it[1..k] = it[1..j] + W(k) BY <1>4, <2>2, <2>3
  <2>5. k \in 0..n /\ j \in 0..n BY <1>1, <2>1
  <2> QED BY <2>1, <2>4, <2>5
<1>9. \A k \in 0..n : run[k] \in Nat
  <2> DEFINE S == {k \in Nat : k \in 0..n => run[k] \in Nat}
  <2> HIDE DEF run
  <2>1. 0 \in S BY <1>7
  <2>2. ASSUME NEW k \in Nat, k \in S PROVE k + 1 \in S
    <3> HIDE DEF n
    <3>1. SUFFICES ASSUME k + 1 \in 0..n PROVE run[k + 1] \in Nat OBVIOUS
    <3>2. run[k] \in Nat /\ k + 1 \in 1..n /\ (k + 1) - 1 = k BY <1>1, <2>2, <3>1
    <3>3. run[k + 1] = run[k] + W(k + 1) BY <1>8, <3>2
    <3> QED BY <1>4, <3>2, <3>3
  <2> HIDE DEF S
  <2>3. Nat \subseteq S BY <2>1, <2>2, NatSetInduction
  <2> QED BY <2>3 DEF S
<1>10. run \in [0..n -> Nat]
  <2>1. run = [k \in 0..n |-> run[k]] OBVIOUS
  <2> HIDE DEF run
  <2> QED BY <1>9, <2>1
<1>11. CutSum(t, units, c) = run[n] BY <1>1, <1>2
<1> HIDE DEF run
<1> QED BY <1>7, <1>8, <1>10, <1>11 DEF W

(* The readings of one unit, ...                                               *)
LEMMA OneUnit ==
  ASSUME NEW t \in Seq(STRING), NEW u \in Units, NEW n
  PROVE  n \in Readings(t, <<u>>)
           <=> Segment(t, 0, Len(t), u) /\ n = Worth(t, 0, Len(t), u)
<1> DEFINE units == <<u>>
<1>1. units \in Seq(Units) /\ Len(units) = 1 /\ units[1] = u OBVIOUS
<1>2. Len(t) \in Nat BY LenProperties
<1> HIDE DEF units
<1>3. ASSUME NEW c \in Cuts(t, units)
      PROVE  /\ Segment(t, 0, Len(t), u)
             /\ CutSum(t, units, c) = Worth(t, 0, Len(t), u)
  <2>1. c[1] = 0 /\ c[2] = Len(t) /\ Segment(t, c[1], c[2], u)
    <3>1. c[1] = 0 /\ c[1 + 1] = Len(t) /\ Segment(t, c[1], c[1 + 1], units[1])
      <4>1. 1 \in 1..Len(units) BY <1>1
      <4> QED BY <1>1, <4>1 DEF Cuts
    <3> QED BY <1>1, <3>1
  <2>2. PICK run \in [0..Len(units) -> Nat] :
          /\ run[0] = 0
          /\ \A k \in 1..Len(units) :
               run[k] = run[k - 1] + Worth(t, c[k], c[k + 1], units[k])
          /\ CutSum(t, units, c) = run[Len(units)]
    BY <1>1, SumRuns
  <2>3. run[1] = run[0] + Worth(t, c[1], c[2], u)
    <3>1. 1 \in 1..Len(units) /\ 1 - 1 = 0 /\ 1 + 1 = 2 BY <1>1
    <3>2. run[1] = run[1 - 1] + Worth(t, c[1], c[1 + 1], units[1]) BY <2>2, <3>1
    <3> QED BY <1>1, <3>1, <3>2
  <2>4. Worth(t, 0, Len(t), u) \in Nat BY <1>2, <2>1, WorthIs
  <2> QED BY <1>1, <2>1, <2>2, <2>3, <2>4
<1>4. Segment(t, 0, Len(t), u) => Cuts(t, units) # {}
  <2> SUFFICES ASSUME Segment(t, 0, Len(t), u) PROVE \E c : c \in Cuts(t, units) OBVIOUS
  <2> DEFINE c == [k \in 1..2 |-> IF k = 1 THEN 0 ELSE Len(t)]
  <2>1. c \in [1..2 -> 0..Len(t)] /\ c[1] = 0 /\ c[2] = Len(t) BY <1>2
  <2> HIDE DEF c
  <2>2. \A k \in 1..Len(units) : Segment(t, c[k], c[k + 1], units[k])
    <3>1. \A k \in 1..Len(units) : k = 1 BY <1>1
    <3>2. 1 + 1 = 2 OBVIOUS
    <3> QED BY <1>1, <2>1, <3>1, <3>2
  <2>3. Len(units) + 1 = 2 BY <1>1
  <2>4. c \in Cuts(t, units) BY <2>1, <2>2, <2>3 DEF Cuts
  <2> QED BY <2>4
<1>5. n \in Readings(t, units) <=> \E c \in Cuts(t, units) : n = CutSum(t, units, c)
  BY ReadingsAreCuts
<1>6. n \in Readings(t, units)
        <=> Segment(t, 0, Len(t), u) /\ n = Worth(t, 0, Len(t), u)
  BY <1>3, <1>4, <1>5
<1> QED BY <1>6 DEF units

(* ... and of three.                                                           *)
Reads(t, x, y, z, n) ==
  \E a, b \in 0..Len(t) :
    /\ Segment(t, 0, a, x) /\ Segment(t, a, b, y) /\ Segment(t, b, Len(t), z)
    /\ n = Worth(t, 0, a, x) + Worth(t, a, b, y) + Worth(t, b, Len(t), z)

LEMMA ThreeUnits ==
  ASSUME NEW t \in Seq(STRING), NEW x \in Units, NEW y \in Units, NEW z \in Units, NEW n
  PROVE  n \in Readings(t, <<x, y, z>>) <=> Reads(t, x, y, z, n)
<1> DEFINE units == <<x, y, z>>
<1>1. /\ units \in Seq(Units) /\ Len(units) = 3
      /\ units[1] = x /\ units[2] = y /\ units[3] = z
  OBVIOUS
<1>2. Len(t) \in Nat BY LenProperties
<1> HIDE DEF units
<1>3. ASSUME NEW c \in Cuts(t, units)
      PROVE  /\ c[2] \in 0..Len(t) /\ c[3] \in 0..Len(t) /\ c[1] = 0 /\ c[4] = Len(t)
             /\ Segment(t, 0, c[2], x) /\ Segment(t, c[2], c[3], y)
             /\ Segment(t, c[3], Len(t), z)
             /\ CutSum(t, units, c)
                  = Worth(t, 0, c[2], x) + Worth(t, c[2], c[3], y) + Worth(t, c[3], Len(t), z)
  <2>1. /\ c \in [1..4 -> 0..Len(t)] /\ c[1] = 0 /\ c[4] = Len(t)
        /\ \A k \in 1..3 : Segment(t, c[k], c[k + 1], units[k])
    <3>1. Len(units) + 1 = 4 BY <1>1
    <3> QED BY <1>1, <3>1 DEF Cuts
  <2>2. /\ Segment(t, c[1], c[2], x) /\ Segment(t, c[2], c[3], y)
        /\ Segment(t, c[3], c[4], z)
    <3>1. /\ 1 \in 1..3 /\ 2 \in 1..3 /\ 3 \in 1..3 /\ 1 + 1 = 2 /\ 2 + 1 = 3 /\ 3 + 1 = 4
      OBVIOUS
    <3>2. /\ Segment(t, c[1], c[1 + 1], units[1]) /\ Segment(t, c[2], c[2 + 1], units[2])
          /\ Segment(t, c[3], c[3 + 1], units[3])
      BY <2>1, <3>1
    <3> QED BY <1>1, <3>1, <3>2
  <2>3. PICK run \in [0..Len(units) -> Nat] :
          /\ run[0] = 0
          /\ \A k \in 1..Len(units) :
               run[k] = run[k - 1] + Worth(t, c[k], c[k + 1], units[k])
          /\ CutSum(t, units, c) = run[Len(units)]
    BY <1>1, SumRuns
  <2>4. /\ run[1] = run[0] + Worth(t, c[1], c[2], x)
        /\ run[2] = run[1] + Worth(t, c[2], c[3], y)
        /\ run[3] = run[2] + Worth(t, c[3], c[4], z)
    <3>1. /\ 1 \in 1..3 /\ 2 \in 1..3 /\ 3 \in 1..3 /\ 1 + 1 = 2 /\ 2 + 1 = 3 /\ 3 + 1 = 4
          /\ 1 - 1 = 0 /\ 2 - 1 = 1 /\ 3 - 1 = 2
      OBVIOUS
    <3>2. /\ run[1] = run[1 - 1] + Worth(t, c[1], c[1 + 1], units[1])
          /\ run[2] = run[2 - 1] + Worth(t, c[2], c[2 + 1], units[2])
          /\ run[3] = run[3 - 1] + Worth(t, c[3], c[3 + 1], units[3])
      BY <1>1, <2>3, <3>1
    <3> QED BY <1>1, <3>1, <3>2
  <2>5. c[2] \in 0..Len(t) /\ c[3] \in 0..Len(t) /\ 0 \in 0..Len(t) /\ Len(t) \in 0..Len(t)
    BY <1>2, <2>1
  <2>6. /\ Worth(t, 0, c[2], x) \in Nat /\ Worth(t, c[2], c[3], y) \in Nat
        /\ Worth(t, c[3], Len(t), z) \in Nat
    BY <2>1, <2>2, <2>5, WorthIs
  <2>7. CutSum(t, units, c)
          = Worth(t, 0, c[2], x) + Worth(t, c[2], c[3], y) + Worth(t, c[3], Len(t), z)
    BY <1>1, <2>1, <2>3, <2>4, <2>6
  <2> QED BY <2>1, <2>2, <2>5, <2>7
<1>4. ASSUME NEW a \in 0..Len(t), NEW b \in 0..Len(t), Segment(t, 0, a, x),
             Segment(t, a, b, y), Segment(t, b, Len(t), z)
      PROVE  \E c \in Cuts(t, units) : c[2] = a /\ c[3] = b
  <2> DEFINE c == [k \in 1..4 |-> IF k = 1 THEN 0 ELSE IF k = 2 THEN a
                                  ELSE IF k = 3 THEN b ELSE Len(t)]
  <2>1. /\ c \in [1..4 -> 0..Len(t)]
        /\ c[1] = 0 /\ c[2] = a /\ c[3] = b /\ c[4] = Len(t)
    BY <1>2
  <2> HIDE DEF c
  <2>2. \A k \in 1..3 : Segment(t, c[k], c[k + 1], units[k])
    <3>1. \A k \in 1..3 : k = 1 \/ k = 2 \/ k = 3 OBVIOUS
    <3>2. 1 + 1 = 2 /\ 2 + 1 = 3 /\ 3 + 1 = 4 OBVIOUS
    <3>3. /\ Segment(t, c[1], c[1 + 1], units[1]) /\ Segment(t, c[2], c[2 + 1], units[2])
          /\ Segment(t, c[3], c[3 + 1], units[3])
      BY <1>1, <1>4, <2>1, <3>2
    <3> QED BY <3>1, <3>3
  <2>3. Len(units) + 1 = 4 BY <1>1
  <2>4. c \in Cuts(t, units) BY <1>1, <2>1, <2>2, <2>3 DEF Cuts
  <2> QED BY <2>1, <2>4
<1>5. n \in Readings(t, units) <=> \E c \in Cuts(t, units) : n = CutSum(t, units, c)
  BY ReadingsAreCuts
<1>6. ASSUME n \in Readings(t, units) PROVE Reads(t, x, y, z, n)
  <2>1. PICK c \in Cuts(t, units) : n = CutSum(t, units, c) BY <1>5, <1>6
  <2> QED BY <1>3, <2>1 DEF Reads
<1>7. ASSUME Reads(t, x, y, z, n) PROVE n \in Readings(t, units)
  <2>1. PICK a \in 0..Len(t), b \in 0..Len(t) :
          /\ Segment(t, 0, a, x) /\ Segment(t, a, b, y) /\ Segment(t, b, Len(t), z)
          /\ n = Worth(t, 0, a, x) + Worth(t, a, b, y) + Worth(t, b, Len(t), z)
    BY <1>7 DEF Reads
  <2>2. PICK c \in Cuts(t, units) : c[2] = a /\ c[3] = b BY <1>4, <2>1
  <2>3. CutSum(t, units, c)
          = Worth(t, 0, c[2], x) + Worth(t, c[2], c[3], y) + Worth(t, c[3], Len(t), z)
    BY <1>3
  <2> QED BY <1>5, <2>1, <2>2, <2>3
<1> QED BY <1>6, <1>7 DEF units

LEMMA DigitSet == Range(Digits) = {"0", "1", "2", "3", "4", "5", "6", "7", "8", "9"}
<1>1. DOMAIN Digits = 1..10 BY DEF Digits
<1>2. /\ Digits[1] = "0" /\ Digits[2] = "1" /\ Digits[3] = "2" /\ Digits[4] = "3"
      /\ Digits[5] = "4" /\ Digits[6] = "5" /\ Digits[7] = "6" /\ Digits[8] = "7"
      /\ Digits[9] = "8" /\ Digits[10] = "9"
  BY DEF Digits
<1>3. \A i \in 1..10 : i = 1 \/ i = 2 \/ i = 3 \/ i = 4 \/ i = 5 \/ i = 6 \/ i = 7
                       \/ i = 8 \/ i = 9 \/ i = 10
  OBVIOUS
<1>4. Range(Digits) = {Digits[i] : i \in 1..10} BY <1>1 DEF Range
<1>5. {Digits[i] : i \in 1..10}
        = {"0", "1", "2", "3", "4", "5", "6", "7", "8", "9"}
  BY <1>2, <1>3
<1> QED BY <1>4, <1>5

(* A number grows by a digit.                                                  *)
LEMMA DigitMore ==
  ASSUME NEW t \in Seq(STRING), NEW i \in 0..Len(t), NEW k \in i..(Len(t) - 1),
         i = k \/ Number(SubSeq(t, i + 1, k)), t[k + 1] \in Range(Digits)
  PROVE  /\ Number(SubSeq(t, i + 1, k + 1))
         /\ NumberOf(SubSeq(t, i + 1, k)) \in Nat
         /\ NumberOf(SubSeq(t, i + 1, k + 1))
              = IF i = k THEN DigitOf(t[k + 1])
                ELSE 10 * NumberOf(SubSeq(t, i + 1, k)) + DigitOf(t[k + 1])
<1> DEFINE s == SubSeq(t, i + 1, k)
           d == t[k + 1]
<1>1. Len(t) \in Nat /\ i \in Nat /\ k \in Nat /\ i <= k /\ k + 1 \in 1..Len(t)
  BY LenProperties
<1>2. \A m \in 1..Len(t) : t[m] \in STRING BY LenProperties
<1>3. /\ s \in Seq(STRING) /\ Len(s) = k - i
      /\ \A m \in 1..(k - i) : s[m] = t[i + m]
  <2>1. \A m \in (i + 1)..k : t[m] \in STRING BY <1>1, <1>2
  <2>2. i + 1 \in 1..(Len(t) + 1) /\ k \in i..Len(t) BY <1>1
  <2>3. (i + 1) \in Int /\ k \in Int BY <1>1
  <2>4. s \in Seq(STRING) BY <2>1, <1>1, <2>2, SubSeqProperties
  <2>5. Len(s) = k - i /\ \A m \in 1..(k - i) : s[m] = t[(i + 1) + m - 1]
    BY <1>1, <2>1, SubSeqProperties
  <2>6. \A m \in 1..(k - i) : (i + 1) + m - 1 = i + m BY <1>1
  <2> QED BY <2>4, <2>5, <2>6
<1>4. SubSeq(t, i + 1, k + 1) = Append(s, d)
  <2> DEFINE q == SubSeq(t, i + 1, k + 1)
             p == Append(s, d)
  <2>1. \A m \in (i + 1)..(k + 1) : t[m] \in STRING BY <1>1, <1>2
  <2>2. q \in Seq(STRING) /\ Len(q) = k + 1 - i
        /\ \A m \in 1..(k + 1 - i) : q[m] = t[(i + 1) + m - 1]
    BY <1>1, <2>1, SubSeqProperties
  <2>3. d \in STRING BY <1>1, <1>2
  <2>4. /\ p \in Seq(STRING) /\ Len(p) = k + 1 - i
        /\ \A m \in 1..(k - i) : p[m] = t[i + m]
        /\ p[k - i + 1] = d
    <3> HIDE DEF s, d
    <3>1. PICK n \in Nat : n = k - i BY <1>1
    <3>2. s \in Seq(STRING) /\ Len(s) = n /\ \A m \in 1..n : s[m] = t[i + m]
      BY <1>3, <3>1
    <3>3. p \in Seq(STRING) /\ Len(p) = n + 1 /\ \A m \in 1..n : p[m] = s[m] /\ p[n + 1] = d
      <4>1. /\ p \in Seq(STRING) /\ Len(p) = Len(s) + 1 /\ p[Len(s) + 1] = d
            /\ \A m \in 1..Len(s) : p[m] = s[m]
        BY <2>3, <3>2, AppendProperties
      <4> QED BY <3>2, <4>1
    <3>4. n + 1 = k + 1 - i /\ n + 1 = k - i + 1 BY <1>1, <3>1
    <3>5. p[n + 1] = d
      <4>1. p[Len(s) + 1] = d BY <2>3, <3>2, AppendProperties
      <4> QED BY <3>2, <4>1
    <3> HIDE DEF p
    <3>6. \A m \in 1..(k - i) : p[m] = t[i + m] BY <3>1, <3>2, <3>3
    <3> QED BY <3>1, <3>3, <3>4, <3>5, <3>6
  <2>5. \A m \in 1..(k + 1 - i) : q[m] = p[m]
    <3> TAKE m \in 1..(k + 1 - i)
    <3>1. (i + 1) + m - 1 = i + m BY <1>1
    <3>2. CASE m = k - i + 1
      <4>1. i + m = k + 1 BY <1>1, <3>2
      <4> QED BY <2>2, <2>4, <3>1, <3>2, <4>1
    <3>3. CASE m # k - i + 1
      <4>1. m \in 1..(k - i) BY <1>1, <3>3
      <4> HIDE DEF p, q
      <4> QED BY <2>2, <2>4, <3>1, <4>1
    <3> QED BY <3>2, <3>3
  <2> HIDE DEF p, q
  <2>6. q = p BY <2>2, <2>4, <2>5, SeqEqual
  <2> QED BY <2>6 DEF p, q
<1>5. Range(s) \subseteq Range(Digits)
  <2>1. CASE i = k
    <3>1. DOMAIN s = 1..0 BY <1>1, <1>3, <2>1, LenProperties
    <3> QED BY <3>1 DEF Range
  <2>2. CASE Number(s) BY <2>2 DEF Number
  <2> QED BY <2>1, <2>2
<1>6. d \in STRING /\ d \in Range(Digits) BY <1>1, <1>2
<1> HIDE DEF s, d
<1>7. /\ NumberOf(s) \in Nat /\ (s = << >> => NumberOf(s) = 0)
      /\ NumberOf(Append(s, d)) = 10 * NumberOf(s) + DigitOf(d)
  BY <1>3, <1>5, <1>6, NumberGrows
<1>8. i = k => NumberOf(s) = 0
  <2>1. i = k => Len(s) = 0 BY <1>1, <1>3
  <2>2. Len(s) = 0 => s = << >> BY <1>3, EmptySeq
  <2> QED BY <1>7, <2>1, <2>2
<1>9. Number(Append(s, d))
  <2>1. PICK q : q = Append(s, d) OBVIOUS
  <2>2. /\ q \in Seq(STRING) /\ Len(q) = k - i + 1
        /\ \A m \in 1..(k - i) : q[m] = s[m]
        /\ q[k - i + 1] = d
    <3>1. /\ q \in Seq(STRING) /\ Len(q) = Len(s) + 1 /\ q[Len(s) + 1] = d
          /\ \A m \in 1..Len(s) : q[m] = s[m]
      <4>1. /\ Append(s, d) \in Seq(STRING) /\ Len(Append(s, d)) = Len(s) + 1
            /\ Append(s, d)[Len(s) + 1] = d
            /\ \A m \in 1..Len(s) : Append(s, d)[m] = s[m]
        <5>1. s \in Seq(STRING) /\ d \in STRING BY <1>3, <1>6
        <5>2. PICK w : w = Append(s, d) OBVIOUS
        <5>3. w \in Seq(STRING) /\ Len(w) = Len(s) + 1 BY <5>1, <5>2, AppendProperties
        <5>4. w[Len(s) + 1] = d BY <5>1, <5>2, AppendProperties
        <5>5. \A m \in 1..Len(s) : w[m] = s[m] BY <5>1, <5>2, AppendProperties
        <5> QED BY <5>2, <5>3, <5>4, <5>5, Zenon
      <4> QED BY <2>1, <4>1, Zenon
    <3> QED BY <1>3, <3>1
  <2>3. DOMAIN q = 1..(k - i + 1) /\ DOMAIN s = 1..(k - i) BY <1>3, <2>2, LenProperties
  <2>4. \A m \in 1..(k - i + 1) : q[m] \in Range(Digits)
    <3> TAKE m \in 1..(k - i + 1)
    <3>1. CASE m = k - i + 1 BY <1>6, <2>2, <3>1
    <3>2. CASE m # k - i + 1
      <4>1. m \in 1..(k - i) BY <1>1, <3>2
      <4>2. s[m] \in Range(s) BY <2>3, <4>1 DEF Range
      <4> QED BY <1>5, <2>2, <4>1, <4>2
    <3> QED BY <3>1, <3>2
  <2>5. Range(q) \subseteq Range(Digits) BY <2>3, <2>4 DEF Range
  <2>6. q # << >> BY <1>1, <2>2
  <2> QED BY <2>1, <2>5, <2>6 DEF Number
<1>10. DigitOf(d) \in Nat BY <1>6, DigitIs
<1>11. NumberOf(Append(s, d)) = IF i = k THEN DigitOf(d) ELSE 10 * NumberOf(s) + DigitOf(d)
  <2>1. CASE i = k
    <3>1. 10 * 0 + DigitOf(d) = DigitOf(d) BY <1>10
    <3> QED BY <1>7, <1>8, <2>1, <3>1
  <2>2. CASE i # k BY <1>7, <2>2
  <2> QED BY <2>1, <2>2
<1> QED BY <1>4, <1>7, <1>9, <1>11 DEF s, d

LEMMA UnitsAreNoDigits == \A u \in Units : u \notin Range(Digits) /\ Scale[u] \in Nat
<1>1. \A u \in Units : Scale[u] \in Nat BY SMT DEF Units, Scale
<1>2. \A u \in Units : u \notin Range(Digits)
  <2>1. \A u \in Units : u \notin {"0", "1", "2", "3", "4", "5", "6", "7", "8", "9"}
    BY DEF Units
  <2> QED BY <2>1, DigitSet
<1> QED BY <1>1, <1>2

(* What a reading takes of one more character: a digit, ...                    *)
LEMMA ReadDigit ==
  ASSUME NEW acc \in Reading, acc.why = "ok", NEW d \in Range(Digits)
  PROVE  ReadChar(acc, d)
           = [acc EXCEPT !.digits = IF acc.digits = NoDigits THEN DigitOf(d)
                                    ELSE 10 * acc.digits + DigitOf(d)]
BY SMT DEF ReadChar

(* ... the unit at one place of those it allows, ...                           *)
LEMMA ReadUnit ==
  ASSUME NEW acc \in Reading, acc.why = "ok", acc.digits # NoDigits,
         NEW u \in Units, NEW p \in 1..Len(acc.units), acc.units[p] = u,
         \A q \in 1..Len(acc.units) : acc.units[q] = u => q = p
  PROVE  /\ ReadChar(acc, u).why = "ok" <=> acc.total + acc.digits * Scale[u] <= MaxSeconds
         /\ ReadChar(acc, u).why = "ok" =>
              /\ ReadChar(acc, u).total = acc.total + acc.digits * Scale[u]
              /\ ReadChar(acc, u).digits = NoDigits
              /\ ReadChar(acc, u).units = SubSeq(acc.units, p + 1, Len(acc.units))
<1>1. DOMAIN acc.units = 1..Len(acc.units)
  <2>1. acc.units \in Seq(Units) BY DEF Reading
  <2> QED BY <2>1, LenProperties
<1>2. u \in Range(acc.units) BY <1>1 DEF Range
<1>3. u \notin Range(Digits) BY UnitsAreNoDigits
<1> DEFINE pos == CHOOSE i \in DOMAIN acc.units : acc.units[i] = u
           total == acc.total + acc.digits * Scale[u]
<1>4. pos = p BY <1>1
<1>5. ReadChar(acc, u)
        = IF total > MaxSeconds THEN [acc EXCEPT !.why = "Overflow"]
          ELSE [acc EXCEPT !.total = total, !.digits = NoDigits,
                           !.units = SubSeq(acc.units, pos + 1, Len(acc.units))]
  BY <1>2, <1>3, SMT DEF ReadChar
<1> HIDE DEF total, pos
<1>6. ReadChar(acc, u)
        = IF total > MaxSeconds THEN [acc EXCEPT !.why = "Overflow"]
          ELSE [acc EXCEPT !.total = total, !.digits = NoDigits,
                           !.units = SubSeq(acc.units, p + 1, Len(acc.units))]
  BY <1>4, <1>5, Zenon
<1>7. total \in Nat /\ MaxSeconds \in Nat
  <2>1. acc.digits \in Nat /\ acc.total \in Nat /\ MaxSeconds \in Nat
    BY TextAssumption DEF Reading
  <2>2. PICK n \in Nat : n = Scale[u] BY UnitsAreNoDigits
  <2>3. acc.digits * n \in Nat BY <2>1
  <2> QED BY <2>1, <2>2, <2>3 DEF total
<1>8. CASE total > MaxSeconds
  <2>1. ReadChar(acc, u).why = "Overflow" BY <1>6, <1>8 DEF Reading
  <2>2. ~(total <= MaxSeconds) BY <1>7, <1>8
  <2> QED BY <2>1, <2>2 DEF total
<1>9. CASE ~(total > MaxSeconds)
  <2>1. PICK s : s = SubSeq(acc.units, p + 1, Len(acc.units)) OBVIOUS
  <2>2. ReadChar(acc, u) = [acc EXCEPT !.total = total, !.digits = NoDigits, !.units = s]
    BY <1>6, <1>9, <2>1
  <2>3. /\ ReadChar(acc, u).why = "ok" /\ ReadChar(acc, u).total = total
        /\ ReadChar(acc, u).digits = NoDigits /\ ReadChar(acc, u).units = s
    BY <2>2 DEF Reading
  <2>4. total <= MaxSeconds BY <1>7, <1>9
  <2> QED BY <2>1, <2>3, <2>4 DEF total
<1> QED BY <1>8, <1>9

(* ... or nothing.                                                             *)
LEMMA ReadOn ==
  ASSUME NEW acc \in Reading, NEW c, ReadChar(acc, c).why = "ok"
  PROVE  /\ acc.why = "ok"
         /\ c \in Range(Digits) \/ (c \in Range(acc.units) /\ acc.digits # NoDigits)
<1>1. acc.why = "ok" BY DEF ReadChar
<1>2. CASE c \notin Range(Digits) /\ (c \notin Range(acc.units) \/ acc.digits = NoDigits)
  <2>1. ReadChar(acc, c) = [acc EXCEPT !.why = "Malformed"] BY <1>1, <1>2 DEF ReadChar
  <2>2. ReadChar(acc, c).why = "Malformed" BY <2>1 DEF Reading
  <2> QED BY <2>2
<1> QED BY <1>1, <1>2

(* Units in their order and what is left of them behind one.                   *)
LEMMA UnitsLeft ==
  ASSUME NEW x \in Units, NEW y \in Units, NEW z \in Units
  PROVE  /\ SubSeq(<<x, y, z>>, 2, 3) = <<y, z>> /\ SubSeq(<<x, y, z>>, 3, 3) = <<z>>
         /\ SubSeq(<<x, y, z>>, 4, 3) = << >>
         /\ SubSeq(<<y, z>>, 2, 2) = <<z>> /\ SubSeq(<<y, z>>, 3, 2) = << >>
         /\ SubSeq(<<z>>, 2, 1) = << >>
<1> DEFINE T == <<x, y, z>>
           P == <<y, z>>
           O == <<z>>
<1>1. /\ T \in Seq(Units) /\ Len(T) = 3 /\ T[1] = x /\ T[2] = y /\ T[3] = z
      /\ P \in Seq(Units) /\ Len(P) = 2 /\ P[1] = y /\ P[2] = z
      /\ O \in Seq(Units) /\ Len(O) = 1 /\ O[1] = z
  OBVIOUS
<1>2. SubSeq(T, 4, 3) = << >> /\ SubSeq(P, 3, 2) = << >> /\ SubSeq(O, 2, 1) = << >>
  BY SubSeqEmpty
<1>3. SubSeq(T, 2, 3) = P
  <2> DEFINE q == SubSeq(T, 2, 3)
  <2>1. \A i \in 2..3 : T[i] \in Units BY <1>1
  <2> HIDE DEF T
  <2>2. q \in Seq(Units) /\ Len(q) = 2 /\ \A i \in 1..2 : q[i] = T[2 + i - 1]
    BY <2>1, SubSeqProperties
  <2>3. \A i \in 1..2 : i = 1 \/ i = 2 OBVIOUS
  <2> HIDE DEF P, q
  <2>4. \A i \in 1..2 : q[i] = P[i] BY <1>1, <2>2, <2>3
  <2>5. q = P BY <1>1, <2>2, <2>4, SeqEqual
  <2> QED BY <2>5 DEF q
<1>4. SubSeq(T, 3, 3) = O
  <2> DEFINE q == SubSeq(T, 3, 3)
  <2>1. \A i \in 3..3 : T[i] \in Units BY <1>1
  <2> HIDE DEF T
  <2>2. q \in Seq(Units) /\ Len(q) = 1 /\ \A i \in 1..1 : q[i] = T[3 + i - 1]
    BY <2>1, SubSeqProperties
  <2> HIDE DEF O, q
  <2>3. \A i \in 1..1 : q[i] = O[i] BY <1>1, <2>2
  <2>4. q = O BY <1>1, <2>2, <2>3, SeqEqual
  <2> QED BY <2>4 DEF q
<1>5. SubSeq(P, 2, 2) = O
  <2> DEFINE q == SubSeq(P, 2, 2)
  <2>1. \A i \in 2..2 : P[i] \in Units BY <1>1
  <2> HIDE DEF P
  <2>2. q \in Seq(Units) /\ Len(q) = 1 /\ \A i \in 1..1 : q[i] = P[2 + i - 1]
    BY <2>1, SubSeqProperties
  <2> HIDE DEF O, q
  <2>3. \A i \in 1..1 : q[i] = O[i] BY <1>1, <2>2
  <2>4. q = O BY <1>1, <2>2, <2>3, SeqEqual
  <2> QED BY <2>4 DEF q
<1> QED BY <1>2, <1>3, <1>4, <1>5

(* What the first k characters have told a reading that began at start: up to  *)
(* the last unit the segments of x, y and z, then digits.                      *)
SoFar(t, k, acc, start, count, x, y, z) ==
  \E a, b, c \in 0..k :
    /\ Segment(t, 0, a, x) /\ Segment(t, a, b, y) /\ Segment(t, b, c, z)
    /\ acc.total = start + (Worth(t, 0, a, x) + Worth(t, a, b, y) + Worth(t, b, c, z))
    /\ \/ acc.units = <<x, y, z>> /\ count = 3 /\ a = 0 /\ b = 0 /\ c = 0
       \/ acc.units = <<y, z>> /\ b = a /\ c = a
       \/ acc.units = <<z>> /\ c = b
       \/ acc.units = << >>
    /\ count = 3 \/ a = 0
    /\ IF c = k THEN acc.digits = NoDigits
       ELSE Number(SubSeq(t, c + 1, k)) /\ acc.digits = NumberOf(SubSeq(t, c + 1, k))

LEMMA SoFarOn ==
  ASSUME NEW t \in Seq(STRING), NEW k \in 0..(Len(t) - 1), NEW acc \in Reading,
         NEW start \in Nat, NEW count \in {2, 3},
         NEW x \in Units, NEW y \in Units, NEW z \in Units, x # y, y # z, x # z,
         SoFar(t, k, acc, start, count, x, y, z), ReadChar(acc, t[k + 1]).why = "ok"
  PROVE  SoFar(t, k + 1, ReadChar(acc, t[k + 1]), start, count, x, y, z)
<1> DEFINE d == t[k + 1]
           next == ReadChar(acc, d)
<1>1. /\ Len(t) \in Nat /\ k \in Nat /\ k + 1 \in 1..Len(t) /\ k + 1 \in 0..Len(t)
      /\ \A i \in 0..k : i \in 0..Len(t) /\ i \in 0..(k + 1) /\ i \in Nat
  BY LenProperties
<1>2. acc.why = "ok" /\ (d \in Range(Digits) \/ (d \in Range(acc.units) /\ acc.digits # NoDigits))
  BY ReadOn
<1>3. PICK a \in 0..k, b \in 0..k, c \in 0..k :
        /\ Segment(t, 0, a, x) /\ Segment(t, a, b, y) /\ Segment(t, b, c, z)
        /\ acc.total = start + (Worth(t, 0, a, x) + Worth(t, a, b, y) + Worth(t, b, c, z))
        /\ \/ acc.units = <<x, y, z>> /\ count = 3 /\ a = 0 /\ b = 0 /\ c = 0
           \/ acc.units = <<y, z>> /\ b = a /\ c = a
           \/ acc.units = <<z>> /\ c = b
           \/ acc.units = << >>
        /\ count = 3 \/ a = 0
        /\ IF c = k THEN acc.digits = NoDigits
           ELSE Number(SubSeq(t, c + 1, k)) /\ acc.digits = NumberOf(SubSeq(t, c + 1, k))
  BY DEF SoFar
<1>4. acc.total \in Nat /\ acc.digits \in Nat \cup {NoDigits} /\ acc.units \in Seq(Units)
  BY TextAssumption DEF Reading
<1>5. \/ c = k /\ acc.digits = NoDigits
      \/ c # k /\ Number(SubSeq(t, c + 1, k)) /\ acc.digits = NumberOf(SubSeq(t, c + 1, k))
  BY <1>3
<1>6. CASE d \in Range(Digits)
  <2>1. next = [acc EXCEPT !.digits = IF acc.digits = NoDigits THEN DigitOf(d)
                                      ELSE 10 * acc.digits + DigitOf(d)]
    BY <1>2, <1>6, ReadDigit
  <2>2. /\ Number(SubSeq(t, c + 1, k + 1)) /\ NumberOf(SubSeq(t, c + 1, k)) \in Nat
        /\ NumberOf(SubSeq(t, c + 1, k + 1))
             = IF c = k THEN DigitOf(d)
               ELSE 10 * NumberOf(SubSeq(t, c + 1, k)) + DigitOf(d)
    <3>1. c \in 0..Len(t) /\ k \in c..(Len(t) - 1) BY <1>1
    <3>2. c = k \/ Number(SubSeq(t, c + 1, k)) BY <1>3
    <3> HIDE DEF d
    <3>3. t[k + 1] \in Range(Digits) BY <1>6 DEF d
    <3> QED BY <3>1, <3>2, <3>3, DigitMore DEF d
  <2>3. /\ next.total = acc.total /\ next.units = acc.units
        /\ next.digits = IF acc.digits = NoDigits THEN DigitOf(d) ELSE 10 * acc.digits + DigitOf(d)
    BY <2>1 DEF Reading
  <2>4. c = k <=> acc.digits = NoDigits
    <3>1. NoDigits \notin Nat BY DEF NoDigits
    <3> QED BY <1>5, <2>2, <3>1
  <2>5. next.digits = NumberOf(SubSeq(t, c + 1, k + 1)) BY <1>5, <2>2, <2>3, <2>4
  <2>6. c # k + 1 BY <1>1
  <2> HIDE DEF next, d
  <2>7. SoFar(t, k + 1, next, start, count, x, y, z)
    BY <1>1, <1>3, <2>2, <2>3, <2>5, <2>6 DEF SoFar
  <2> QED BY <2>7 DEF next, d
<1>7. CASE d \notin Range(Digits)
  <2>1. c < k /\ Number(SubSeq(t, c + 1, k)) /\ acc.digits = NumberOf(SubSeq(t, c + 1, k))
        /\ acc.digits \in Nat
    <3>1. acc.digits # NoDigits BY <1>2, <1>7
    <3>2. c # k /\ Number(SubSeq(t, c + 1, k)) /\ acc.digits = NumberOf(SubSeq(t, c + 1, k))
      BY <1>5, <3>1
    <3>3. c \in 0..k /\ k \in Nat BY <1>1
    <3>4. c < k BY <3>2, <3>3
    <3> QED BY <1>4, <3>1, <3>2, <3>4
  <2>2. d \in Range(acc.units) BY <1>2, <1>7
  <2> DEFINE gain(u) == acc.digits * Scale[u]
  <2>3. /\ \A u : Segment(t, c, k + 1, u) <=> d = u
        /\ \A u : Worth(t, c, k + 1, u) = gain(u)
    <3>1. k + 1 > c + 1 /\ (k + 1) - 1 = k /\ k + 1 # c BY <1>1, <2>1
    <3> QED BY <2>1, <3>1 DEF Segment, Worth
  <2>4. \A i \in 0..(k + 1), u \in Units : Segment(t, i, i, u) /\ Worth(t, i, i, u) = 0
    BY DEF Segment, Worth
  <2>5. ASSUME NEW u \in Units, d = u, NEW p \in 1..Len(acc.units), acc.units[p] = u,
               \A q \in 1..Len(acc.units) : acc.units[q] = u => q = p
        PROVE  /\ next.total = acc.total + gain(u) /\ next.digits = NoDigits
               /\ next.units = SubSeq(acc.units, p + 1, Len(acc.units))
    <3>1. acc.digits # NoDigits BY <1>2, <1>7
    <3>2. next = ReadChar(acc, u) /\ next.why = "ok" BY <2>5
    <3>3. /\ acc.why = "ok" /\ acc.units[p] = u
          /\ \A q \in 1..Len(acc.units) : acc.units[q] = u => q = p
      BY <1>2, <2>5
    <3> HIDE DEF next, d
    <3>4. ReadChar(acc, u).why = "ok" =>
              /\ ReadChar(acc, u).total = acc.total + acc.digits * Scale[u]
              /\ ReadChar(acc, u).digits = NoDigits
              /\ ReadChar(acc, u).units = SubSeq(acc.units, p + 1, Len(acc.units))
      BY <3>1, <3>3, ReadUnit
    <3> QED BY <3>2, <3>4
  <2>6. /\ Worth(t, 0, a, x) \in Nat /\ Worth(t, a, b, y) \in Nat /\ Worth(t, b, c, z) \in Nat
        /\ \A u \in Units : gain(u) \in Nat
    <3>1. 0 \in 0..Len(t) BY <1>1
    <3>2. \A u \in Units : gain(u) \in Nat
      <4> TAKE u \in Units
      <4>1. PICK m \in Nat, n \in Nat : m = acc.digits /\ n = Scale[u]
        BY <2>1, UnitsAreNoDigits
      <4>2. m * n \in Nat OBVIOUS
      <4> QED BY <4>1, <4>2
    <3> QED BY <1>1, <1>3, <3>1, <3>2, WorthIs
  <2> HIDE DEF next, gain
  <2>7. CASE acc.units = <<x, y, z>>
    <3>1. Len(acc.units) = 3 /\ acc.units[1] = x /\ acc.units[2] = y /\ acc.units[3] = z
      BY <2>7
    <3>2. a = 0 /\ b = 0 /\ c = 0 /\ count = 3
      <4>1. Len(<<y, z>>) = 2 /\ Len(<<z>>) = 1 /\ Len(<< >>) = 0 OBVIOUS
      <4> QED BY <1>3, <3>1, <4>1
    <3>3. \A p \in 1..3 : p = 1 \/ p = 2 \/ p = 3 OBVIOUS
    <3>4. acc.total = start
      <4>1. Worth(t, 0, 0, x) = 0 /\ Worth(t, 0, 0, y) = 0 /\ Worth(t, 0, 0, z) = 0
        BY <1>1, <2>4
      <4> QED BY <1>3, <3>2, <4>1
    <3>5. CASE d = x
      <4>1. next.total = acc.total + gain(x) /\ next.digits = NoDigits
            /\ next.units = SubSeq(acc.units, 2, 3)
        <5>1. 1 \in 1..Len(acc.units) /\ 1 + 1 = 2 /\ acc.units[1] = x
              /\ \A q \in 1..Len(acc.units) : acc.units[q] = x => q = 1
          BY <3>1, <3>3
        <5>2. /\ next.total = acc.total + gain(x) /\ next.digits = NoDigits
              /\ next.units = SubSeq(acc.units, 1 + 1, Len(acc.units))
          BY <2>5, <5>1, <3>5
        <5> QED BY <3>1, <5>1, <5>2
      <4>2. next.units = <<y, z>>
        <5>1. SubSeq(<<x, y, z>>, 2, 3) = <<y, z>> BY UnitsLeft
        <5> QED BY <2>7, <4>1, <5>1, Zenon
      <4>3. /\ Segment(t, 0, k + 1, x) /\ Segment(t, k + 1, k + 1, y)
            /\ Segment(t, k + 1, k + 1, z)
            /\ Worth(t, k + 1, k + 1, y) = 0 /\ Worth(t, k + 1, k + 1, z) = 0
            /\ Worth(t, 0, k + 1, x) = gain(x)
        BY <1>1, <2>3, <2>4, <3>2, <3>5
      <4>4. next.total = start + (Worth(t, 0, k + 1, x) + Worth(t, k + 1, k + 1, y)
                                  + Worth(t, k + 1, k + 1, z))
        BY <2>6, <3>4, <4>1, <4>3
      <4>5. k + 1 \in 0..(k + 1) BY <1>1
      <4> QED BY <3>2, <4>1, <4>2, <4>3, <4>4, <4>5 DEF SoFar, next, d
    <3>6. CASE d = y
      <4>1. next.total = acc.total + gain(y) /\ next.digits = NoDigits
            /\ next.units = SubSeq(acc.units, 3, 3)
        <5>1. 2 \in 1..Len(acc.units) /\ 2 + 1 = 3 /\ acc.units[2] = y
              /\ \A q \in 1..Len(acc.units) : acc.units[q] = y => q = 2
          BY <3>1, <3>3
        <5>2. /\ next.total = acc.total + gain(y) /\ next.digits = NoDigits
              /\ next.units = SubSeq(acc.units, 2 + 1, Len(acc.units))
          BY <2>5, <5>1, <3>6
        <5> QED BY <3>1, <5>1, <5>2
      <4>2. next.units = <<z>>
        <5>1. SubSeq(<<x, y, z>>, 3, 3) = <<z>> BY UnitsLeft
        <5> QED BY <2>7, <4>1, <5>1, Zenon
      <4>3. /\ Segment(t, 0, k + 1, y) /\ Segment(t, k + 1, k + 1, z)
            /\ Worth(t, 0, 0, x) = 0 /\ Worth(t, k + 1, k + 1, z) = 0
            /\ Worth(t, 0, k + 1, y) = gain(y)
        BY <1>1, <2>3, <2>4, <3>2, <3>6
      <4>4. next.total = start + (Worth(t, 0, 0, x) + Worth(t, 0, k + 1, y)
                                  + Worth(t, k + 1, k + 1, z))
        BY <2>6, <3>4, <4>1, <4>3
      <4>5. k + 1 \in 0..(k + 1) /\ 0 \in 0..(k + 1) /\ Segment(t, 0, 0, x) BY <1>1, <2>4
      <4> QED BY <3>2, <4>1, <4>2, <4>3, <4>4, <4>5 DEF SoFar, next, d
    <3>7. CASE d = z
      <4>1. next.total = acc.total + gain(z) /\ next.digits = NoDigits
            /\ next.units = SubSeq(acc.units, 4, 3)
        <5>1. 3 \in 1..Len(acc.units) /\ 3 + 1 = 4 /\ acc.units[3] = z
              /\ \A q \in 1..Len(acc.units) : acc.units[q] = z => q = 3
          BY <3>1, <3>3
        <5>2. /\ next.total = acc.total + gain(z) /\ next.digits = NoDigits
              /\ next.units = SubSeq(acc.units, 3 + 1, Len(acc.units))
          BY <2>5, <5>1, <3>7
        <5> QED BY <3>1, <5>1, <5>2
      <4>2. next.units = << >> BY <2>7, <4>1, UnitsLeft
      <4>3. /\ Segment(t, 0, k + 1, z)
            /\ Worth(t, 0, 0, x) = 0 /\ Worth(t, 0, 0, y) = 0
            /\ Worth(t, 0, k + 1, z) = gain(z)
        BY <1>1, <2>3, <2>4, <3>2, <3>7
      <4>4. next.total = start + (Worth(t, 0, 0, x) + Worth(t, 0, 0, y) + Worth(t, 0, k + 1, z))
        BY <2>6, <3>4, <4>1, <4>3
      <4>5. /\ k + 1 \in 0..(k + 1) /\ 0 \in 0..(k + 1)
            /\ Segment(t, 0, 0, x) /\ Segment(t, 0, 0, y)
        BY <1>1, <2>4
      <4> QED BY <3>2, <4>1, <4>2, <4>3, <4>4, <4>5 DEF SoFar, next, d
    <3>8. d = x \/ d = y \/ d = z
      <4>1. DOMAIN acc.units = 1..3 BY <2>7
      <4>2. PICK p \in DOMAIN acc.units : acc.units[p] = d BY <2>2 DEF Range
      <4> QED BY <3>1, <3>3, <4>1, <4>2
    <3> QED BY <3>5, <3>6, <3>7, <3>8
  <2>8. CASE acc.units = <<y, z>>
    <3>1. Len(acc.units) = 2 /\ acc.units[1] = y /\ acc.units[2] = z
      BY <2>8
    <3>2. b = a /\ c = a
      <4>1. Len(<<x, y, z>>) = 3 /\ Len(<<z>>) = 1 /\ Len(<< >>) = 0 OBVIOUS
      <4> QED BY <1>3, <3>1, <4>1
    <3>3. \A p \in 1..2 : p = 1 \/ p = 2 OBVIOUS
    <3>4. acc.total = start + Worth(t, 0, a, x)
      <4>1. Worth(t, a, a, y) = 0 /\ Worth(t, a, a, z) = 0 BY <1>1, <2>4
      <4> QED BY <1>3, <2>6, <3>2, <4>1
    <3>5. CASE d = y
      <4>1. next.total = acc.total + gain(y) /\ next.digits = NoDigits
            /\ next.units = SubSeq(acc.units, 2, 2)
        <5>1. 1 \in 1..Len(acc.units) /\ 1 + 1 = 2 /\ acc.units[1] = y
              /\ \A q \in 1..Len(acc.units) : acc.units[q] = y => q = 1
          BY <3>1, <3>3
        <5>2. /\ next.total = acc.total + gain(y) /\ next.digits = NoDigits
              /\ next.units = SubSeq(acc.units, 1 + 1, Len(acc.units))
          BY <2>5, <5>1, <3>5
        <5> QED BY <3>1, <5>1, <5>2
      <4>2. next.units = <<z>>
        <5>1. SubSeq(<<y, z>>, 2, 2) = <<z>> BY UnitsLeft
        <5> QED BY <2>8, <4>1, <5>1, Zenon
      <4>3. /\ Segment(t, a, k + 1, y) /\ Segment(t, k + 1, k + 1, z)
            /\ Worth(t, k + 1, k + 1, z) = 0
            /\ Worth(t, a, k + 1, y) = gain(y)
        BY <1>1, <2>3, <2>4, <3>2, <3>5
      <4>4. next.total = start + (Worth(t, 0, a, x) + Worth(t, a, k + 1, y)
                                  + Worth(t, k + 1, k + 1, z))
        BY <2>6, <3>4, <4>1, <4>3
      <4>5. k + 1 \in 0..(k + 1) BY <1>1
      <4> QED BY <1>1, <1>3, <4>1, <4>2, <4>3, <4>4, <4>5 DEF SoFar, next, d
    <3>6. CASE d = z
      <4>1. next.total = acc.total + gain(z) /\ next.digits = NoDigits
            /\ next.units = SubSeq(acc.units, 3, 2)
        <5>1. 2 \in 1..Len(acc.units) /\ 2 + 1 = 3 /\ acc.units[2] = z
              /\ \A q \in 1..Len(acc.units) : acc.units[q] = z => q = 2
          BY <3>1, <3>3
        <5>2. /\ next.total = acc.total + gain(z) /\ next.digits = NoDigits
              /\ next.units = SubSeq(acc.units, 2 + 1, Len(acc.units))
          BY <2>5, <5>1, <3>6
        <5> QED BY <3>1, <5>1, <5>2
      <4>2. next.units = << >> BY <2>8, <4>1, UnitsLeft
      <4>3. /\ Segment(t, a, k + 1, z) /\ Segment(t, a, a, y) /\ Worth(t, a, a, y) = 0
            /\ Worth(t, a, k + 1, z) = gain(z)
        BY <1>1, <2>3, <2>4, <3>2, <3>6
      <4>4. next.total = start + (Worth(t, 0, a, x) + Worth(t, a, a, y) + Worth(t, a, k + 1, z))
        BY <2>6, <3>4, <4>1, <4>3
      <4>5. k + 1 \in 0..(k + 1) BY <1>1
      <4> QED BY <1>1, <1>3, <4>1, <4>2, <4>3, <4>4, <4>5 DEF SoFar, next, d
    <3>7. d = y \/ d = z
      <4>1. DOMAIN acc.units = 1..2 BY <2>8
      <4>2. PICK p \in DOMAIN acc.units : acc.units[p] = d BY <2>2 DEF Range
      <4> QED BY <3>1, <3>3, <4>1, <4>2
    <3> QED BY <3>5, <3>6, <3>7
  <2>9. CASE acc.units = <<z>>
    <3>1. Len(acc.units) = 1 /\ acc.units[1] = z
      BY <2>9
    <3>2. c = b
      <4>1. Len(<<x, y, z>>) = 3 /\ Len(<<y, z>>) = 2 /\ Len(<< >>) = 0 OBVIOUS
      <4> QED BY <1>3, <3>1, <4>1
    <3>3. \A p \in 1..1 : p = 1 OBVIOUS
    <3>4. acc.total = start + (Worth(t, 0, a, x) + Worth(t, a, b, y))
      <4>1. Worth(t, b, b, z) = 0 BY <1>1, <2>4
      <4> QED BY <1>3, <2>6, <3>2, <4>1
    <3>5. d = z
      <4>1. DOMAIN acc.units = 1..1 BY <2>9
      <4>2. PICK p \in DOMAIN acc.units : acc.units[p] = d BY <2>2 DEF Range
      <4> QED BY <3>1, <3>3, <4>1, <4>2
    <3>6. next.total = acc.total + gain(z) /\ next.digits = NoDigits
          /\ next.units = SubSeq(acc.units, 2, 1)
      <4>1. /\ 1 \in 1..Len(acc.units) /\ 1 + 1 = 2 /\ acc.units[1] = z
            /\ \A q \in 1..Len(acc.units) : acc.units[q] = z => q = 1
        BY <3>1, <3>3
      <4>2. /\ next.total = acc.total + gain(z) /\ next.digits = NoDigits
            /\ next.units = SubSeq(acc.units, 1 + 1, Len(acc.units))
        BY <2>5, <3>5, <4>1
      <4> QED BY <3>1, <4>1, <4>2
    <3>7. next.units = << >> BY <2>9, <3>6, UnitsLeft
    <3>8. Segment(t, b, k + 1, z) /\ Worth(t, b, k + 1, z) = gain(z)
      BY <2>3, <3>2, <3>5
    <3>9. next.total = start + (Worth(t, 0, a, x) + Worth(t, a, b, y) + Worth(t, b, k + 1, z))
      BY <2>6, <3>4, <3>6, <3>8
    <3>10. k + 1 \in 0..(k + 1) BY <1>1
    <3> QED BY <1>1, <1>3, <3>6, <3>7, <3>8, <3>9, <3>10 DEF SoFar, next, d
  <2>10. acc.units # << >>
    <3>1. \A u : u \notin Range(<< >>) BY DEF Range
    <3> QED BY <2>2, <3>1
  <2> QED BY <1>3, <2>7, <2>8, <2>9, <2>10
<1> QED BY <1>6, <1>7

(* A run of the reading over a text.                                           *)
ReadsOn(run, t) ==
  /\ run \in [0..Len(t) -> Reading]
  /\ \A k \in 1..Len(t) : run[k] = ReadChar(run[k - 1], t[k])

(* Digits are counted ...                                                      *)
LEMMA DigitsRead ==
  ASSUME NEW t \in Seq(STRING), NEW run, ReadsOn(run, t),
         NEW i \in 0..Len(t), NEW j \in 0..Len(t), j > i + 1, Number(SubSeq(t, i + 1, j - 1)),
         run[i].why = "ok", run[i].digits = NoDigits
  PROVE  /\ run[j - 1] \in Reading
         /\ run[j - 1].why = "ok" /\ run[j - 1].total = run[i].total
         /\ run[j - 1].units = run[i].units
         /\ run[j - 1].digits = NumberOf(SubSeq(t, i + 1, j - 1))
<1> DEFINE P(m) == /\ run[m].why = "ok" /\ run[m].total = run[i].total
                   /\ run[m].units = run[i].units
                   /\ \/ m = i /\ run[m].digits = NoDigits
                      \/ /\ m # i /\ Number(SubSeq(t, i + 1, m))
                         /\ run[m].digits = NumberOf(SubSeq(t, i + 1, m))
           S == {m \in Nat : m \in i..(j - 1) => P(m)}
<1>1. /\ Len(t) \in Nat /\ i \in Nat /\ j \in Nat /\ j <= Len(t)
      /\ \A k \in 1..Len(t) : t[k] \in STRING
  BY LenProperties
<1>2. \A m \in i..(j - 2) : t[m + 1] \in Range(Digits)
  <2> DEFINE s == SubSeq(t, i + 1, j - 1)
  <2>1. \A k \in (i + 1)..(j - 1) : t[k] \in STRING BY <1>1
  <2>2. s \in Seq(STRING) /\ Len(s) = j - 1 - i
        /\ \A k \in 1..(j - 1 - i) : s[k] = t[(i + 1) + k - 1]
    BY <1>1, <2>1, SubSeqProperties
  <2>3. Range(s) \subseteq Range(Digits) BY DEF Number
  <2> HIDE DEF s
  <2>4. DOMAIN s = 1..(j - 1 - i) BY <2>2, LenProperties
  <2> TAKE m \in i..(j - 2)
  <2>5. (m - i + 1) \in 1..(j - 1 - i) /\ (i + 1) + (m - i + 1) - 1 = m + 1 BY <1>1
  <2>6. s[m - i + 1] = t[m + 1] BY <2>2, <2>5
  <2>7. s[m - i + 1] \in Range(s) BY <2>4, <2>5 DEF Range
  <2> QED BY <2>3, <2>6, <2>7
<1>3. ASSUME NEW m \in i..(j - 2), P(m) PROVE P(m + 1)
  <2>1. m + 1 \in 1..Len(t) /\ (m + 1) - 1 = m /\ m \in i..(Len(t) - 1) /\ m \in 0..Len(t)
        /\ m + 1 # i
    BY <1>1
  <2>2. run[m] \in Reading /\ run[m + 1] = ReadChar(run[m], t[m + 1]) BY <2>1 DEF ReadsOn
  <2>3. t[m + 1] \in Range(Digits) BY <1>2
  <2>4. PICK acc \in Reading : acc = run[m] BY <2>2
  <2>5. PICK d \in Range(Digits) : d = t[m + 1] BY <2>3
  <2>6. run[m + 1] = [acc EXCEPT !.digits = IF acc.digits = NoDigits THEN DigitOf(d)
                                            ELSE 10 * acc.digits + DigitOf(d)]
    <3>1. acc.why = "ok" BY <1>3, <2>4
    <3>2. run[m + 1] = ReadChar(acc, d) BY <2>2, <2>4, <2>5
    <3> QED BY <3>1, <3>2, ReadDigit, Zenon
  <2>7. /\ run[m + 1].why = acc.why /\ run[m + 1].total = acc.total
        /\ run[m + 1].units = acc.units
        /\ run[m + 1].digits = IF acc.digits = NoDigits THEN DigitOf(d)
                               ELSE 10 * acc.digits + DigitOf(d)
    BY <2>6 DEF Reading
  <2>8. /\ Number(SubSeq(t, i + 1, m + 1)) /\ NumberOf(SubSeq(t, i + 1, m)) \in Nat
        /\ NumberOf(SubSeq(t, i + 1, m + 1))
             = IF i = m THEN DigitOf(t[m + 1])
               ELSE 10 * NumberOf(SubSeq(t, i + 1, m)) + DigitOf(t[m + 1])
    <3>1. i = m \/ Number(SubSeq(t, i + 1, m)) BY <1>3
    <3> HIDE DEF P
    <3> QED BY <2>1, <2>3, <3>1, DigitMore
  <2>9. NoDigits \notin Nat BY DEF NoDigits
  <2>10. run[m + 1].digits = NumberOf(SubSeq(t, i + 1, m + 1))
    BY <1>3, <2>4, <2>5, <2>7, <2>8, <2>9
  <2> QED BY <1>3, <2>1, <2>4, <2>7, <2>8, <2>10
<1>4. P(i) OBVIOUS
<1> HIDE DEF P
<1>5. \A m \in i..(j - 1) : P(m)
  <2> DEFINE T == {m \in Nat : i + m \in i..(j - 1) => P(i + m)}
  <2>1. 0 \in T
    <3>1. i + 0 = i BY <1>1
    <3> QED BY <1>4, <3>1
  <2>2. ASSUME NEW m \in Nat, m \in T PROVE m + 1 \in T
    <3> SUFFICES ASSUME i + (m + 1) \in i..(j - 1) PROVE P(i + (m + 1)) OBVIOUS
    <3>1. i + m \in i..(j - 2) /\ i + m \in i..(j - 1) /\ i + (m + 1) = (i + m) + 1 BY <1>1
    <3>2. P(i + m) BY <2>2, <3>1
    <3>3. P((i + m) + 1) BY <1>3, <3>1, <3>2
    <3> QED BY <3>1, <3>3
  <2> HIDE DEF T
  <2>3. Nat \subseteq T BY <2>1, <2>2, NatSetInduction
  <2> TAKE m \in i..(j - 1)
  <2>4. m - i \in Nat /\ i + (m - i) = m BY <1>1
  <2>5. m - i \in T BY <2>3, <2>4
  <2> QED BY <2>4, <2>5 DEF T
<1>6. j - 1 \in i..(j - 1) /\ j - 1 # i /\ j - 1 \in 0..Len(t) BY <1>1
<1>7. P(j - 1) BY <1>5, <1>6
<1>8. run[j - 1] \in Reading BY <1>6 DEF ReadsOn
<1> QED BY <1>6, <1>7, <1>8 DEF P

(* ... and a unit takes what they are worth.                                   *)
LEMMA SegmentRead ==
  ASSUME NEW t \in Seq(STRING), NEW run, ReadsOn(run, t),
         NEW i \in 0..Len(t), NEW j \in 0..Len(t), NEW u \in Units, Segment(t, i, j, u),
         run[i].why = "ok", run[i].digits = NoDigits,
         run[i].total + Worth(t, i, j, u) <= MaxSeconds,
         NEW p \in 1..Len(run[i].units), run[i].units[p] = u,
         \A q \in 1..Len(run[i].units) : run[i].units[q] = u => q = p
  PROVE  /\ run[j].why = "ok" /\ run[j].digits = NoDigits
         /\ run[j].total = run[i].total + Worth(t, i, j, u)
         /\ run[j].units = IF j = i THEN run[i].units
                           ELSE SubSeq(run[i].units, p + 1, Len(run[i].units))
<1>1. Len(t) \in Nat BY LenProperties
<1>2. CASE j = i
  <2>1. run[i].total \in Nat BY TextAssumption DEF ReadsOn, Reading
  <2>2. Worth(t, i, j, u) = 0 BY <1>2 DEF Worth
  <2> QED BY <1>2, <2>1, <2>2
<1>3. CASE j # i
  <2>1. j > i + 1 /\ t[j] = u /\ Number(SubSeq(t, i + 1, j - 1)) BY <1>3 DEF Segment
  <2>2. /\ run[j - 1] \in Reading
        /\ run[j - 1].why = "ok" /\ run[j - 1].total = run[i].total
        /\ run[j - 1].units = run[i].units
        /\ run[j - 1].digits = NumberOf(SubSeq(t, i + 1, j - 1))
    BY <2>1, DigitsRead
  <2>3. PICK acc \in Reading : acc = run[j - 1] BY <2>2
  <2>4. Worth(t, i, j, u) = acc.digits * Scale[u] BY <1>3, <2>2, <2>3 DEF Worth
  <2>5. acc.digits # NoDigits
    <3>1. PICK s : s = SubSeq(t, i + 1, j - 1) OBVIOUS
    <3>2. s \in Seq(STRING)
      <4>1. \A k \in (i + 1)..(j - 1) : t[k] \in STRING BY <1>1, LenProperties
      <4>2. i + 1 \in Int /\ j - 1 \in Int BY <1>1
      <4> QED BY <3>1, <4>1, <4>2, SubSeqProperties
    <3>3. Range(s) \subseteq Range(Digits) BY <2>1, <3>1 DEF Number
    <3>4. NumberOf(s) \in Nat BY <3>2, <3>3, NumberGrows
    <3> QED BY <2>2, <2>3, <3>1, <3>4 DEF NoDigits
  <2>6. run[j] = ReadChar(acc, u)
    <3>1. j \in 1..Len(t) BY <1>1, <2>1
    <3> QED BY <2>1, <2>3, <3>1 DEF ReadsOn
  <2>7. /\ acc.why = "ok" /\ acc.units = run[i].units /\ acc.total = run[i].total
    BY <2>2, <2>3
  <2>8. /\ p \in 1..Len(acc.units) /\ acc.units[p] = u
        /\ \A q \in 1..Len(acc.units) : acc.units[q] = u => q = p
    BY <2>7
  <2>9. /\ ReadChar(acc, u).why = "ok" <=> acc.total + acc.digits * Scale[u] <= MaxSeconds
        /\ ReadChar(acc, u).why = "ok" =>
              /\ ReadChar(acc, u).total = acc.total + acc.digits * Scale[u]
              /\ ReadChar(acc, u).digits = NoDigits
              /\ ReadChar(acc, u).units = SubSeq(acc.units, p + 1, Len(acc.units))
    BY <2>5, <2>7, <2>8, ReadUnit
  <2>10. acc.total + acc.digits * Scale[u] <= MaxSeconds BY <2>4, <2>7, Zenon
  <2>11. /\ ReadChar(acc, u).why = "ok" /\ ReadChar(acc, u).digits = NoDigits
         /\ ReadChar(acc, u).total = acc.total + acc.digits * Scale[u]
         /\ ReadChar(acc, u).units = SubSeq(acc.units, p + 1, Len(acc.units))
    BY <2>9, <2>10, Zenon
  <2> QED BY <1>3, <2>4, <2>6, <2>7, <2>11, Zenon
<1> QED BY <1>2, <1>3

(* The place of a unit among those left, and what is left behind it.           *)
Allows(units, u, x, y, z) ==
  \/ units = <<x, y, z>> /\ u \in {x, y, z}
  \/ units = <<y, z>> /\ u \in {y, z}
  \/ units = <<z>> /\ u = z

Behind(u, x, y, z) == IF u = x THEN <<y, z>> ELSE IF u = y THEN <<z>> ELSE << >>

LEMMA UnitPlace ==
  ASSUME NEW x \in Units, NEW y \in Units, NEW z \in Units, x # y, y # z, x # z,
         NEW units, NEW u, Allows(units, u, x, y, z)
  PROVE  \E p \in 1..Len(units) :
           /\ units[p] = u /\ \A q \in 1..Len(units) : units[q] = u => q = p
           /\ SubSeq(units, p + 1, Len(units)) = Behind(u, x, y, z)
<1>1. \A q \in 1..3 : q = 1 \/ q = 2 \/ q = 3 OBVIOUS
<1>2. \A q \in 1..2 : q = 1 \/ q = 2 OBVIOUS
<1>3. \A q \in 1..1 : q = 1 OBVIOUS
<1>4. 1 + 1 = 2 /\ 2 + 1 = 3 /\ 3 + 1 = 4 OBVIOUS
<1>5. CASE units = <<x, y, z>> /\ u \in {x, y, z}
  <2>1. Len(units) = 3 /\ units[1] = x /\ units[2] = y /\ units[3] = z BY <1>5
  <2>2. /\ SubSeq(units, 2, 3) = <<y, z>> /\ SubSeq(units, 3, 3) = <<z>>
        /\ SubSeq(units, 4, 3) = << >>
    BY <1>5, UnitsLeft, Zenon
  <2>3. PICK p \in 1..3 : units[p] = u BY <1>5, <2>1
  <2>4. \A q \in 1..3 : units[q] = u => q = p BY <1>1, <2>1, <2>3
  <2>5. SubSeq(units, p + 1, 3)
          = Behind(u, x, y, z)
    <3> USE DEF Behind
    <3>1. p = 1 \/ p = 2 \/ p = 3 BY <1>1
    <3>2. CASE p = 1
      <4>1. u = x BY <2>1, <2>3, <3>2
      <4> QED BY <1>4, <2>2, <3>2, <4>1
    <3>3. CASE p = 2
      <4>1. u = y BY <2>1, <2>3, <3>3
      <4> QED BY <1>4, <2>2, <3>3, <4>1
    <3>4. CASE p = 3
      <4>1. u = z BY <2>1, <2>3, <3>4
      <4> QED BY <1>4, <2>2, <3>4, <4>1
    <3> QED BY <3>1, <3>2, <3>3, <3>4
  <2> QED BY <2>1, <2>3, <2>4, <2>5, Zenon
<1>6. CASE units = <<y, z>> /\ u \in {y, z}
  <2>1. Len(units) = 2 /\ units[1] = y /\ units[2] = z BY <1>6
  <2>2. SubSeq(units, 2, 2) = <<z>> /\ SubSeq(units, 3, 2) = << >>
    BY <1>6, UnitsLeft, Zenon
  <2>3. PICK p \in 1..2 : units[p] = u BY <1>6, <2>1
  <2>4. \A q \in 1..2 : units[q] = u => q = p BY <1>2, <2>1, <2>3
  <2>5. SubSeq(units, p + 1, 2)
          = Behind(u, x, y, z)
    <3> USE DEF Behind
    <3>1. p = 1 \/ p = 2 BY <1>2
    <3>2. CASE p = 1
      <4>1. u = y BY <2>1, <2>3, <3>2
      <4> QED BY <1>4, <2>2, <3>2, <4>1
    <3>3. CASE p = 2
      <4>1. u = z BY <2>1, <2>3, <3>3
      <4> QED BY <1>4, <2>2, <3>3, <4>1
    <3> QED BY <3>1, <3>2, <3>3
  <2> QED BY <2>1, <2>3, <2>4, <2>5, Zenon
<1>7. CASE units = <<z>> /\ u = z
  <2>1. Len(units) = 1 /\ units[1] = z BY <1>7
  <2>2. SubSeq(units, 2, 1) = << >> BY <1>7, UnitsLeft, Zenon
  <2>3. PICK p \in 1..1 : units[p] = u BY <1>7, <2>1
  <2>4. p = 1 /\ \A q \in 1..1 : units[q] = u => q = p BY <1>3
  <2>5. SubSeq(units, p + 1, 1) = << >> BY <1>4, <2>2, <2>4
  <2>6. SubSeq(units, p + 1, 1) = Behind(u, x, y, z) BY <1>7, <2>5 DEF Behind
  <2> QED BY <1>7, <2>1, <2>3, <2>4, <2>6, Zenon
<1> QED BY <1>5, <1>6, <1>7 DEF Allows

WorthOf(t, a, b, x, y, z) == Worth(t, 0, a, x) + Worth(t, a, b, y) + Worth(t, b, Len(t), z)

Split(t, a, b, count, x, y, z) ==
  /\ Segment(t, 0, a, x) /\ Segment(t, a, b, y) /\ Segment(t, b, Len(t), z)
  /\ count = 3 \/ a = 0

(* So the next unit of those allowed is taken.                                 *)
TakesOver(run, i, j, worth, left) ==
  /\ run[j].why = "ok" /\ run[j].digits = NoDigits
  /\ run[j].total = run[i].total + worth
  /\ run[j].units = run[i].units \/ run[j].units = left

LEMMA UnitTaken ==
  ASSUME NEW t \in Seq(STRING), NEW run, ReadsOn(run, t),
         NEW x \in Units, NEW y \in Units, NEW z \in Units, x # y, y # z, x # z,
         NEW i \in 0..Len(t), NEW j \in 0..Len(t), NEW u \in Units, Segment(t, i, j, u),
         run[i].why = "ok", run[i].digits = NoDigits,
         run[i].total + Worth(t, i, j, u) <= MaxSeconds,
         Allows(run[i].units, u, x, y, z)
  PROVE  TakesOver(run, i, j, Worth(t, i, j, u), Behind(u, x, y, z))
<1>1. PICK units : units = run[i].units OBVIOUS
<1>2. Allows(units, u, x, y, z)
  BY <1>1, Zenon
<1>3. \E p \in 1..Len(units) :
        /\ units[p] = u /\ \A q \in 1..Len(units) : units[q] = u => q = p
        /\ SubSeq(units, p + 1, Len(units)) = Behind(u, x, y, z)
  BY <1>2, UnitPlace
<1>4. PICK p \in 1..Len(run[i].units) :
        /\ run[i].units[p] = u /\ \A q \in 1..Len(run[i].units) : run[i].units[q] = u => q = p
        /\ SubSeq(run[i].units, p + 1, Len(run[i].units)) = Behind(u, x, y, z)
  BY <1>1, <1>3, Zenon
<1>5. /\ run[j].why = "ok" /\ run[j].digits = NoDigits
      /\ run[j].total = run[i].total + Worth(t, i, j, u)
      /\ run[j].units = IF j = i THEN run[i].units
                        ELSE SubSeq(run[i].units, p + 1, Len(run[i].units))
  BY <1>4, SegmentRead
<1> QED BY <1>4, <1>5, Zenon DEF TakesOver

(* A text is read from its first character on.                                 *)
LEMMA TextRuns ==
  ASSUME NEW t \in Seq(STRING), NEW acc \in Reading, NEW units \in Seq(Units)
  PROVE  \E run :
           /\ ReadsOn(run, t)
           /\ run[0].why = acc.why /\ run[0].digits = acc.digits
           /\ run[0].total = acc.total /\ run[0].units = units
           /\ ReadPart(acc, t, units) = EndOfPart(run[Len(t)])
<1>1. PICK n \in Nat : n = Len(t) BY LenProperties
<1>2. DOMAIN t = 1..n BY <1>1, LenProperties
<1>3. PICK run \in [0..n -> Reading] : RunsOver(run, acc, t, n, units) BY <1>2, PartRuns
<1>4. ReadsOn(run, t) BY <1>1, <1>3 DEF ReadsOn, RunsOver
<1>5. /\ run[0].why = acc.why /\ run[0].digits = acc.digits
      /\ run[0].total = acc.total /\ run[0].units = units
  BY <1>3 DEF Reading, RunsOver
<1>6. ReadPart(acc, t, units) = EndOfPart(run[Len(t)]) BY <1>1, <1>3 DEF RunsOver
<1> QED BY <1>4, <1>5, <1>6

PartMeans(t, acc, end, count, x, y, z) ==
  /\ end.why = "ok" =>
       /\ end.digits = NoDigits
       /\ \E a, b \in 0..Len(t) :
            Split(t, a, b, count, x, y, z) /\ end.total = acc.total + WorthOf(t, a, b, x, y, z)
  /\ \A a, b \in 0..Len(t) :
       Split(t, a, b, count, x, y, z) /\ acc.total + WorthOf(t, a, b, x, y, z) <= MaxSeconds
         => end.why = "ok" /\ end.total = acc.total + WorthOf(t, a, b, x, y, z)

(* A part is read as its units say, and only then.                             *)
LEMMA PartTells ==
  ASSUME NEW t \in Seq(STRING), NEW acc \in Reading, acc.why = "ok", acc.digits = NoDigits,
         NEW count \in {2, 3},
         NEW x \in Units, NEW y \in Units, NEW z \in Units, x # y, y # z, x # z,
         NEW units, units = IF count = 3 THEN <<x, y, z>> ELSE <<y, z>>,
         NEW end, end = ReadPart(acc, t, units)
  PROVE  PartMeans(t, acc, end, count, x, y, z)
<1> DEFINE n == Len(t)
<1>1. n \in Nat /\ DOMAIN t = 1..n /\ 0 \in 0..n /\ n \in 0..n BY LenProperties
<1>2. units \in Seq(Units)
  <2>1. <<x, y, z>> \in Seq(Units) /\ <<y, z>> \in Seq(Units) OBVIOUS
  <2> QED BY <2>1
<1>3. PICK run :
        /\ ReadsOn(run, t)
        /\ run[0].why = acc.why /\ run[0].digits = acc.digits
        /\ run[0].total = acc.total /\ run[0].units = units
        /\ ReadPart(acc, t, units) = EndOfPart(run[n])
  BY <1>2, TextRuns
<1> HIDE DEF n
<1>4. /\ ReadsOn(run, t) /\ run \in [0..n -> Reading]
      /\ \A k \in 1..n : run[k] = ReadChar(run[k - 1], t[k])
  BY <1>3 DEF ReadsOn, n
<1>5. /\ run[0].why = "ok" /\ run[0].digits = NoDigits /\ run[0].total = acc.total
      /\ run[0].units = units
  BY <1>3
<1>6. acc.total \in Nat BY TextAssumption DEF Reading
<1>7. \A k \in 0..n : run[k] \in Reading BY <1>4
<1>8. /\ end.why = "ok" <=> run[n].why = "ok" /\ run[n].digits = NoDigits
      /\ end.why = "ok" => end = run[n]
  <2>1. PICK r \in Reading : r = run[n] BY <1>1, <1>7
  <2>2. end = IF r.why = "ok" /\ r.digits # NoDigits THEN [r EXCEPT !.why = "Malformed"] ELSE r
    BY <1>3, <2>1 DEF EndOfPart
  <2>3. [r EXCEPT !.why = "Malformed"].why = "Malformed" BY DEF Reading
  <2>4. end.why = "ok" <=> r.why = "ok" /\ r.digits = NoDigits BY <2>2, <2>3
  <2>5. end.why = "ok" => end = r BY <2>2, <2>3
  <2> QED BY <2>1, <2>4, <2>5
<1>9. ASSUME end.why = "ok"
      PROVE  /\ end.digits = NoDigits
             /\ \E a, b \in 0..n :
                  Split(t, a, b, count, x, y, z) /\ end.total = acc.total + WorthOf(t, a, b, x, y, z)
  <2> DEFINE T(k) == run[k].why = "ok" => SoFar(t, k, run[k], acc.total, count, x, y, z)
             S == {k \in Nat : k \in 0..n => T(k)}
  <2>1. T(0)
    <3>1. \A u \in Units : Segment(t, 0, 0, u) /\ Worth(t, 0, 0, u) = 0 BY DEF Segment, Worth
    <3>2. acc.total = acc.total + (Worth(t, 0, 0, x) + Worth(t, 0, 0, y) + Worth(t, 0, 0, z))
      BY <1>6, <3>1
    <3>3. 0 \in 0..0 OBVIOUS
    <3>4. \/ units = <<x, y, z>> /\ count = 3
          \/ units = <<y, z>>
      OBVIOUS
    <3> QED BY <1>5, <3>1, <3>2, <3>3, <3>4 DEF SoFar
  <2>2. ASSUME NEW k \in Nat, k + 1 \in 0..n, T(k) PROVE T(k + 1)
    <3> SUFFICES ASSUME run[k + 1].why = "ok"
                 PROVE  SoFar(t, k + 1, run[k + 1], acc.total, count, x, y, z)
      OBVIOUS
    <3>1. k \in 0..(n - 1) /\ k \in 0..n /\ k + 1 \in 1..n /\ (k + 1) - 1 = k BY <1>1, <2>2
    <3>2. PICK r \in Reading : r = run[k] BY <1>7, <3>1
    <3>3. run[k + 1] = ReadChar(r, t[k + 1]) BY <1>4, <3>1, <3>2
    <3>4. r.why = "ok" BY <3>3, ReadOn
    <3>5. SoFar(t, k, r, acc.total, count, x, y, z) BY <2>2, <3>2, <3>4
    <3>6. k \in 0..(Len(t) - 1) BY <3>1 DEF n
    <3>7. ReadChar(r, t[k + 1]).why = "ok" BY <3>3
    <3>8. SoFar(t, k + 1, ReadChar(r, t[k + 1]), acc.total, count, x, y, z)
      BY <1>6, <3>5, <3>6, <3>7, SoFarOn
    <3> QED BY <3>3, <3>8
  <2> HIDE DEF T
  <2>3. T(n)
    <3>1. 0 \in S BY <2>1
    <3>2. ASSUME NEW k \in Nat, k \in S PROVE k + 1 \in S
      <4> SUFFICES ASSUME k + 1 \in 0..n PROVE T(k + 1) OBVIOUS
      <4>1. k \in 0..n BY <1>1
      <4>2. T(k) BY <3>2, <4>1
      <4> QED BY <2>2, <4>2
    <3> HIDE DEF S
    <3>3. Nat \subseteq S BY <3>1, <3>2, NatSetInduction
    <3>4. n \in S BY <1>1, <3>3
    <3> QED BY <1>1, <3>4 DEF S
  <2>4. SoFar(t, n, run[n], acc.total, count, x, y, z) /\ run[n].digits = NoDigits
        /\ end = run[n]
    BY <1>8, <1>9, <2>3 DEF T
  <2>5. PICK a \in 0..n, b \in 0..n, c \in 0..n :
          /\ Segment(t, 0, a, x) /\ Segment(t, a, b, y) /\ Segment(t, b, c, z)
          /\ run[n].total = acc.total
               + (Worth(t, 0, a, x) + Worth(t, a, b, y) + Worth(t, b, c, z))
          /\ count = 3 \/ a = 0
          /\ IF c = n THEN run[n].digits = NoDigits
             ELSE Number(SubSeq(t, c + 1, n)) /\ run[n].digits = NumberOf(SubSeq(t, c + 1, n))
    BY <2>4 DEF SoFar
  <2>6. c = n
    <3> SUFFICES ASSUME c # n PROVE FALSE OBVIOUS
    <3>1. PICK s : s = SubSeq(t, c + 1, n) OBVIOUS
    <3>2. s \in Seq(STRING)
      <4>1. \A k \in (c + 1)..n : t[k] \in STRING BY <1>1, LenProperties
      <4>2. c + 1 \in Int /\ n \in Int BY <1>1
      <4> QED BY <3>1, <4>1, <4>2, SubSeqProperties
    <3>3. Range(s) \subseteq Range(Digits) /\ run[n].digits = NumberOf(s)
      BY <2>5, <3>1 DEF Number
    <3>4. NumberOf(s) \in Nat BY <3>2, <3>3, NumberGrows
    <3> QED BY <2>4, <3>3, <3>4 DEF NoDigits
  <2>7. Split(t, a, b, count, x, y, z) /\ end.total = acc.total + WorthOf(t, a, b, x, y, z)
    BY <2>4, <2>5, <2>6 DEF Split, WorthOf, n
  <2> QED BY <2>4, <2>7
<1>10. ASSUME NEW a \in 0..n, NEW b \in 0..n, Split(t, a, b, count, x, y, z),
              acc.total + WorthOf(t, a, b, x, y, z) <= MaxSeconds
       PROVE  end.why = "ok" /\ end.total = acc.total + WorthOf(t, a, b, x, y, z)
  <2> DEFINE A == Worth(t, 0, a, x)
             B == Worth(t, a, b, y)
             C == Worth(t, b, n, z)
  <2>1. /\ Segment(t, 0, a, x) /\ Segment(t, a, b, y) /\ Segment(t, b, n, z)
        /\ count = 3 \/ a = 0
        /\ a \in 0..Len(t) /\ b \in 0..Len(t) /\ n \in 0..Len(t) /\ 0 \in 0..Len(t)
    BY <1>1, <1>10 DEF Split, n
  <2>2. A \in Nat /\ B \in Nat /\ C \in Nat /\ MaxSeconds \in Nat
        /\ WorthOf(t, a, b, x, y, z) = A + B + C
    BY <2>1, WorthIs, TextAssumption DEF WorthOf, n
  <2> HIDE DEF A, B, C
  <2>3. acc.total + A <= MaxSeconds /\ (acc.total + A) + B <= MaxSeconds
        /\ ((acc.total + A) + B) + C <= MaxSeconds
    BY <1>6, <1>10, <2>2
  <2>4. /\ run[a].why = "ok" /\ run[a].digits = NoDigits /\ run[a].total = acc.total + A
        /\ \/ run[a].units = <<x, y, z>> \/ run[a].units = <<y, z>>
    <3>1. CASE count = 3
      <4>1. run[0].units = <<x, y, z>> BY <1>5, <3>1
      <4>2. run[0].total + Worth(t, 0, a, x) <= MaxSeconds BY <1>5, <2>3 DEF A
      <4>3. TakesOver(run, 0, a, Worth(t, 0, a, x), Behind(x, x, y, z))
        <5>1. Allows(run[0].units, x, x, y, z) BY <4>1 DEF Allows
        <5>2. Segment(t, 0, a, x) /\ a \in 0..Len(t) /\ 0 \in 0..Len(t) BY <2>1
        <5> QED BY <1>4, <1>5, <4>2, <5>1, <5>2, UnitTaken
      <4> QED BY <1>5, <4>1, <4>3 DEF A, Behind, TakesOver
    <3>2. CASE count = 2
      <4>1. a = 0 /\ units = <<y, z>> BY <2>1, <3>2
      <4>2. A = 0 BY <4>1 DEF A, Worth
      <4> QED BY <1>5, <1>6, <4>1, <4>2
    <3> QED BY <3>1, <3>2
  <2>5. /\ run[b].why = "ok" /\ run[b].digits = NoDigits /\ run[b].total = acc.total + A + B
        /\ \/ run[b].units = <<x, y, z>> \/ run[b].units = <<y, z>> \/ run[b].units = <<z>>
    <3>1. Allows(run[a].units, y, x, y, z) BY <2>4 DEF Allows
    <3>2. run[a].total + Worth(t, a, b, y) <= MaxSeconds BY <2>3, <2>4 DEF B
    <3>3. TakesOver(run, a, b, Worth(t, a, b, y), Behind(y, x, y, z))
      <4>1. Segment(t, a, b, y) /\ a \in 0..Len(t) /\ b \in 0..Len(t) BY <2>1
      <4>2. run[a].why = "ok" /\ run[a].digits = NoDigits BY <2>4
      <4> QED BY <1>4, <3>1, <3>2, <4>1, <4>2, UnitTaken
    <3>4. run[b].total = acc.total + A + B BY <2>4, <3>3 DEF B, TakesOver
    <3>5. run[b].units = run[a].units \/ run[b].units = <<z>> BY <3>3 DEF Behind, TakesOver
    <3> QED BY <2>4, <3>3, <3>4, <3>5 DEF TakesOver
  <2>6. run[n].why = "ok" /\ run[n].digits = NoDigits /\ run[n].total = acc.total + A + B + C
    <3>1. Allows(run[b].units, z, x, y, z) BY <2>5 DEF Allows
    <3>2. run[b].total + Worth(t, b, n, z) <= MaxSeconds BY <2>3, <2>5 DEF C
    <3>3. TakesOver(run, b, n, Worth(t, b, n, z), Behind(z, x, y, z))
      <4>1. Segment(t, b, n, z) /\ b \in 0..Len(t) /\ n \in 0..Len(t) BY <2>1
      <4>2. run[b].why = "ok" /\ run[b].digits = NoDigits BY <2>5
      <4> QED BY <1>4, <3>1, <3>2, <4>1, <4>2, UnitTaken
    <3> QED BY <2>5, <3>3 DEF C, TakesOver
  <2>7. acc.total + A + B + C = acc.total + WorthOf(t, a, b, x, y, z) BY <1>6, <2>2
  <2> QED BY <1>8, <2>6, <2>7
<1> QED BY <1>9, <1>10 DEF n, PartMeans

(* What a part is read as holds nothing but digits and its units.              *)
LEMMA SegmentChars ==
  ASSUME NEW t \in Seq(STRING), NEW i \in 0..Len(t), NEW j \in 0..Len(t), NEW u \in Units,
         Segment(t, i, j, u)
  PROVE  \A k \in (i + 1)..j : t[k] \in Range(Digits) \cup {u}
<1>1. Len(t) \in Nat /\ \A k \in 1..Len(t) : t[k] \in STRING BY LenProperties
<1>2. CASE j = i BY <1>1, <1>2
<1>3. CASE j # i
  <2>1. j > i + 1 /\ t[j] = u /\ Number(SubSeq(t, i + 1, j - 1)) BY <1>3 DEF Segment
  <2> DEFINE s == SubSeq(t, i + 1, j - 1)
  <2>2. \A k \in (i + 1)..(j - 1) : t[k] \in STRING BY <1>1
  <2>3. s \in Seq(STRING) /\ Len(s) = j - 1 - i
        /\ \A k \in 1..(j - 1 - i) : s[k] = t[(i + 1) + k - 1]
    BY <1>1, <2>1, <2>2, SubSeqProperties
  <2>4. Range(s) \subseteq Range(Digits) BY <2>1 DEF Number
  <2> HIDE DEF s
  <2>5. DOMAIN s = 1..(j - 1 - i) BY <2>3, LenProperties
  <2> TAKE k \in (i + 1)..j
  <2>6. CASE k = j BY <2>1, <2>6
  <2>7. CASE k # j
    <3>1. k - i \in 1..(j - 1 - i) /\ (i + 1) + (k - i) - 1 = k BY <1>1, <2>7
    <3>2. s[k - i] = t[k] BY <2>3, <3>1
    <3>3. s[k - i] \in Range(s) BY <2>5, <3>1 DEF Range
    <3> QED BY <2>4, <3>2, <3>3
  <2> QED BY <2>6, <2>7
<1> QED BY <1>2, <1>3

LEMMA OneUnitChars ==
  ASSUME NEW t \in Seq(STRING), NEW u \in Units, NEW n \in Readings(t, <<u>>)
  PROVE  /\ n \in Nat /\ \A k \in 1..Len(t) : t[k] \in Range(Digits) \cup {u}
         /\ Len(t) # 0 => t[Len(t)] = u
<1>1. Len(t) \in Nat /\ 0 \in 0..Len(t) /\ Len(t) \in 0..Len(t) BY LenProperties
<1>2. Segment(t, 0, Len(t), u) /\ n = Worth(t, 0, Len(t), u) BY OneUnit
<1>3. n \in Nat BY <1>1, <1>2, WorthIs
<1>4. \A k \in (0 + 1)..Len(t) : t[k] \in Range(Digits) \cup {u} BY <1>1, <1>2, SegmentChars
<1>5. Len(t) # 0 => t[Len(t)] = u BY <1>2 DEF Segment
<1> QED BY <1>3, <1>4, <1>5

LEMMA ThreeUnitsChars ==
  ASSUME NEW t \in Seq(STRING), NEW x \in Units, NEW y \in Units, NEW z \in Units,
         NEW n \in Readings(t, <<x, y, z>>)
  PROVE  /\ n \in Nat /\ \A k \in 1..Len(t) : t[k] \in Range(Digits) \cup {x, y, z}
<1>1. Len(t) \in Nat /\ 0 \in 0..Len(t) /\ Len(t) \in 0..Len(t) BY LenProperties
<1>2. PICK a \in 0..Len(t), b \in 0..Len(t) :
        /\ Segment(t, 0, a, x) /\ Segment(t, a, b, y) /\ Segment(t, b, Len(t), z)
        /\ n = Worth(t, 0, a, x) + Worth(t, a, b, y) + Worth(t, b, Len(t), z)
  BY ThreeUnits DEF Reads
<1>3. /\ Worth(t, 0, a, x) \in Nat /\ Worth(t, a, b, y) \in Nat
      /\ Worth(t, b, Len(t), z) \in Nat
  BY <1>1, <1>2, WorthIs
<1>4. n \in Nat BY <1>2, <1>3
<1>5. /\ \A k \in (0 + 1)..a : t[k] \in Range(Digits) \cup {x}
      /\ \A k \in (a + 1)..b : t[k] \in Range(Digits) \cup {y}
      /\ \A k \in (b + 1)..Len(t) : t[k] \in Range(Digits) \cup {z}
  BY <1>1, <1>2, SegmentChars
<1>6. \A k \in 1..Len(t) : k \in (0 + 1)..a \/ k \in (a + 1)..b \/ k \in (b + 1)..Len(t)
  BY <1>1
<1> QED BY <1>4, <1>5, <1>6

(* The date of a duration, with one of its units or none.                      *)
NothingRead == [why |-> "ok", total |-> 0, digits |-> NoDigits, units |-> << >>]

LEMMA NothingReadIs == NothingRead \in Reading
<1>1. << >> \in Seq(Units) /\ 0 \in 0..MaxSeconds BY TextAssumption
<1> QED BY <1>1 DEF Reading, NoDigits, NothingRead

OneOf(t, u) == \A k \in 1..Len(t) : t[k] \in {"W", "D"} => t[k] = u

LEMMA DateTells ==
  ASSUME NEW t \in Seq(STRING), NEW u \in {"W", "D"},
         OneOf(t, u),
         NEW units, units = <<"W", "D">>, NEW end, end = ReadPart(NothingRead, t, units), NEW n
  PROVE  /\ end \in Reading /\ (end.why = "ok" => end.digits = NoDigits)
         /\ end.why = "ok" /\ end.total = n
              <=> n \in Readings(t, <<u>>) /\ n <= MaxSeconds
<1>1. Len(t) \in Nat /\ 0 \in 0..Len(t) /\ Len(t) \in 0..Len(t) /\ DOMAIN t = 1..Len(t)
  BY LenProperties
<1>2. /\ "H" \in Units /\ "W" \in Units /\ "D" \in Units /\ u \in Units BY DEF Units
<1>3. NothingRead.why = "ok" /\ NothingRead.digits = NoDigits /\ NothingRead.total = 0 BY DEF NothingRead
<1>4. /\ end.why = "ok" =>
              /\ end.digits = NoDigits
              /\ \E a, b \in 0..Len(t) :
                   /\ Split(t, a, b, 2, "H", "W", "D")
                   /\ end.total = NothingRead.total + WorthOf(t, a, b, "H", "W", "D")
      /\ \A a, b \in 0..Len(t) :
              Split(t, a, b, 2, "H", "W", "D") /\ NothingRead.total + WorthOf(t, a, b, "H", "W", "D") <= MaxSeconds
                => end.why = "ok" /\ end.total = NothingRead.total + WorthOf(t, a, b, "H", "W", "D")
  <2>1. units = IF 2 = 3 THEN <<"H", "W", "D">> ELSE <<"W", "D">> OBVIOUS
  <2>2. end = ReadPart(NothingRead, t, units) OBVIOUS
  <2>3. 2 \in {2, 3} /\ "H" # "W" /\ "W" # "D" /\ "H" # "D" OBVIOUS
  <2>4. PartMeans(t, NothingRead, end, 2, "H", "W", "D")
    BY <1>2, <1>3, <2>1, <2>2, <2>3, NothingReadIs, PartTells
  <2>5. ASSUME end.why = "ok"
        PROVE  /\ end.digits = NoDigits
               /\ \E a, b \in 0..Len(t) :
                    /\ Split(t, a, b, 2, "H", "W", "D")
                    /\ end.total = NothingRead.total + WorthOf(t, a, b, "H", "W", "D")
    BY <2>4, <2>5 DEF PartMeans
  <2>6. ASSUME NEW a \in 0..Len(t), NEW b \in 0..Len(t), Split(t, a, b, 2, "H", "W", "D"),
               NothingRead.total + WorthOf(t, a, b, "H", "W", "D") <= MaxSeconds
        PROVE  end.why = "ok" /\ end.total = NothingRead.total + WorthOf(t, a, b, "H", "W", "D")
    BY <2>4, <2>6 DEF PartMeans
  <2> QED BY <2>5, <2>6
<1>5. end \in Reading
  <2>1. <<"W", "D">> \in Seq(Units) BY <1>2
  <2>2. \E m \in Nat : DOMAIN t = 1..m BY <1>1
  <2> QED BY <2>1, <2>2, NothingReadIs, PartsStay
<1>6. \A k \in 0..Len(t), v \in Units : Segment(t, k, k, v) /\ Worth(t, k, k, v) = 0
  BY DEF Segment, Worth
<1>7. ASSUME end.why = "ok" PROVE end.total \in Readings(t, <<u>>) /\ end.total <= MaxSeconds
  <2>1. PICK a \in 0..Len(t), b \in 0..Len(t) :
          /\ Split(t, a, b, 2, "H", "W", "D")
          /\ end.total = NothingRead.total + WorthOf(t, a, b, "H", "W", "D")
    BY <1>4, <1>7
  <2>2. a = 0 /\ Segment(t, 0, b, "W") /\ Segment(t, b, Len(t), "D") BY <2>1 DEF Split
  <2>3. end.total = Worth(t, 0, b, "W") + Worth(t, b, Len(t), "D")
    <3>1. Worth(t, 0, b, "W") \in Nat /\ Worth(t, b, Len(t), "D") \in Nat
      BY <1>1, <1>2, <2>2, WorthIs
    <3>2. Worth(t, 0, 0, "H") = 0 BY <1>1, <1>2, <1>6
    <3>3. WorthOf(t, a, b, "H", "W", "D")
            = Worth(t, 0, 0, "H") + Worth(t, 0, b, "W") + Worth(t, b, Len(t), "D")
      BY <2>2 DEF WorthOf
    <3> QED BY <1>3, <2>1, <3>1, <3>2, <3>3
  <2>4. CASE u = "D"
    <3>1. b = 0
      <4> SUFFICES ASSUME b # 0 PROVE FALSE OBVIOUS
      <4>1. t[b] = "W" BY <2>2, Zenon DEF Segment
      <4>2. b \in 1..Len(t) BY <1>1
      <4>3. t[b] = u BY <4>1, <4>2 DEF OneOf
      <4> QED BY <2>4, <4>1, <4>3
    <3>2. Segment(t, 0, Len(t), "D") /\ end.total = Worth(t, 0, Len(t), "D")
      <4>1. Worth(t, 0, 0, "W") = 0 /\ Worth(t, 0, Len(t), "D") \in Nat
        BY <1>1, <1>2, <1>6, <2>2, <3>1, WorthIs
      <4> QED BY <2>2, <2>3, <3>1, <4>1
    <3>3. end.total \in Readings(t, <<u>>) BY <1>2, <2>4, <3>2, OneUnit
    <3>4. end.total <= MaxSeconds BY <1>5, TextAssumption DEF Reading
    <3> QED BY <3>3, <3>4
  <2>5. CASE u = "W"
    <3>1. b = Len(t)
      <4> SUFFICES ASSUME b # Len(t) PROVE FALSE OBVIOUS
      <4>1. t[Len(t)] = "D" BY <2>2, Zenon DEF Segment
      <4>2. Len(t) \in 1..Len(t)
        <5>1. PICK m \in Nat : m = Len(t) BY <1>1
        <5> QED BY <2>1, <5>1
      <4>3. t[Len(t)] = u BY <4>1, <4>2 DEF OneOf
      <4> QED BY <2>5, <4>1, <4>3
    <3>2. Segment(t, 0, Len(t), "W") /\ end.total = Worth(t, 0, Len(t), "W")
      <4>1. Worth(t, Len(t), Len(t), "D") = 0 /\ Worth(t, 0, Len(t), "W") \in Nat
        BY <1>1, <1>2, <1>6, <2>2, <3>1, WorthIs
      <4> QED BY <2>2, <2>3, <3>1, <4>1
    <3>3. end.total \in Readings(t, <<u>>) BY <1>2, <2>5, <3>2, OneUnit
    <3>4. end.total <= MaxSeconds BY <1>5, TextAssumption DEF Reading
    <3> QED BY <3>3, <3>4
  <2> QED BY <2>4, <2>5
<1>8. ASSUME n \in Readings(t, <<u>>), n <= MaxSeconds PROVE end.why = "ok" /\ end.total = n
  <2>1. Segment(t, 0, Len(t), u) /\ n = Worth(t, 0, Len(t), u) /\ n \in Nat
    BY <1>2, <1>8, OneUnit, OneUnitChars
  <2>2. PICK b \in 0..Len(t) : b = IF u = "W" THEN Len(t) ELSE 0 BY <1>1
  <2>3. Segment(t, 0, b, "W") /\ Segment(t, b, Len(t), "D") /\ Segment(t, 0, 0, "H")
    BY <1>1, <1>2, <1>6, <2>1, <2>2
  <2>4. Worth(t, 0, 0, "H") = 0 /\ n = Worth(t, 0, b, "W") + Worth(t, b, Len(t), "D")
    <3>1. CASE u = "W"
      <4>1. Worth(t, Len(t), Len(t), "D") = 0 BY <1>1, <1>2, <1>6
      <4> QED BY <1>1, <1>2, <1>6, <2>1, <2>2, <3>1, <4>1
    <3>2. CASE u = "D"
      <4>1. Worth(t, 0, 0, "W") = 0 BY <1>1, <1>2, <1>6
      <4> QED BY <1>1, <1>2, <1>6, <2>1, <2>2, <3>2, <4>1
    <3> QED BY <3>1, <3>2
  <2>5. Split(t, 0, b, 2, "H", "W", "D") BY <2>3 DEF Split
  <2>6. NothingRead.total + WorthOf(t, 0, b, "H", "W", "D") = n
    <3>1. Worth(t, 0, b, "W") \in Nat /\ Worth(t, b, Len(t), "D") \in Nat
      BY <1>1, <1>2, <2>3, WorthIs
    <3> QED BY <1>3, <2>4, <3>1 DEF WorthOf
  <2> QED BY <1>1, <1>4, <1>8, <2>5, <2>6
<1> QED BY <1>4, <1>5, <1>7, <1>8

(* Its time adds to it.                                                        *)
LEMMA TimeTells ==
  ASSUME NEW t \in Seq(STRING), NEW acc \in Reading, acc.why = "ok", acc.digits = NoDigits,
         NEW units, units = <<"H", "M", "S">>, NEW end, end = ReadPart(acc, t, units), NEW n
  PROVE  end.why = "ok" /\ end.total = n
           <=> /\ n <= MaxSeconds
               /\ \E m \in Readings(t, units) : n = acc.total + m
<1>1. Len(t) \in Nat /\ DOMAIN t = 1..Len(t) BY LenProperties
<1>2. "H" \in Units /\ "M" \in Units /\ "S" \in Units BY DEF Units
<1>3. /\ end.why = "ok" =>
              /\ end.digits = NoDigits
              /\ \E a, b \in 0..Len(t) :
                   /\ Split(t, a, b, 3, "H", "M", "S")
                   /\ end.total = acc.total + WorthOf(t, a, b, "H", "M", "S")
      /\ \A a, b \in 0..Len(t) :
              Split(t, a, b, 3, "H", "M", "S") /\ acc.total + WorthOf(t, a, b, "H", "M", "S") <= MaxSeconds
                => end.why = "ok" /\ end.total = acc.total + WorthOf(t, a, b, "H", "M", "S")
  <2>1. units = IF 3 = 3 THEN <<"H", "M", "S">> ELSE <<"M", "S">> OBVIOUS
  <2>2. end = ReadPart(acc, t, units) OBVIOUS
  <2>3. 3 \in {2, 3} /\ "H" # "M" /\ "M" # "S" /\ "H" # "S" OBVIOUS
  <2>4. PartMeans(t, acc, end, 3, "H", "M", "S")
    BY <1>2, <2>1, <2>2, <2>3, PartTells
  <2>5. ASSUME end.why = "ok"
        PROVE  /\ end.digits = NoDigits
               /\ \E a, b \in 0..Len(t) :
                    /\ Split(t, a, b, 3, "H", "M", "S")
                    /\ end.total = acc.total + WorthOf(t, a, b, "H", "M", "S")
    BY <2>4, <2>5 DEF PartMeans
  <2>6. ASSUME NEW a \in 0..Len(t), NEW b \in 0..Len(t), Split(t, a, b, 3, "H", "M", "S"),
               acc.total + WorthOf(t, a, b, "H", "M", "S") <= MaxSeconds
        PROVE  end.why = "ok" /\ end.total = acc.total + WorthOf(t, a, b, "H", "M", "S")
    BY <2>4, <2>6 DEF PartMeans
  <2> QED BY <2>5, <2>6
<1>4. end \in Reading
  <2>1. <<"H", "M", "S">> \in Seq(Units) BY <1>2
  <2>2. \E m \in Nat : DOMAIN t = 1..m BY <1>1
  <2> QED BY <2>1, <2>2, PartsStay
<1>5. \A m : m \in Readings(t, units)
        <=> \E a, b \in 0..Len(t) :
              Split(t, a, b, 3, "H", "M", "S") /\ m = WorthOf(t, a, b, "H", "M", "S")
  BY <1>2, ThreeUnits DEF Reads, Split, WorthOf
<1>6. ASSUME end.why = "ok"
      PROVE  /\ end.total <= MaxSeconds
             /\ \E m \in Readings(t, units) : end.total = acc.total + m
  <2>1. end.total <= MaxSeconds BY <1>4, TextAssumption DEF Reading
  <2> QED BY <1>3, <1>5, <1>6, <2>1
<1>7. ASSUME n <= MaxSeconds, NEW m \in Readings(t, units), n = acc.total + m
      PROVE  end.why = "ok" /\ end.total = n
  <2>1. PICK a \in 0..Len(t), b \in 0..Len(t) :
          Split(t, a, b, 3, "H", "M", "S") /\ m = WorthOf(t, a, b, "H", "M", "S")
    BY <1>5
  <2>2. acc.total + WorthOf(t, a, b, "H", "M", "S") <= MaxSeconds BY <1>7, <2>1
  <2> QED BY <1>3, <1>7, <2>1, <2>2
<1> QED BY <1>6, <1>7

(* The T of a duration is its first.                                           *)
Parted(s, cut) ==
  \/ cut = 0 /\ \A k \in 1..Len(s) : s[k] # "T"
  \/ cut \in 1..Len(s) /\ s[cut] = "T" /\ \A k \in 1..(cut - 1) : s[k] # "T"

LEMMA TimeBegins ==
  ASSUME NEW s \in Seq(STRING)
  PROVE  Parted(s, SelectInSeq(s, LAMBDA c : c = "T"))
<1> DEFINE I   == {i \in 1..Len(s) : s[i] = "T"}
           cut == SelectInSeq(s, LAMBDA c : c = "T")
<1>1. cut = IF I # {} THEN Min(I) ELSE 0 BY DEF SelectInSeq
<1>2. I # {} => Min(I) \in I /\ \A y \in I : Min(I) <= y
  <2>1. I \subseteq Nat OBVIOUS
  <2> HIDE DEF I
  <2> SUFFICES ASSUME I # {} PROVE Min(I) \in I /\ \A y \in I : Min(I) <= y
    OBVIOUS
  <2>2. \E m \in I : \A y \in I : m <= y BY <2>1, LeastOf
  <2> QED BY <2>2, Zenon DEF Min
<1>3. Len(s) \in Nat BY LenProperties
<1> HIDE DEF cut
<1>4. ASSUME I = {} PROVE Parted(s, cut)
  <2>1. \A k \in 1..Len(s) : s[k] # "T" BY <1>4
  <2> QED BY <1>1, <1>4, <2>1 DEF Parted
<1>5. ASSUME I # {} PROVE Parted(s, cut)
  <2>1. cut \in I /\ \A y \in I : cut <= y BY <1>1, <1>2, <1>5
  <2>2. cut \in 1..Len(s) /\ s[cut] = "T" BY <2>1
  <2>3. \A k \in 1..(cut - 1) : s[k] # "T"
    <3> TAKE k \in 1..(cut - 1)
    <3>1. k \in 1..Len(s) /\ ~(cut <= k) BY <1>3, <2>2
    <3> QED BY <2>1, <3>1
  <2> QED BY <2>2, <2>3 DEF Parted
<1>6. Parted(s, cut) BY <1>4, <1>5
<1> QED BY <1>6 DEF cut

(* What is read of a date and the time after it.                               *)
LEMMA NoTime == \A m : m \in Readings(<< >>, <<"H", "M", "S">>) <=> m = 0
<1> TAKE m
<1>1. PICK t \in Seq(STRING) : t = << >> BY EmptySeq
<1>2. Len(t) = 0 BY <1>1
<1>3. "H" \in Units /\ "M" \in Units /\ "S" \in Units BY DEF Units
<1>4. \A v \in Units : Segment(t, 0, 0, v) /\ Worth(t, 0, 0, v) = 0 BY DEF Segment, Worth
<1>5. m \in Readings(t, <<"H", "M", "S">>) <=> Reads(t, "H", "M", "S", m)
  BY <1>3, ThreeUnits
<1>6. Reads(t, "H", "M", "S", m) => m = 0
  <2> SUFFICES ASSUME Reads(t, "H", "M", "S", m) PROVE m = 0 OBVIOUS
  <2>1. PICK a \in 0..Len(t), b \in 0..Len(t) :
          m = Worth(t, 0, a, "H") + Worth(t, a, b, "M") + Worth(t, b, Len(t), "S")
    BY DEF Reads
  <2>2. a = 0 /\ b = 0 BY <1>2
  <2>3. m = Worth(t, 0, 0, "H") + Worth(t, 0, 0, "M") + Worth(t, 0, 0, "S") BY <1>2, <2>1, <2>2
  <2> QED BY <1>3, <1>4, <2>3
<1>7. m = 0 => Reads(t, "H", "M", "S", m)
  <2>1. 0 \in 0..Len(t) BY <1>2
  <2> QED BY <1>2, <1>3, <1>4, <2>1 DEF Reads
<1> QED BY <1>1, <1>5, <1>6, <1>7

ReadBoth(date, time) == ReadTime(ReadPart(NothingRead, date, <<"W", "D">>), time)

Tells(end, n) == end.why = "ok" /\ end.total = n

InParts(date, time, u, n) ==
  \E d \in Readings(date, <<u>>), m \in Readings(time, <<"H", "M", "S">>) : n = d + m

LEMMA BothTell ==
  ASSUME NEW date \in Seq(STRING), NEW time \in Seq(STRING), NEW u \in {"W", "D"},
         OneOf(date, u), NEW all, all = ReadBoth(date, time), NEW n
  PROVE  Tells(Total(all), n) <=> n <= MaxSeconds /\ InParts(date, time, u, n)
<1>1. PICK units : units = <<"W", "D">> OBVIOUS
<1>2. PICK hms : hms = <<"H", "M", "S">> OBVIOUS
<1>3. PICK read : read = ReadPart(NothingRead, date, units) OBVIOUS
<1>4. /\ read \in Reading /\ (read.why = "ok" => read.digits = NoDigits)
      /\ \A d : read.why = "ok" /\ read.total = d
                  <=> d \in Readings(date, <<u>>) /\ d <= MaxSeconds
  <2>1. read \in Reading BY <1>1, <1>3, DateTells
  <2>2. read.why = "ok" => read.digits = NoDigits BY <1>1, <1>3, DateTells
  <2>3. ASSUME NEW d
        PROVE  read.why = "ok" /\ read.total = d
                 <=> d \in Readings(date, <<u>>) /\ d <= MaxSeconds
    BY <1>1, <1>3, DateTells
  <2> QED BY <2>1, <2>2, <2>3
<1>5. all = IF read.why = "ok" THEN ReadPart(read, time, hms) ELSE read
  BY <1>1, <1>2, <1>3 DEF ReadBoth, ReadTime
<1>6. Total(all).why = all.why /\ (all.why = "ok" => Total(all).total = all.total) BY DEF Total
<1>7. Tells(Total(all), n) <=> all.why = "ok" /\ all.total = n BY <1>6 DEF Tells
<1>8. \A d \in Readings(date, <<u>>) : d \in Nat BY OneUnitChars DEF Units
<1>9. \A m \in Readings(time, hms) : m \in Nat BY <1>2, ThreeUnitsChars DEF Units
<1>10. InParts(date, time, u, n) <=> \E d \in Readings(date, <<u>>), m \in Readings(time, hms) : n = d + m
  BY <1>2 DEF InParts
<1>11. CASE read.why # "ok"
  <2>1. ASSUME NEW d \in Readings(date, <<u>>), NEW m \in Readings(time, hms),
               n <= MaxSeconds, n = d + m
        PROVE  FALSE
    <3>1. d <= MaxSeconds BY <1>8, <1>9, <2>1, TextAssumption
    <3> QED BY <1>4, <1>11, <3>1
  <2> QED BY <1>5, <1>7, <1>10, <1>11, <2>1
<1>12. CASE read.why = "ok"
  <2>1. all.why = "ok" /\ all.total = n
          <=> n <= MaxSeconds /\ \E m \in Readings(time, hms) : n = read.total + m
    <3>1. PICK end : end = ReadPart(read, time, hms) OBVIOUS
    <3>2. read \in Reading /\ read.why = "ok" /\ read.digits = NoDigits BY <1>4, <1>12
    <3>3. end.why = "ok" /\ end.total = n
            <=> n <= MaxSeconds /\ \E m \in Readings(time, hms) : n = read.total + m
      BY <1>2, <3>1, <3>2, TimeTells
    <3> QED BY <1>5, <1>12, <3>1, <3>3
  <2>2. read.total \in Readings(date, <<u>>) BY <1>4, <1>12
  <2>3. ASSUME NEW d \in Readings(date, <<u>>), NEW m \in Readings(time, hms),
               n <= MaxSeconds, n = d + m
        PROVE  d = read.total
    <3>1. d <= MaxSeconds BY <1>8, <1>9, <2>3, TextAssumption
    <3> QED BY <1>4, <3>1
  <2> QED BY <1>7, <1>10, <2>1, <2>2, <2>3
<1> QED BY <1>11, <1>12

(* The grammar, without a T and with one.                                      *)
LEMMA PlainReads ==
  ASSUME NEW t \in Seq(STRING), t # << >>, Head(t) = "P", NEW r, r = Tail(t),
         \A k \in 1..Len(r) : r[k] # "T", NEW n
  PROVE  n \in Grammar(t)
           <=> r # << >> /\ (n \in Readings(r, <<"W">>) \/ n \in Readings(r, <<"D">>))
<1>1. r \in Seq(STRING) /\ Len(r) \in Nat BY HeadTailProperties, LenProperties
<1>2. ~\E i \in 1..(Len(r) - 1) : r[i] = "T" BY <1>1
<1> QED BY <1>2 DEF Grammar

LEMMA TimedReads ==
  ASSUME NEW t \in Seq(STRING), t # << >>, Head(t) = "P", NEW r, r = Tail(t),
         NEW cut \in 1..Len(r), r[cut] = "T", \A k \in 1..(cut - 1) : r[k] # "T",
         NEW date, date = SubSeq(r, 1, cut - 1), NEW time, time = SubSeq(r, cut + 1, Len(r)),
         NEW n
  PROVE  n \in Grammar(t) <=> cut # Len(r) /\ InParts(date, time, "D", n)
<1>1. r \in Seq(STRING) /\ Len(r) \in Nat BY HeadTailProperties, LenProperties
<1>2. "W" \in Units /\ "D" \in Units /\ \A u \in Units : "T" \notin Range(Digits) \cup {u}
  BY DigitSet DEF Units
<1>3. \A u \in Units : \A m : m \notin Readings(r, <<u>>)
  <2> SUFFICES ASSUME NEW u \in Units, NEW m, m \in Readings(r, <<u>>) PROVE FALSE OBVIOUS
  <2>1. \A k \in 1..Len(r) : r[k] \in Range(Digits) \cup {u} BY <1>1, OneUnitChars
  <2> QED BY <1>2, <2>1
<1>4. r # << >>
  <2>1. Len(r) # 0 BY <1>1
  <2> QED BY <2>1
<1>5. ASSUME NEW i \in 1..(Len(r) - 1), r[i] = "T", NEW d \in Readings(SubSeq(r, 1, i - 1), <<"D">>)
      PROVE  i = cut
  <2>1. i >= cut
    <3> SUFFICES ASSUME i < cut PROVE FALSE BY <1>1
    <3>1. i \in 1..(cut - 1) BY <1>1
    <3> QED BY <1>5, <3>1
  <2>2. \A k \in 1..(i - 1) : r[k] \in STRING
    <3>1. \A k \in 1..Len(r) : r[k] \in STRING BY <1>1, LenProperties
    <3> QED BY <1>1, <3>1
  <2> DEFINE s == SubSeq(r, 1, i - 1)
  <2>3. s \in Seq(STRING) /\ Len(s) = i - 1 /\ \A k \in 1..(i - 1) : s[k] = r[1 + k - 1]
    BY <1>1, <2>2, SubSeqProperties
  <2> HIDE DEF s
  <2>4. \A k \in 1..Len(s) : s[k] \in Range(Digits) \cup {"D"}
    BY <1>2, <1>5, <2>3, OneUnitChars DEF s
  <2> SUFFICES ASSUME i # cut PROVE FALSE OBVIOUS
  <2>5. cut \in 1..(i - 1) /\ 1 + cut - 1 = cut BY <1>1, <2>1
  <2>6. s[cut] = "T" BY <2>3, <2>5
  <2> QED BY <1>2, <2>3, <2>4, <2>5, <2>6
<1>6. n \in Grammar(t)
        <=> \E i \in 1..(Len(r) - 1) :
              /\ r[i] = "T"
              /\ \E d \in Readings(SubSeq(r, 1, i - 1), <<"D">>),
                    m \in Readings(SubSeq(r, i + 1, Len(r)), <<"H", "M", "S">>) : n = d + m
  <2> DEFINE I == {i \in 1..(Len(r) - 1) : r[i] = "T"}
             Sums(i) == {d + m : d \in Readings(SubSeq(r, 1, i - 1), <<"D">>),
                                 m \in Readings(SubSeq(r, i + 1, Len(r)), <<"H", "M", "S">>)}
  <2>1. Grammar(t) = Readings(r, <<"W">>) \cup Readings(r, <<"D">>) \cup UNION {Sums(i) : i \in I}
    BY <1>4 DEF Grammar
  <2>2. n \notin Readings(r, <<"W">>) /\ n \notin Readings(r, <<"D">>) BY <1>2, <1>3
  <2>3. \A i \in I : n \in Sums(i)
          <=> \E d \in Readings(SubSeq(r, 1, i - 1), <<"D">>),
                 m \in Readings(SubSeq(r, i + 1, Len(r)), <<"H", "M", "S">>) : n = d + m
    <3> TAKE i \in I
    <3>1. PICK D : D = Readings(SubSeq(r, 1, i - 1), <<"D">>) OBVIOUS
    <3>2. PICK M : M = Readings(SubSeq(r, i + 1, Len(r)), <<"H", "M", "S">>) OBVIOUS
    <3>3. Sums(i) = {d + m : d \in D, m \in M} BY <3>1, <3>2
    <3>4. n \in {d + m : d \in D, m \in M} <=> \E d \in D, m \in M : n = d + m OBVIOUS
    <3> QED BY <3>1, <3>2, <3>3, <3>4
  <2> HIDE DEF Sums
  <2>4. n \in Grammar(t) <=> \E i \in I : n \in Sums(i) BY <2>1, <2>2
  <2>5. \A i : i \in I <=> i \in 1..(Len(r) - 1) /\ r[i] = "T" OBVIOUS
  <2> HIDE DEF I
  <2> QED BY <2>3, <2>4, <2>5
<1>7. cut # Len(r) <=> cut \in 1..(Len(r) - 1) BY <1>1
<1> QED BY <1>5, <1>6, <1>7 DEF InParts

(* The refusals of a duration, before it is read.                              *)
Marks == {".", ","}

Judged(rest, cut, date, time, all) ==
  IF Has(rest, Marks) THEN Refused("Fraction")
  ELSE IF Has(date, {"Y", "M"}) THEN Refused("MonthsOrYears")
  ELSE IF Has(date, {"H", "S"}) THEN Refused("MissingT")
  ELSE IF Has(date, {"W"}) /\ (Has(date, {"D"}) \/ cut # 0) THEN Refused("WeeksCombined")
  ELSE IF date = << >> /\ time = << >> THEN Refused("Empty")
  ELSE IF cut # 0 /\ time = << >> THEN Refused("Malformed")
  ELSE Total(all)

LEMMA HasIs ==
  ASSUME NEW s \in Seq(STRING), NEW chars
  PROVE  Has(s, chars) <=> \E k \in 1..Len(s) : s[k] \in chars
BY LenProperties DEF Has

Only(s, S) == \A k \in 1..Len(s) : s[k] \in S

LEMMA NoneOf ==
  ASSUME NEW s \in Seq(STRING), NEW S, Only(s, S), NEW chars, Has(s, chars)
  PROVE  \E c \in chars : c \in S
BY HasIs DEF Only

Letters == Range(Digits) \cup {"W", "D", "T", "H", "M", "S"}

LEMMA NoMark ==
  ASSUME NEW s \in Seq(STRING), NEW S \in SUBSET Letters, Only(s, S)
  PROVE  ~Has(s, Marks)
<1> SUFFICES ASSUME Has(s, Marks) PROVE FALSE OBVIOUS
<1>1. PICK c \in Marks : c \in S BY NoneOf
<1>2. c \in {"0", "1", "2", "3", "4", "5", "6", "7", "8", "9"} \cup {"W", "D", "T", "H", "M", "S"}
  BY <1>1, DigitSet DEF Letters
<1> QED BY <1>1, <1>2, Zenon DEF Marks

LEMMA PlainTells ==
  ASSUME NEW r \in Seq(STRING), NEW time, time = << >>,
         NEW all, all = ReadBoth(r, time), NEW n
  PROVE  Tells(Judged(r, 0, r, time, all), n)
           <=> /\ r # << >> /\ n <= MaxSeconds
               /\ \/ n \in Readings(r, <<"W">>)
                  \/ n \in Readings(r, <<"D">>)
<1>1. \A why : why # "ok" => Refused(why).why # "ok" BY DEF Refused
<1>2. Range(Digits) = {"0", "1", "2", "3", "4", "5", "6", "7", "8", "9"} BY DigitSet
<1>3. time \in Seq(STRING) BY EmptySeq
<1>4. ASSUME NEW u \in {"W", "D"}, NEW m, m \in Readings(r, <<u>>)
      PROVE  /\ m \in Nat /\ \A k \in 1..Len(r) : r[k] \in Range(Digits) \cup {u}
             /\ Len(r) # 0 => r[Len(r)] = u
  <2>1. u \in Units BY DEF Units
  <2> QED BY <1>4, <2>1, OneUnitChars
<1>5. \A chars : Has(r, chars) <=> \E k \in 1..Len(r) : r[k] \in chars BY HasIs
<1>6. CASE \/ Has(r, Marks) \/ Has(r, {"Y", "M"}) \/ Has(r, {"H", "S"})
           \/ (Has(r, {"W"}) /\ Has(r, {"D"})) \/ r = << >>
  <2>1. Judged(r, 0, r, time, all).why # "ok" BY <1>1, <1>6 DEF Judged
  <2>2. ASSUME NEW u \in {"W", "D"}, r # << >>, n \in Readings(r, <<u>>) PROVE FALSE
    <3>1. PICK S : S = Range(Digits) \cup {u} OBVIOUS
    <3>2. Only(r, S) BY <1>4, <2>2, <3>1 DEF Only
    <3>3. Has(r, {"W"}) => u = "W" BY <1>2, <3>1, <3>2, NoneOf
    <3>4. Has(r, {"D"}) => u = "D" BY <1>2, <3>1, <3>2, NoneOf
    <3>5. ~Has(r, Marks)
      <4>1. S \in SUBSET Letters BY <3>1 DEF Letters
      <4> QED BY <3>2, <4>1, NoMark
    <3>6. ~Has(r, {"Y", "M"}) BY <1>2, <3>1, <3>2, NoneOf
    <3>7. ~Has(r, {"H", "S"}) BY <1>2, <3>1, <3>2, NoneOf
    <3> QED BY <1>6, <2>2, <3>3, <3>4, <3>5, <3>6, <3>7
  <2> QED BY <2>1, <2>2 DEF Tells
<1>7. CASE ~\/ Has(r, Marks) \/ Has(r, {"Y", "M"}) \/ Has(r, {"H", "S"})
            \/ (Has(r, {"W"}) /\ Has(r, {"D"})) \/ r = << >>
  <2>1. Judged(r, 0, r, time, all) = Total(all) BY <1>7 DEF Judged
  <2>2. PICK u \in {"W", "D"} : u = IF Has(r, {"W"}) THEN "W" ELSE "D" OBVIOUS
  <2>3. OneOf(r, u)
    <3>1. \A k \in 1..Len(r) : r[k] = "W" => Has(r, {"W"}) BY <1>5
    <3>2. \A k \in 1..Len(r) : r[k] = "D" => Has(r, {"D"}) BY <1>5
    <3> QED BY <1>7, <2>2, <3>1, <3>2 DEF OneOf
  <2>4. Len(r) \in Nat /\ Len(r) # 0 BY <1>7, EmptySeq, LenProperties
  <2>5. \A v \in {"W", "D"} : \A m : m \in Readings(r, <<v>>) => v = u
    <3> SUFFICES ASSUME NEW v \in {"W", "D"}, NEW m, m \in Readings(r, <<v>>) PROVE v = u
      OBVIOUS
    <3>1. r[Len(r)] = v BY <1>4, <2>4
    <3> QED BY <2>3, <2>4, <3>1 DEF OneOf
  <2>6. Tells(Total(all), n)
          <=> n <= MaxSeconds /\ InParts(r, time, u, n)
    BY <1>3, <2>3, BothTell
  <2>7. \A m : m \in Readings(time, <<"H", "M", "S">>) <=> m = 0 BY NoTime
  <2>8. \A d \in Readings(r, <<u>>) : d + 0 = d
    <3> TAKE d \in Readings(r, <<u>>)
    <3>1. d \in Nat BY <1>4
    <3> QED BY <3>1
  <2>9. Tells(Total(all), n)
           <=> n <= MaxSeconds /\ n \in Readings(r, <<u>>)
    BY <2>6, <2>7, <2>8 DEF InParts
  <2>10. n \in Readings(r, <<"W">>) \/ n \in Readings(r, <<"D">>) <=> n \in Readings(r, <<u>>)
    BY <2>5
  <2> QED BY <1>7, <2>1, <2>9, <2>10
<1> QED BY <1>6, <1>7

TimeAt(r, cut, date, time) ==
  /\ cut \in 1..Len(r) /\ r[cut] = "T"
  /\ date = SubSeq(r, 1, cut - 1) /\ time = SubSeq(r, cut + 1, Len(r))

LEMMA TimedTells ==
  ASSUME NEW r \in Seq(STRING), NEW cut, NEW date, NEW time, TimeAt(r, cut, date, time),
         NEW all, all = ReadBoth(date, time),
         NEW n
  PROVE  Tells(Judged(r, cut, date, time, all), n)
           <=> cut # Len(r) /\ n <= MaxSeconds /\ InParts(date, time, "D", n)
<1>1. \A why : why # "ok" => Refused(why).why # "ok" BY DEF Refused
<1>2. Range(Digits) = {"0", "1", "2", "3", "4", "5", "6", "7", "8", "9"} BY DigitSet
<1>3. Len(r) \in Nat /\ \A k \in 1..Len(r) : r[k] \in STRING BY LenProperties
<1>4. cut \in 1..Len(r) /\ r[cut] = "T" BY DEF TimeAt
<1>5. /\ date \in Seq(STRING) /\ Len(date) = cut - 1
      /\ \A k \in 1..(cut - 1) : date[k] = r[1 + k - 1]
  <2>1. \A k \in 1..(cut - 1) : r[k] \in STRING BY <1>4, <1>3
  <2>2. date = SubSeq(r, 1, cut - 1) BY DEF TimeAt
  <2> QED BY <1>4, <1>3, <2>1, <2>2, SubSeqProperties
<1>6. /\ time \in Seq(STRING) /\ Len(time) = Len(r) - cut
      /\ \A k \in 1..(Len(r) - cut) : time[k] = r[(cut + 1) + k - 1]
  <2>1. \A k \in (cut + 1)..Len(r) : r[k] \in STRING BY <1>4, <1>3
  <2>2. time = SubSeq(r, cut + 1, Len(r)) BY DEF TimeAt
  <2> QED BY <1>4, <1>3, <2>1, <2>2, SubSeqProperties
<1>7. time = << >> <=> cut = Len(r)
  <2>1. time = << >> <=> Len(time) = 0 BY <1>6, EmptySeq
  <2> QED BY <1>4, <1>3, <1>6, <2>1
<1>8. ASSUME NEW d \in Readings(date, <<"D">>)
      PROVE  Only(date, Range(Digits) \cup {"D"})
  <2>1. "D" \in Units BY DEF Units
  <2> QED BY <1>5, <2>1, OneUnitChars DEF Only
<1>9. ASSUME NEW d \in Readings(date, <<"D">>), NEW m \in Readings(time, <<"H", "M", "S">>)
      PROVE  Only(r, Range(Digits) \cup {"D", "T", "H", "M", "S"})
  <2>1. "D" \in Units /\ "H" \in Units /\ "M" \in Units /\ "S" \in Units BY DEF Units
  <2>2. \A k \in 1..Len(date) : date[k] \in Range(Digits) \cup {"D"}
    BY <1>5, <2>1, OneUnitChars
  <2>3. \A k \in 1..Len(time) : time[k] \in Range(Digits) \cup {"H", "M", "S"}
    BY <1>6, <1>9, <2>1, ThreeUnitsChars
  <2>4. \A k \in 1..Len(r) : r[k] \in Range(Digits) \cup {"D", "T", "H", "M", "S"}
    <3> TAKE k \in 1..Len(r)
    <3>1. CASE k < cut
      <4>1. k \in 1..(cut - 1) /\ 1 + k - 1 = k BY <1>4, <1>3, <3>1
      <4>2. date[k] = r[k] BY <1>5, <4>1
      <4> QED BY <1>5, <2>2, <4>1, <4>2
    <3>2. CASE k > cut
      <4>1. k - cut \in 1..(Len(r) - cut) /\ (cut + 1) + (k - cut) - 1 = k BY <1>4, <1>3, <3>2
      <4>2. time[k - cut] = r[k] BY <1>6, <4>1
      <4> QED BY <1>6, <2>3, <4>1, <4>2
    <3>3. CASE k = cut BY <1>4, <3>3
    <3> QED BY <1>4, <1>3, <3>1, <3>2, <3>3
  <2> QED BY <2>4 DEF Only
<1>10. CASE \/ Has(r, Marks) \/ Has(date, {"Y", "M"}) \/ Has(date, {"H", "S"})
           \/ Has(date, {"W"}) \/ time = << >>
  <2>1. Judged(r, cut, date, time, all).why # "ok"
    <3>1. cut # 0 BY <1>4
    <3> QED BY <1>1, <1>10, <3>1 DEF Judged
  <2>2. ASSUME cut # Len(r), NEW d \in Readings(date, <<"D">>),
               NEW m \in Readings(time, <<"H", "M", "S">>)
        PROVE  FALSE
    <3>1. PICK S : S = Range(Digits) \cup {"D"} OBVIOUS
    <3>2. PICK T : T = Range(Digits) \cup {"D", "T", "H", "M", "S"} OBVIOUS
    <3>3. Only(date, S) /\ Only(r, T) BY <1>8, <1>9, <2>2, <3>1, <3>2
    <3>4. ~Has(r, Marks)
      <4>1. T \in SUBSET Letters BY <3>2 DEF Letters
      <4> QED BY <3>3, <4>1, NoMark
    <3>5. ~Has(date, {"Y", "M"}) BY <1>2, <1>5, <3>1, <3>3, NoneOf
    <3>6. ~Has(date, {"H", "S"}) BY <1>2, <1>5, <3>1, <3>3, NoneOf
    <3>7. ~Has(date, {"W"}) BY <1>2, <1>5, <3>1, <3>3, NoneOf
    <3> QED BY <1>7, <1>10, <2>2, <3>4, <3>5, <3>6, <3>7
  <2> QED BY <2>1, <2>2 DEF InParts, Tells
<1>11. CASE ~\/ Has(r, Marks) \/ Has(date, {"Y", "M"}) \/ Has(date, {"H", "S"})
             \/ Has(date, {"W"}) \/ time = << >>
  <2>1. Judged(r, cut, date, time, all) = Total(all) BY <1>11 DEF Judged
  <2>2. PICK u \in {"W", "D"} : u = "D" OBVIOUS
  <2>3. OneOf(date, u)
    <3>1. \A k \in 1..Len(date) : date[k] = "W" => Has(date, {"W"}) BY <1>5, HasIs
    <3> QED BY <1>11, <2>2, <3>1 DEF OneOf
  <2>4. Tells(Total(all), n)
          <=> n <= MaxSeconds /\ InParts(date, time, u, n)
    BY <1>5, <1>6, <2>3, BothTell
  <2> QED BY <1>7, <1>11, <2>1, <2>2, <2>4
<1> QED BY <1>10, <1>11

(* So a duration is read as its grammar says, and only then.                   *)
LEMMA DurationRead ==
  ASSUME NEW t \in Seq(STRING)
  PROVE  DurationReads(t)
<1>1. \A why : why # "ok" => Refused(why).why # "ok" BY DEF Refused
<1>2. ASSUME NEW n PROVE Tells(ParseDuration(t), n) <=> n \in Grammar(t) /\ n <= MaxSeconds
  <2>1. CASE t = << >> \/ Head(t) # "P"
    <3>1. n \notin Grammar(t) BY <2>1 DEF Grammar
    <3>2. ParseDuration(t).why # "ok" BY <1>1, <2>1 DEF ParseDuration
    <3> QED BY <3>1, <3>2 DEF Tells
  <2>2. CASE t # << >> /\ Head(t) = "P"
    <3> DEFINE rest  == Tail(t)
               cut   == SelectInSeq(rest, LAMBDA c : c = "T")
               date  == IF cut = 0 THEN rest ELSE SubSeq(rest, 1, cut - 1)
               time  == IF cut = 0 THEN << >> ELSE SubSeq(rest, cut + 1, Len(rest))
               all   == ReadBoth(date, time)
    <3>1. ParseDuration(t) = Judged(rest, cut, date, time, all)
      BY <2>2 DEF ParseDuration, Judged, ReadBoth, NothingRead, Marks
    <3>2. rest \in Seq(STRING) /\ Len(rest) \in Nat BY <2>2, HeadTailProperties, LenProperties
    <3>3. Parted(rest, cut)
      <4>1. Parted(rest, SelectInSeq(rest, LAMBDA c : c = "T")) BY <3>2, TimeBegins
      <4> QED BY <4>1
    <3> HIDE DEF cut
    <3>4. CASE cut = 0
      <4>1. date = rest /\ time = << >> BY <3>4
      <4>2. \A k \in 1..Len(rest) : rest[k] # "T" BY <3>3, <3>4 DEF Parted
      <4>3. n \in Grammar(t)
              <=> rest # << >> /\ (n \in Readings(rest, <<"W">>) \/ n \in Readings(rest, <<"D">>))
        BY <2>2, <4>2, PlainReads
      <4>4. all = ReadBoth(rest, time) BY <4>1
      <4> HIDE DEF all, date, time, rest
      <4>5. Tells(Judged(rest, 0, rest, time, all), n)
              <=> /\ rest # << >> /\ n <= MaxSeconds
                  /\ n \in Readings(rest, <<"W">>) \/ n \in Readings(rest, <<"D">>)
        BY <3>2, <4>1, <4>4, PlainTells
      <4> QED BY <3>1, <3>4, <4>1, <4>3, <4>5
    <3>5. CASE cut # 0
      <4>1. date = SubSeq(rest, 1, cut - 1) /\ time = SubSeq(rest, cut + 1, Len(rest)) BY <3>5
      <4>2. cut \in 1..Len(rest) /\ rest[cut] = "T" /\ \A k \in 1..(cut - 1) : rest[k] # "T"
        BY <3>3, <3>5 DEF Parted
      <4>3. all = ReadBoth(date, time) OBVIOUS
      <4>4. rest = Tail(t) OBVIOUS
      <4> HIDE DEF all, date, time, rest
      <4>5. n \in Grammar(t)
              <=> cut # Len(rest) /\ InParts(date, time, "D", n)
        BY <2>2, <4>1, <4>2, <4>4, TimedReads
      <4>6. TimeAt(rest, cut, date, time) BY <4>1, <4>2 DEF TimeAt
      <4>7. Tells(Judged(rest, cut, date, time, all), n)
              <=> cut # Len(rest) /\ n <= MaxSeconds /\ InParts(date, time, "D", n)
        BY <3>2, <4>3, <4>6, TimedTells
      <4> QED BY <3>1, <4>5, <4>7
    <3> QED BY <3>4, <3>5
  <2> QED BY <2>1, <2>2
<1> QED BY <1>2 DEF DurationReads, Tells

-------------------------------------------------------------------------------
(* What a path says.                                                           *)
PathPart == STRING \X Int

LEMMA PathOf ==
  ASSUME NEW path \in Seq(PathPart)
  PROVE  /\ Len(path) \in Nat
         /\ \A k \in 1..Len(path) : path[k] = <<path[k][1], path[k][2]>> /\ path[k][2] \in Int
<1>1. Len(path) \in Nat /\ \A k \in 1..Len(path) : path[k] \in PathPart BY LenProperties
<1>2. \A p \in PathPart : p = <<p[1], p[2]>> /\ p[2] \in Int BY DEF PathPart
<1> QED BY <1>1, <1>2

(* A node is spelled as a path that names it, ...                              *)
LEMMA Spelling ==
  ASSUME NEW t \in Targets
  PROVE  t.ok /\ ParseTarget(Spelled(t)) = t
<1> USE DEF Part, Indexed, EndsAt, Bare, Node
<1> DEFINE B == 0..(NBlocks - 1)
           C == 0..(NContainers - 1)
           R == 0..(NRacks - 1)
<1>1. \/ t = Node("site", <<>>)
      \/ \E b \in B : t = Node("block", <<b>>)
      \/ \E b \in B : t = Node("pcs", <<b>>)
      \/ \E b \in B, c \in C : t = Node("hvac", <<b, c>>)
      \/ \E b \in B, c \in C, r \in R : t = Node("rack", <<b, c, r>>)
  <2>1. CASE t = Node("site", <<>>) BY <2>1
  <2>2. CASE t \in [ok : {TRUE}, kind : {"block", "pcs"}, node : {<<b>> : b \in B}]
    <3>1. PICK b \in B : t.node = <<b>> BY <2>2
    <3>2. t = [ok |-> TRUE, kind |-> t.kind, node |-> <<b>>] BY <2>2, <3>1
    <3> QED BY <2>2, <3>2
  <2>3. CASE t \in [ok : {TRUE}, kind : {"hvac"}, node : B \X C]
    <3>1. PICK b \in B, c \in C : t.node = <<b, c>> BY <2>3
    <3>2. t = [ok |-> TRUE, kind |-> "hvac", node |-> <<b, c>>] BY <2>3, <3>1
    <3> QED BY <3>2
  <2>4. CASE t \in [ok : {TRUE}, kind : {"rack"}, node : B \X C \X R]
    <3>1. PICK b \in B, c \in C, r \in R : t.node = <<b, c, r>> BY <2>4
    <3>2. t = [ok |-> TRUE, kind |-> "rack", node |-> <<b, c, r>>] BY <2>4, <3>1
    <3> QED BY <3>2
  <2> QED BY <2>1, <2>2, <2>3, <2>4 DEF Targets
<1>2. CASE t = Node("site", <<>>) BY <1>2 DEF Spelled, ParseTarget
<1>3. ASSUME NEW b \in B, t = Node("block", <<b>>)
      PROVE  t.ok /\ ParseTarget(Spelled(t)) = t
  <2>1. PICK q : q = <<<<"block", b>>>> OBVIOUS
  <2>2. Spelled(t) = q /\ t.ok BY <1>3, <2>1 DEF Spelled
  <2>3. /\ Len(q) = 1 /\ q[1] = <<"block", b>>
        /\ q[1][1] = "block" /\ q[1][2] = b
        /\ q # <<<<"site", -1>>>>
    BY <2>1
  <2>4. ParseTarget(q) = t BY <1>3, <2>3 DEF ParseTarget
  <2> QED BY <2>2, <2>4
<1>4. ASSUME NEW b \in B, t = Node("pcs", <<b>>)
      PROVE  t.ok /\ ParseTarget(Spelled(t)) = t
  <2>1. PICK q : q = <<<<"block", b>>, <<"pcs", -1>>>> OBVIOUS
  <2>2. Spelled(t) = q /\ t.ok BY <1>4, <2>1 DEF Spelled
  <2>3. /\ Len(q) = 2 /\ q[1] = <<"block", b>> /\ q[2] = <<"pcs", -1>>
        /\ q[1][1] = "block" /\ q[1][2] = b /\ q[2][1] = "pcs" /\ q[2][2] = -1
        /\ q # <<<<"site", -1>>>>
    BY <2>1
  <2>4. ParseTarget(q) = t BY <1>4, <2>3 DEF ParseTarget
  <2> QED BY <2>2, <2>4
<1>5. ASSUME NEW b \in B, NEW c \in C, t = Node("hvac", <<b, c>>)
      PROVE  t.ok /\ ParseTarget(Spelled(t)) = t
  <2>1. PICK q : q = <<<<"block", b>>, <<"container", c>>, <<"hvac", -1>>>> OBVIOUS
  <2>2. Spelled(t) = q /\ t.ok BY <1>5, <2>1 DEF Spelled
  <2>3. /\ Len(q) = 3 /\ q[1] = <<"block", b>> /\ q[2] = <<"container", c>> /\ q[3] = <<"hvac", -1>>
        /\ q[1][1] = "block" /\ q[1][2] = b /\ q[2][1] = "container" /\ q[2][2] = c /\ q[3][1] = "hvac" /\ q[3][2] = -1
        /\ q # <<<<"site", -1>>>>
    BY <2>1
  <2>4. ParseTarget(q) = t BY <1>5, <2>3 DEF ParseTarget
  <2> QED BY <2>2, <2>4
<1>6. ASSUME NEW b \in B, NEW c \in C, NEW r \in R, t = Node("rack", <<b, c, r>>)
      PROVE  t.ok /\ ParseTarget(Spelled(t)) = t
  <2>1. PICK q : q = <<<<"block", b>>, <<"container", c>>, <<"rack", r>>>> OBVIOUS
  <2>2. Spelled(t) = q /\ t.ok BY <1>6, <2>1 DEF Spelled
  <2>3. /\ Len(q) = 3 /\ q[1] = <<"block", b>> /\ q[2] = <<"container", c>> /\ q[3] = <<"rack", r>>
        /\ q[1][1] = "block" /\ q[1][2] = b /\ q[2][1] = "container" /\ q[2][2] = c /\ q[3][1] = "rack" /\ q[3][2] = r
        /\ q # <<<<"site", -1>>>>
    BY <2>1
  <2>4. ParseTarget(q) = t BY <1>6, <2>3 DEF ParseTarget
  <2> QED BY <2>2, <2>4
<1> QED BY <1>1, <1>2, <1>3, <1>4, <1>5, <1>6

LEMMA Parsed ==
  ASSUME NEW path \in Seq(PathPart), path # <<>>, ParseTarget(path).ok
  PROVE  ParseTarget(path) \in Targets /\ Spelled(ParseTarget(path)) = path
<1>1. /\ Len(path) \in Nat \ {0}
      /\ \A k \in 1..Len(path) : path[k] = <<path[k][1], path[k][2]>> /\ path[k][2] \in Int
  BY PathOf
<1> USE DEF Part, Indexed, EndsAt, Bare, Node, Fails
<1>2. CASE path = <<Part("site", Bare)>> BY <1>2 DEF ParseTarget, Spelled, Targets
<1>3. CASE path # <<Part("site", Bare)>>
  <2>1. path[1] = <<"block", path[1][2]>> /\ path[1][2] \in 0..(NBlocks - 1)
    BY <1>1, <1>3 DEF ParseTarget
  <2>2. CASE Len(path) = 1
    <3>1. path = <<path[1]>> BY <2>2
    <3> QED BY <1>3, <2>1, <2>2, <3>1 DEF ParseTarget, Spelled, Targets
  <2>3. CASE Len(path) # 1 /\ path[2] = Part("pcs", Bare)
    <3>1. Len(path) = 2 BY <1>3, <2>1, <2>3 DEF ParseTarget
    <3>2. path = <<path[1], path[2]>> BY <3>1
    <3> QED BY <1>3, <2>1, <2>3, <3>1, <3>2 DEF ParseTarget, Spelled, Targets
  <2>4. CASE Len(path) # 1 /\ path[2] # Part("pcs", Bare)
    <3>1. /\ path[2] = <<"container", path[2][2]>> /\ path[2][2] \in 0..(NContainers - 1)
          /\ Len(path) = 3
          /\ \/ path[3] = <<"hvac", Bare>>
             \/ path[3] = <<"rack", path[3][2]>> /\ path[3][2] \in 0..(NRacks - 1)
      BY <1>1, <1>3, <2>1, <2>4 DEF ParseTarget
    <3>2. path = <<path[1], path[2], path[3]>> BY <3>1
    <3> QED BY <1>3, <2>1, <2>4, <3>1, <3>2 DEF ParseTarget, Spelled, Targets
  <2> QED BY <2>2, <2>3, <2>4
<1> QED BY <1>2, <1>3

LEMMA PathRead ==
  ASSUME NEW path \in Seq(PathPart), path # <<>>
  PROVE  PathReads(path)
<1>1. CASE ParseTarget(path).ok BY <1>1, Parsed DEF PathReads
<1>2. CASE ~ParseTarget(path).ok
  <2>1. \A t \in Targets : t.ok /\ ParseTarget(Spelled(t)) = t BY Spelling
  <2> QED BY <1>2, <2>1 DEF PathReads
<1> QED BY <1>1, <1>2

-------------------------------------------------------------------------------
(* What a date says.                                                           *)
(* The quotient of a number that is so many times the divisor and a rest.      *)
LEMMA QuotientIs ==
  ASSUME NEW n \in Nat \ {0}, NEW q \in Int, NEW r \in Nat, r < n
  PROVE  (n * q + r) \div n = q
<1>1. PICK x \in Int : x = n * q + r OBVIOUS
<1>2. x = n * (x \div n) + (x % n) /\ x % n \in 0..(n - 1) /\ x \div n \in Int OBVIOUS
<1>3. PICK p \in Int : p = x \div n BY <1>2
<1>4. p <= q
  <2>1. SUFFICES ASSUME p >= q + 1 PROVE FALSE BY <1>3
  <2>2. n * p >= n * (q + 1) BY <2>1
  <2>3. n * (q + 1) = n * q + n OBVIOUS
  <2> QED BY <1>1, <1>2, <1>3, <2>2, <2>3
<1>5. p >= q
  <2>1. SUFFICES ASSUME q >= p + 1 PROVE FALSE BY <1>3
  <2>2. n * q >= n * (p + 1) BY <2>1
  <2>3. n * (p + 1) = n * p + n OBVIOUS
  <2> QED BY <1>1, <1>2, <1>3, <2>2, <2>3
<1> QED BY <1>1, <1>3, <1>4, <1>5

(* A day of an era of 400 years that begin in March: c centuries, k times four *)
(* years, j years and the day of the year. The last is long every fourth year, *)
(* not at the end of a century, but at the end of the era.                     *)
LastDay(c, k, j, d) == d = 365 => j = 3 /\ (k < 24 \/ c = 3)

DayOfEra(doe, c, k, j, d) ==
  /\ c \in 0..3 /\ k \in 0..24 /\ j \in 0..3 /\ d \in 0..365 /\ LastDay(c, k, j, d)
  /\ doe = 36524 * c + 1461 * k + 365 * j + d

YearIn(doe) == (doe - doe \div 1460 + doe \div 36524 - doe \div 146096) \div 365

LEMMA EraBounds ==
  ASSUME NEW c \in 0..3, NEW k \in 0..24, NEW j \in 0..3, NEW d \in 0..365, LastDay(c, k, j, d),
         NEW doe \in Int, doe = 36524 * c + 1461 * k + 365 * j + d
  PROVE  /\ 0 <= doe /\ doe <= 146096
         /\ doe = 146096 => c = 3
         /\ 0 <= 1461 * k + 365 * j + d
         /\ doe # 146096 => 1461 * k + 365 * j + d < 36524
BY SMTT(20) DEF LastDay

LEMMA YearOfEra ==
  ASSUME NEW doe \in Nat, NEW c \in Nat, NEW k \in Nat, NEW j \in Nat, NEW d \in Nat,
         DayOfEra(doe, c, k, j, d)
  PROVE  YearIn(doe) = 100 * c + 4 * k + j
<1>1. /\ c \in 0..3 /\ k \in 0..24 /\ j \in 0..3 /\ d \in 0..365 /\ LastDay(c, k, j, d)
      /\ doe = 36524 * c + 1461 * k + 365 * j + d
  BY SMTT(20) DEF DayOfEra
<1>2. /\ 0 <= doe /\ doe <= 146096 /\ (doe = 146096 => c = 3)
      /\ 0 <= 1461 * k + 365 * j + d
      /\ doe # 146096 => 1461 * k + 365 * j + d < 36524
  BY <1>1, SMTT(20) DEF LastDay
<1>3. d = 365 => j = 3 /\ (k < 24 \/ c = 3) BY <1>1, SMTT(20) DEF LastDay
<1>4. PICK o \in Nat : o = 24 * c + k + 365 * j + d /\ o < 2000 BY <1>1, <1>2, SMTT(20)
<1>5. PICK e \in 0..1 : e = (IF o >= 1460 THEN 1 ELSE 0) BY SMTT(20)
<1>6. doe \div 1460 = 25 * c + k + e
  <2>1. doe = 1460 * (25 * c + k) + o BY <1>1, <1>2, <1>4, SMTT(20)
  <2>2. PICK q \in Int : q = 25 * c + k + e BY <1>1, <1>5, SMTT(20)
  <2>3. PICK r \in Nat : r = o - 1460 * e /\ r < 1460 BY <1>3, <1>1, <1>2, <1>4, <1>5, SMTT(20)
  <2>4. doe = 1460 * q + r BY <2>1, <2>2, <2>3, <1>5, SMTT(20)
  <2>5. (1460 * q + r) \div 1460 = q BY <2>3, QuotientIs, SMTT(20)
  <2> QED BY <2>2, <2>4, <2>5, SMTT(20)
<1>7. doe \div 36524 - doe \div 146096 = c
  <2>1. CASE doe = 146096
    <3>1. c = 3 BY <1>1, <1>2, <2>1, SMTT(20)
    <3>2. 146096 \div 36524 = 4 /\ 146096 \div 146096 = 1 BY SMTT(20)
    <3> QED BY <2>1, <3>1, <3>2, SMTT(20)
  <2>2. CASE doe # 146096
    <3>1. PICK r \in Nat : r = 1461 * k + 365 * j + d /\ r < 36524 BY <1>1, <1>2, <2>2, SMTT(20)
    <3>2. doe = 36524 * c + r BY <1>1, <1>2, <3>1, SMTT(20)
    <3>3. (36524 * c + r) \div 36524 = c BY <1>1, <3>1, QuotientIs, SMTT(20)
    <3>4. doe \div 146096 = 0 BY <1>1, <1>2, <2>2, SMTT(20)
    <3> QED BY <3>2, <3>3, <3>4, SMTT(20)
  <2> QED BY <2>1, <2>2, SMTT(20)
<1>8. PICK y \in Int : y = 100 * c + 4 * k + j BY <1>1, SMTT(20)
<1>9. PICK r \in Nat : r = d - e /\ r < 365 BY <1>1, <1>3, <1>4, <1>5, SMTT(20)
<1>10. doe \div 1460 \in Int /\ doe \div 36524 \in Int /\ doe \div 146096 \in Int BY SMTT(20)
<1>11. doe - doe \div 1460 + doe \div 36524 - doe \div 146096 = 365 * y + r
  BY <1>1, <1>2, <1>6, <1>7, <1>8, <1>9, <1>10, SMTT(20)
<1>12. (365 * y + r) \div 365 = y BY <1>9, QuotientIs, SMTT(20)
<1> QED BY <1>8, <1>11, <1>12, SMTT(20) DEF YearIn

LEMMA DaysOfYears ==
  ASSUME NEW c \in 0..3, NEW k \in 0..24, NEW j \in 0..3, NEW y \in Int, y = 100 * c + 4 * k + j
  PROVE  /\ y \div 4 = 25 * c + k /\ y \div 100 = c
         /\ 365 * y + y \div 4 - y \div 100 = 36524 * c + 1461 * k + 365 * j
<1>1. y \div 4 = 25 * c + k
  <2>1. PICK q \in Int : q = 25 * c + k BY SMTT(20)
  <2>2. y = 4 * q + j BY <2>1, SMTT(20)
  <2> QED BY <2>1, <2>2, SMTT(20)
<1>2. y \div 100 = c
  <2>1. PICK r \in 0..99 : r = 4 * k + j BY SMTT(20)
  <2>2. y = 100 * c + r BY <2>1, SMTT(20)
  <2> QED BY <2>1, <2>2, SMTT(20)
<1> QED BY <1>1, <1>2, SMTT(20)

LEMMA EraSplits ==
  ASSUME NEW doe \in Nat, doe <= 146096
  PROVE  \E c, k, j, d \in Nat : DayOfEra(doe, c, k, j, d)
<1>1. PICK c \in 0..3 : 0 <= doe - 36524 * c /\ doe - 36524 * c <= 36524
                        /\ (doe - 36524 * c = 36524 => c = 3)
  <2> DEFINE P(c) == 0 <= doe - 36524 * c /\ doe - 36524 * c <= 36524
                     /\ (doe - 36524 * c = 36524 => c = 3)
  <2>1. P(0) \/ P(1) \/ P(2) \/ P(3) BY SMTT(20)
  <2>2. 0 \in 0..3 /\ 1 \in 0..3 /\ 2 \in 0..3 /\ 3 \in 0..3 BY SMTT(20)
  <2> HIDE DEF P
  <2>3. \E c \in 0..3 : P(c) BY <2>1, <2>2, SMTT(20)
  <2> QED BY <2>3, SMTT(20) DEF P
<1>2. PICK r \in Nat : r = doe - 36524 * c /\ r <= 36524 BY <1>1, SMTT(20)
<1>3. PICK k \in 0..24 : k = r \div 1461 BY <1>2, SMTT(20)
<1>4. PICK q \in Nat : r = 1461 * k + q /\ q < 1461
  <2>1. r % 1461 \in Nat /\ r % 1461 < 1461 /\ r = 1461 * k + (r % 1461) BY <1>3, SMTT(20)
  <2> QED BY <2>1, SMTT(20)
<1>5. PICK j \in 0..3 : 0 <= q - 365 * j /\ q - 365 * j <= 365 /\ (q - 365 * j = 365 => j = 3)
  <2> DEFINE P(j) == 0 <= q - 365 * j /\ q - 365 * j <= 365 /\ (q - 365 * j = 365 => j = 3)
  <2>1. P(0) \/ P(1) \/ P(2) \/ P(3) BY <1>4, SMTT(20)
  <2>2. 0 \in 0..3 /\ 1 \in 0..3 /\ 2 \in 0..3 /\ 3 \in 0..3 BY SMTT(20)
  <2> HIDE DEF P
  <2>3. \E j \in 0..3 : P(j) BY <2>1, <2>2, SMTT(20)
  <2> QED BY <2>3, SMTT(20) DEF P
<1>6. PICK d \in 0..365 : d = q - 365 * j BY <1>5, SMTT(20)
<1>7. d = 365 => j = 3 /\ (k < 24 \/ c = 3) BY <1>1, <1>2, <1>4, <1>5, <1>6, SMTT(20)
<1>8. LastDay(c, k, j, d) BY <1>7, SMTT(20) DEF LastDay
<1>9. doe = 36524 * c + 1461 * k + 365 * j + d BY <1>2, <1>4, <1>6, SMTT(20)
<1>10. DayOfEra(doe, c, k, j, d) BY <1>8, <1>9, SMTT(20) DEF DayOfEra
<1>11. c \in Nat /\ k \in Nat /\ j \in Nat /\ d \in Nat BY SMTT(20)
<1> QED BY <1>10, <1>11, SMTT(20)

(* A day of a year that begins in March, as month and day of month.            *)
LEMMA MonthOfYear ==
  ASSUME NEW doy \in 0..365
  PROVE  LET mp == (5 * doy + 2) \div 153
             day == doy - (153 * mp + 2) \div 5 + 1
         IN /\ mp \in 0..11 /\ day >= 1
            /\ mp = 11 => day <= 29 /\ (day = 29 => doy = 365)
            /\ mp \in {1, 3, 6, 8} => day <= 30
            /\ mp # 11 => day <= 31
<1>1. PICK mp \in 0..11 : mp = (5 * doy + 2) \div 153 BY SMTT(20)
<1>2. PICK s \in 0..400 : s = (153 * mp + 2) \div 5 BY SMTT(20)
<1>3. 153 * mp <= 5 * doy + 2 /\ 5 * doy + 2 < 153 * mp + 153 BY <1>1, SMTT(20)
<1>4. 5 * s <= 153 * mp + 2 /\ 153 * mp + 2 < 5 * s + 5 BY <1>2, SMTT(20)
<1> QED BY <1>1, <1>2, <1>3, <1>4, SMTT(20)

LEMMA MonthBack ==
  ASSUME NEW mp \in 0..11, NEW day \in 1..31,
         mp = 11 => day <= 29, mp \in {1, 3, 6, 8} => day <= 30
  PROVE  LET doy == (153 * mp + 2) \div 5 + day - 1
         IN /\ doy \in 0..365 /\ (5 * doy + 2) \div 153 = mp
            /\ doy - (153 * mp + 2) \div 5 + 1 = day
            /\ doy = 365 => mp = 11 /\ day = 29
<1>1. PICK s \in 0..400 : s = (153 * mp + 2) \div 5 BY SMTT(20)
<1>2. 5 * s <= 153 * mp + 2 /\ 153 * mp + 2 < 5 * s + 5 BY <1>1, SMTT(20)
<1>3. PICK doy \in 0..365 : doy = s + day - 1 BY <1>2, SMTT(20)
<1>4. 153 * mp <= 5 * doy + 2 /\ 5 * doy + 2 < 153 * mp + 153 BY <1>2, <1>3, SMTT(20)
<1>5. (5 * doy + 2) \div 153 = mp BY <1>4, SMTT(20)
<1>6. doy = 365 => mp = 11 /\ day = 29 BY <1>2, <1>3, SMTT(20)
<1> QED BY <1>1, <1>3, <1>5, <1>6, SMTT(20)

(* So every count of days is a day of the Gregorian calendar, ...              *)
ValidDay(date) == date[2] \in 1..12 /\ date[3] \in 1..DaysIn(date[1], date[2])

InYear(era, yoe, doy) ==
  LET mp == (5 * doy + 2) \div 153
      m  == IF mp < 10 THEN mp + 3 ELSE mp - 9
  IN <<yoe + era * 400 + (IF m <= 2 THEN 1 ELSE 0), m, doy - (153 * mp + 2) \div 5 + 1>>

InEra(era, doe) ==
  LET yoe == YearIn(doe)
  IN InYear(era, yoe, doe - (365 * yoe + yoe \div 4 - yoe \div 100))

LEMMA DaysAreDates ==
  ASSUME NEW days \in Int
  PROVE  ValidDay(CivilFromDays(days))
<1>1. PICK z \in Int : z = days + 719468 BY SMTT(20)
<1>2. PICK era \in Int : era = z \div 146097 BY SMTT(20)
<1>3. PICK doe \in Nat : doe = z - era * 146097 /\ doe <= 146096 BY <1>2, SMTT(20)
<1>4. PICK c, k, j, d \in Nat : DayOfEra(doe, c, k, j, d) BY <1>3, EraSplits, SMTT(20)
<1>5. /\ c \in 0..3 /\ k \in 0..24 /\ j \in 0..3 /\ d \in 0..365 /\ LastDay(c, k, j, d)
      /\ doe = 36524 * c + 1461 * k + 365 * j + d
  BY <1>4, SMTT(20) DEF DayOfEra
<1>6. PICK yoe \in Int : yoe = 100 * c + 4 * k + j BY SMTT(20)
<1>7. yoe = YearIn(doe) BY <1>4, <1>6, YearOfEra, SMTT(20)
<1>8. 365 * yoe + yoe \div 4 - yoe \div 100 = 36524 * c + 1461 * k + 365 * j
  BY <1>5, <1>6, DaysOfYears, SMTT(20)
<1>9. d = doe - (365 * yoe + yoe \div 4 - yoe \div 100) BY <1>5, <1>8, SMTT(20)
<1>10. PICK mp \in 0..11, day \in 1..31 :
         /\ mp = (5 * d + 2) \div 153 /\ day = d - (153 * mp + 2) \div 5 + 1
         /\ mp = 11 => day <= 29 /\ (day = 29 => d = 365)
         /\ mp \in {1, 3, 6, 8} => day <= 30
  <2>1. PICK mp : mp = (5 * d + 2) \div 153 BY SMTT(20)
  <2>2. PICK day : day = d - (153 * mp + 2) \div 5 + 1 BY SMTT(20)
  <2>3. /\ mp \in 0..11 /\ day >= 1
        /\ mp = 11 => day <= 29 /\ (day = 29 => d = 365)
        /\ mp \in {1, 3, 6, 8} => day <= 30
        /\ mp # 11 => day <= 31
    BY <1>5, <2>1, <2>2, MonthOfYear, SMTT(20)
  <2>4. day \in Int BY <1>5, <2>2, <2>3, SMTT(20)
  <2>5. day \in 1..31 BY <2>3, <2>4, SMTT(20)
  <2> QED BY <2>1, <2>2, <2>3, <2>5, SMTT(20)
<1>11. PICK m \in 1..12 : m = IF mp < 10 THEN mp + 3 ELSE mp - 9 BY SMTT(20)
<1>12. PICK year \in Int : year = yoe + era * 400 + (IF m <= 2 THEN 1 ELSE 0) BY SMTT(20)
<1>13. CivilFromDays(days) = <<year, m, day>>
  <2>1. CivilFromDays(days) = InEra(era, doe)
    <3>1. CivilFromDays(days) = InEra((days + 719468) \div 146097,
            (days + 719468) - ((days + 719468) \div 146097) * 146097)
      BY SMTT(20) DEF CivilFromDays, InEra, InYear, YearIn
    <3> HIDE DEF InEra
    <3> QED BY <1>1, <1>2, <1>3, <3>1, SMTT(20)
  <2>2. InEra(era, doe) = InYear(era, yoe, d)
    <3>1. InEra(era, doe) =
            InYear(era, YearIn(doe), doe - (365 * YearIn(doe) + YearIn(doe) \div 4 - YearIn(doe) \div 100))
      BY SMTT(20) DEF InEra
    <3> HIDE DEF InYear, YearIn
    <3> QED BY <1>7, <1>9, <3>1, SMTT(20)
  <2>3. InYear(era, yoe, d) = <<year, m, day>>
    BY <1>10, <1>11, <1>12, SMTT(20) DEF InYear
  <2> QED BY <2>1, <2>2, <2>3, SMTT(20)
<1>14. day \in 1..DaysIn(year, m)
  <2>1. CASE m = 2
    <3>1. mp = 11 BY <1>11, <2>1, SMTT(20)
    <3>2. CASE d # 365
      <4>1. day <= 28 BY <1>10, <3>1, <3>2, SMTT(20)
      <4> QED BY <2>1, <4>1, SMTT(20) DEF DaysIn
    <3>3. CASE d = 365
      <4>1. j = 3 /\ (k < 24 \/ c = 3) BY <1>5, <3>3, SMTT(20) DEF LastDay
      <4>2. year = 400 * era + 100 * c + 4 * k + 4 BY <1>6, <1>12, <2>1, <4>1, SMTT(20)
      <4>3. year % 4 = 0 BY <4>2, SMTT(20)
      <4>4. year % 100 # 0 \/ year % 400 = 0 BY <4>1, <4>2, <1>5, SMTT(20)
      <4>5. day <= 29 BY <1>10, <3>1, SMTT(20)
      <4> QED BY <2>1, <4>3, <4>4, <4>5, SMTT(20) DEF DaysIn
    <3> QED BY <3>2, <3>3, SMTT(20)
  <2>2. CASE m \in {4, 6, 9, 11}
    <3>1. mp \in {1, 3, 6, 8} BY <1>11, <2>2, SMTT(20)
    <3>2. day <= 30 BY <1>10, <3>1, SMTT(20)
    <3> QED BY <2>2, <3>2, SMTT(20) DEF DaysIn
  <2>3. CASE m # 2 /\ m \notin {4, 6, 9, 11} BY <2>3, SMTT(20) DEF DaysIn
  <2> QED BY <2>1, <2>2, <2>3, SMTT(20)
<1> QED BY <1>13, <1>14, SMTT(20) DEF ValidDay

(* ... and every day of the calendar is counted as one that comes back as it.  *)
CountIn(era, yoe, doy) ==
  era * 146097 + (yoe * 365 + yoe \div 4 - yoe \div 100 + doy) - 719468

LEMMA EraDays ==
  ASSUME NEW era \in Int, NEW doe \in Nat, doe <= 146096
  PROVE  (era * 146097 + doe) \div 146097 = era
<1>1. 146097 \in Nat \ {0} /\ doe < 146097 BY SMTT(20)
<1>2. (146097 * era + doe) \div 146097 = era BY <1>1, QuotientIs, SMTT(20)
<1> QED BY <1>2, SMTT(20)

LEMMA DatesComeBack ==
  ASSUME NEW y0 \in Int, NEW m \in 1..12, NEW day \in Int, day \in 1..DaysIn(y0, m)
  PROVE  CivilFromDays(DaysFromCivil(y0, m, day)) = <<y0, m, day>>
<1>1. PICK mp \in 0..11 : mp = (m + 9) % 12 BY SMTT(20)
<1>2. m = (IF mp < 10 THEN mp + 3 ELSE mp - 9) BY <1>1, SMTT(20)
<1>3. /\ day >= 1 /\ day <= 31 /\ (mp = 11 => day <= 29) /\ (mp \in {1, 3, 6, 8} => day <= 30)
      /\ mp = 11 /\ day = 29 => y0 % 4 = 0 /\ (y0 % 100 # 0 \/ y0 % 400 = 0)
  BY <1>2, SMTT(20) DEF DaysIn
<1>4. PICK s \in Nat : s = (153 * mp + 2) \div 5 BY SMTT(20)
<1>5. PICK doy \in 0..365 :
        /\ doy = s + day - 1 /\ (5 * doy + 2) \div 153 = mp
        /\ doy - s + 1 = day /\ (doy = 365 => mp = 11 /\ day = 29)
  <2>1. day \in 1..31 BY <1>3, SMTT(20)
  <2> QED BY <1>3, <1>4, <2>1, MonthBack, SMTT(20)
<1>6. PICK y \in Int : y = IF m <= 2 THEN y0 - 1 ELSE y0 BY SMTT(20)
<1>7. PICK era \in Int : era = y \div 400 BY SMTT(20)
<1>8. PICK yoe \in 0..399 : yoe = y - era * 400 BY <1>7, SMTT(20)
<1>9. PICK c \in 0..3, k \in 0..24, j \in 0..3 : yoe = 100 * c + 4 * k + j
  <2>1. PICK c \in 0..3 : c = yoe \div 100 BY SMTT(20)
  <2>2. PICK r \in 0..99 : r = yoe - 100 * c BY <2>1, SMTT(20)
  <2>3. PICK k \in 0..24 : k = r \div 4 BY SMTT(20)
  <2>4. PICK j \in 0..3 : j = r - 4 * k BY <2>3, SMTT(20)
  <2>5. yoe = 100 * c + 4 * k + j BY <2>2, <2>4, SMTT(20)
  <2> QED BY <2>5, SMTT(20)
<1>10. LastDay(c, k, j, doy)
  <2>1. SUFFICES ASSUME doy = 365 PROVE j = 3 /\ (k < 24 \/ c = 3) BY SMTT(20) DEF LastDay
  <2>2. mp = 11 /\ day = 29 BY <1>5, <2>1, SMTT(20)
  <2>3. y0 = 400 * era + 100 * c + 4 * k + j + 1 BY <1>2, <1>6, <1>8, <1>9, <2>2, SMTT(20)
  <2>4. y0 % 4 = 0 BY <1>3, <2>2, SMTT(20)
  <2>5. j = 3 BY <2>3, <2>4, SMTT(20)
  <2>6. y0 % 100 # 0 \/ y0 % 400 = 0 BY <1>3, <2>2, SMTT(20)
  <2>7. k = 24 => c = 3
    <3>1. SUFFICES ASSUME k = 24 PROVE c = 3 BY SMTT(20)
    <3>2. y0 = 400 * era + 100 * (c + 1) BY <2>3, <2>5, <3>1, SMTT(20)
    <3>3. y0 % 100 = 0 BY <3>2, SMTT(20)
    <3>4. y0 % 400 = 0 BY <2>6, <3>3, SMTT(20)
    <3> QED BY <3>2, <3>4, SMTT(20)
  <2> QED BY <2>5, <2>7, SMTT(20)
<1>11. PICK doe \in Nat : doe = 36524 * c + 1461 * k + 365 * j + doy /\ doe <= 146096
  <2>1. doy = 365 => j = 3 /\ (k < 24 \/ c = 3) BY <1>10, SMTT(20) DEF LastDay
  <2> QED BY <2>1, SMTT(20)
<1>12. DayOfEra(doe, c, k, j, doy) BY <1>10, <1>11, SMTT(20) DEF DayOfEra
<1>13. YearIn(doe) = yoe
  <2>1. c \in Nat /\ k \in Nat /\ j \in Nat /\ doy \in Nat BY SMTT(20)
  <2> QED BY <1>9, <1>12, <2>1, YearOfEra, SMTT(20)
<1>14. 365 * yoe + yoe \div 4 - yoe \div 100 = 36524 * c + 1461 * k + 365 * j
  <2>1. yoe \in Int BY SMTT(20)
  <2> QED BY <1>9, <2>1, DaysOfYears, SMTT(20)
<1>15. PICK days \in Int : days = era * 146097 + doe BY SMTT(20)
<1>16. DaysFromCivil(y0, m, day) = days - 719468
  <2>1. DaysFromCivil(y0, m, day) = CountIn(era, yoe, doy)
    <3>1. PICK x : x = (153 * ((m + 9) % 12) + 2) \div 5 + day - 1 BY SMTT(20)
    <3>2. x = doy BY <1>1, <1>4, <1>5, <3>1, SMTT(20)
    <3>3. DaysFromCivil(y0, m, day) =
            LET Y == IF m <= 2 THEN y0 - 1 ELSE y0
            IN CountIn(Y \div 400, Y - (Y \div 400) * 400, (153 * ((m + 9) % 12) + 2) \div 5 + day - 1)
      BY SMTT(20) DEF DaysFromCivil, CountIn
    <3> HIDE DEF CountIn
    <3> QED BY <1>6, <1>7, <1>8, <3>1, <3>2, <3>3, SMTT(20)
  <2> QED BY <1>11, <1>14, <1>15, <2>1, SMTT(20) DEF CountIn
<1>17. CivilFromDays(days - 719468) = InEra(era, doe)
  <2>1. CivilFromDays(days - 719468) = InEra(((days - 719468) + 719468) \div 146097,
          ((days - 719468) + 719468) - (((days - 719468) + 719468) \div 146097) * 146097)
    BY SMTT(20) DEF CivilFromDays, InEra, InYear, YearIn
  <2>2. PICK z \in Int : z = (days - 719468) + 719468 BY SMTT(20)
  <2>3. z = days BY <2>2, SMTT(20)
  <2>4. z \div 146097 = era BY <1>11, <1>15, <2>3, EraDays, SMTT(20)
  <2>5. z - era * 146097 = doe BY <1>15, <2>3, SMTT(20)
  <2> HIDE DEF InEra
  <2> QED BY <2>1, <2>2, <2>4, <2>5, SMTT(20)
<1>18. InEra(era, doe) = InYear(era, yoe, doy)
  <2>1. InEra(era, doe) =
          InYear(era, YearIn(doe), doe - (365 * YearIn(doe) + YearIn(doe) \div 4 - YearIn(doe) \div 100))
    BY SMTT(20) DEF InEra
  <2>2. doe - (365 * yoe + yoe \div 4 - yoe \div 100) = doy BY <1>11, <1>14, SMTT(20)
  <2> HIDE DEF InYear, YearIn
  <2> QED BY <1>13, <2>1, <2>2, SMTT(20)
<1>19. InYear(era, yoe, doy) = <<y0, m, day>>
  <2>1. yoe + era * 400 + (IF m <= 2 THEN 1 ELSE 0) = y0 BY <1>6, <1>8, SMTT(20)
  <2> QED BY <1>2, <1>4, <1>5, <2>1, SMTT(20) DEF InYear
<1> QED BY <1>16, <1>17, <1>18, <1>19, SMTT(20)

LEMMA DateRead ==
  ASSUME NEW y \in Int, NEW m \in Int, NEW d \in Int
  PROVE  DateReads(<<y, m, d>>)
<1>1. ASSUME m \in 1..12, d \in 1..DaysIn(y, m) PROVE RealDate(<<y, m, d>>)
  BY <1>1, DatesComeBack, SMTT(20) DEF RealDate
<1>2. ASSUME RealDate(<<y, m, d>>) PROVE m \in 1..12 /\ d \in 1..DaysIn(y, m)
  <2>1. m \in 1..12 /\ CivilFromDays(DaysFromCivil(y, m, d)) = <<y, m, d>>
    BY <1>2, SMTT(20) DEF RealDate
  <2>2. DaysFromCivil(y, m, d) \in Int BY <2>1, SMTT(20) DEF DaysFromCivil
  <2> HIDE DEF DaysFromCivil, CivilFromDays
  <2>3. ValidDay(<<y, m, d>>)
    <3>1. ValidDay(CivilFromDays(DaysFromCivil(y, m, d))) BY <2>2, DaysAreDates, SMTT(20)
    <3> QED BY <2>1, <3>1, SMTT(20)
  <2> QED BY <2>3, SMTT(20) DEF ValidDay
<1> QED BY <1>1, <1>2, SMTT(20) DEF DateReads

(* The text being typed: a duration and a path are sequences, a date three     *)
(* numbers.                                                                    *)
IsText ==
  /\ text.kind \in {"duration", "path", "date"}
  /\ text.kind = "duration" => text.value \in Seq(STRING)
  /\ text.kind = "path" => text.value \in Seq(STRING \X Int)
  /\ text.kind = "date" => text.value \in Int \X Int \X Int /\ text.left = 0

(* TextsReadBack: whatever is typed, a duration is read as the grammar says, a *)
(* path as a node of the site in its own spelling, and a date as a day of the  *)
(* calendar; whatever none of them knows is refused (duration.rs:44,           *)
(* target.rs:203, validate.rs:179).                                            *)
THEOREM TextsRead == TextSpec => []TextsReadBack
<1>1. text \in FirstTexts => IsText BY TextsAssumption DEF IsText
<1>2. IsText /\ [TypeText]_text => IsText'
  <2> SUFFICES ASSUME IsText, [TypeText]_text PROVE IsText' OBVIOUS
  <2>1. CASE UNCHANGED text BY <2>1 DEF IsText
  <2>2. CASE TypeText
    <3>1. PICK kind, value, left : kind = text.kind /\ value = text.value /\ left = text.left OBVIOUS
    <3>2. PICK c \in Following(kind) :
            left > 0 /\ text' = Text(kind, Append(value, c), left - 1)
      BY <2>2, <3>1 DEF TypeText
    <3>3. text'.kind = kind /\ text'.value = Append(value, c) BY <3>2 DEF Text
    <3>4. kind \in {"duration", "path"} BY <3>1, <3>2 DEF IsText
    <3>5. kind = "duration" => Append(value, c) \in Seq(STRING)
      BY <3>1, <3>2, TextsAssumption, AppendProperties DEF IsText, Following
    <3>6. kind = "path" => Append(value, c) \in Seq(STRING \X Int)
      BY <3>1, <3>2, TextsAssumption, AppendProperties DEF IsText, Following
    <3> QED BY <3>3, <3>4, <3>5, <3>6 DEF IsText
  <2> QED BY <2>1, <2>2
<1>3. IsText => TextsReadBack
  <2> SUFFICES ASSUME IsText PROVE TextsReadBack OBVIOUS
  <2>1. text.kind = "duration" => DurationReads(text.value) BY DurationRead DEF IsText
  <2>2. text.kind = "path" /\ text.value # << >> => PathReads(text.value)
    <3> SUFFICES ASSUME text.kind = "path", text.value # << >> PROVE PathReads(text.value)
      OBVIOUS
    <3>1. PICK path \in Seq(PathPart) : path = text.value BY DEF IsText, PathPart
    <3> QED BY <3>1, PathRead
  <2>3. text.kind = "date" => DateReads(text.value)
    <3> SUFFICES ASSUME text.kind = "date" PROVE DateReads(text.value) OBVIOUS
    <3>1. PICK y \in Int, m \in Int, d \in Int : text.value = <<y, m, d>> BY DEF IsText
    <3> QED BY <3>1, DateRead
  <2> QED BY <2>1, <2>2, <2>3 DEF TextsReadBack
<1> QED BY <1>1, <1>2, <1>3, PTL DEF TextSpec

-------------------------------------------------------------------------------
(* The schedule. Numbered from 1 with a tick each, a list of events is sorted  *)
(* by counting, for every event, those that come before it.                    *)
Numbered(due, n) ==
  /\ n \in Nat /\ DOMAIN due = 1..n
  /\ \A i \in 1..n : due[i].index = i /\ due[i].tick \in Nat

(* Every event has a place of its own, in order, and every place is taken.     *)
LEMMA PlacesAreTaken ==
  ASSUME NEW due, NEW n, Numbered(due, n)
  PROVE  /\ \A i \in 1..n : Place(due, i) \in 1..n
         /\ \A i, j \in 1..n : Earlier(due[i], due[j]) => Place(due, i) < Place(due, j)
         /\ \A k \in 1..n : \E i \in 1..n : Place(due, i) = k
<1> DEFINE Before(i) == {j \in 1..n : Earlier(due[j], due[i])}
<1>1. /\ n \in Nat /\ DOMAIN due = 1..n
      /\ \A i \in 1..n : due[i].index = i /\ due[i].tick \in Nat
  BY DEF Numbered
<1>2. \A i \in 1..n : Place(due, i) = 1 + Cardinality(Before(i))
  BY <1>1 DEF Place
<1>3. IsFiniteSet(1..n) /\ Cardinality(1..n) = n BY <1>1, FS_Interval
<1>4. ASSUME NEW i \in 1..n
      PROVE  /\ IsFiniteSet(Before(i)) /\ Cardinality(Before(i)) \in Nat
             /\ Cardinality(Before(i)) <= n - 1
  <2>1. i \notin Before(i) BY <1>1 DEF Earlier
  <2>2. Before(i) \in SUBSET ((1..n) \ {i}) BY <2>1
  <2>3. IsFiniteSet((1..n) \ {i}) /\ Cardinality((1..n) \ {i}) = n - 1
    BY <1>3, FS_RemoveElement
  <2> HIDE DEF Before
  <2>4. IsFiniteSet(Before(i)) /\ Cardinality(Before(i)) <= n - 1
    BY <2>2, <2>3, FS_Subset
  <2> QED BY <2>4, FS_CardinalityType
<1>5. ASSUME NEW i \in 1..n, NEW j \in 1..n, Earlier(due[i], due[j])
      PROVE  Cardinality(Before(i)) < Cardinality(Before(j))
  <2>1. Before(i) \in SUBSET Before(j) BY <1>1, <1>5 DEF Earlier
  <2>2. i \in Before(j) /\ i \notin Before(i) BY <1>1, <1>5 DEF Earlier
  <2> HIDE DEF Before
  <2>3. Cardinality(Before(i)) <= Cardinality(Before(j))
        /\ (Cardinality(Before(j)) = Cardinality(Before(i)) => Before(j) = Before(i))
    BY <1>4, <2>1, FS_Subset
  <2>4. Cardinality(Before(i)) # Cardinality(Before(j)) BY <2>2, <2>3
  <2> QED BY <1>4, <2>3, <2>4
<1> HIDE DEF Before
<1>6. \A i \in 1..n : Place(due, i) \in 1..n
  <2> TAKE i \in 1..n
  <2>1. PICK c \in Nat : c = Cardinality(Before(i)) /\ c <= n - 1 BY <1>4
  <2> QED BY <1>1, <1>2, <2>1
<1>7. \A i, j \in 1..n : Earlier(due[i], due[j]) => Place(due, i) < Place(due, j)
  <2> SUFFICES ASSUME NEW i \in 1..n, NEW j \in 1..n, Earlier(due[i], due[j])
               PROVE  Place(due, i) < Place(due, j)
    OBVIOUS
  <2>1. PICK c \in Nat : c = Cardinality(Before(i)) BY <1>4
  <2>2. PICK d \in Nat : d = Cardinality(Before(j)) BY <1>4
  <2>3. c < d BY <1>5, <2>1, <2>2
  <2> QED BY <1>2, <2>1, <2>2, <2>3
<1>8. \A k \in 1..n : \E i \in 1..n : Place(due, i) = k
  <2> DEFINE f == [i \in 1..n |-> Place(due, i)]
  <2>1. f \in [1..n -> 1..n] BY <1>6
  <2>2. ASSUME NEW i \in 1..n, NEW j \in 1..n, i # j PROVE f[i] # f[j]
    <3>1. Earlier(due[i], due[j]) \/ Earlier(due[j], due[i]) BY <1>1, <2>2 DEF Earlier
    <3>2. Place(due, i) \in 1..n /\ Place(due, j) \in 1..n BY <1>6
    <3>3. Place(due, i) < Place(due, j) \/ Place(due, j) < Place(due, i) BY <1>7, <3>1
    <3> QED BY <3>2, <3>3
  <2> HIDE DEF f
  <2>3. f \in Injection(1..n, 1..n) BY <2>1, <2>2 DEF Injection, IsInjective
  <2>4. f \in Surjection(1..n, 1..n) BY <1>3, <2>3, FS_Injection
  <2>5. \A k \in 1..n : \E i \in 1..n : f[i] = k BY <2>4 DEF Surjection
  <2> QED BY <2>5 DEF f
<1> QED BY <1>6, <1>7, <1>8

(* A schedule: numbered events in order, no two of one number.                 *)
Orderly(sched, n) ==
  /\ n \in Nat /\ sched = [k \in 1..n |-> sched[k]]
  /\ \A k \in 1..n : sched[k].tick \in Nat
  /\ \A j, k \in 1..n : j < k => Earlier(sched[j], sched[k])
  /\ \A j, k \in 1..n : sched[j].index = sched[k].index => j = k

SameEvents(sched, due, n) ==
  /\ \A k \in 1..n : \E i \in 1..n : sched[k] = due[i]
  /\ \A i \in 1..n : \E k \in 1..n : sched[k] = due[i]

(* An instant is a tick, a duration a number of them.                          *)
LEMMA TimesAreTicks ==
  ASSUME NEW spec \in Specs
  PROVE  AtS(spec) \in Nat /\ ParseDuration(spec.duration).total \in Nat
<1>1. spec.at \in Seq(STRING) /\ spec.duration \in Seq(STRING) BY RunAssumption
<1>2. AtS(spec) \in 0..MaxSeconds BY <1>1, DurationsFit DEF AtS
<1>3. ParseDuration(spec.duration).total \in 0..MaxSeconds BY <1>1, DurationsFit
<1> QED BY <1>2, <1>3, TextAssumption

(* Resolving sorts the events of a story and loses none.                       *)
LEMMA ResolveSorts ==
  ASSUME NEW story, story.events \in Seq(Specs), NEW seed
  PROVE  /\ Orderly(Resolve(story, seed), Len(story.events))
         /\ SameEvents(Resolve(story, seed), Scheduled(story, seed), Len(story.events))
<1> DEFINE n == Len(story.events)
           due == Scheduled(story, seed)
           at(k) == CHOOSE i \in DOMAIN due : Place(due, i) = k
           sched == Resolve(story, seed)
<1>1. n \in Nat /\ DOMAIN story.events = 1..n BY LenProperties
<1>2. Numbered(due, n)
  <2>1. ASSUME NEW i \in 1..n PROVE due[i].index = i /\ due[i].tick \in Nat
    <3>1. story.events[i] \in Specs BY <1>1
    <3>2. AtS(story.events[i]) \in Nat BY <3>1, TimesAreTicks
    <3> QED BY <1>1, <3>2 DEF Scheduled
  <2>2. DOMAIN due = 1..n BY <1>1 DEF Scheduled
  <2> QED BY <1>1, <2>1, <2>2 DEF Numbered
<1>3. sched = [k \in 1..n |-> due[at(k)]]
  BY <1>2 DEF Resolve, Numbered
<1>4. DOMAIN due = 1..n /\ \A i \in 1..n : due[i].index = i /\ due[i].tick \in Nat
  BY <1>2 DEF Numbered
<1> HIDE DEF n, due, sched
<1>5. \A i \in 1..n : Place(due, i) \in 1..n BY <1>2, PlacesAreTaken
<1>6. ASSUME NEW i \in 1..n, NEW j \in 1..n, Earlier(due[i], due[j])
      PROVE  Place(due, i) < Place(due, j)
  BY <1>2, <1>6, PlacesAreTaken
<1>7. ASSUME NEW k \in 1..n PROVE at(k) \in 1..n /\ Place(due, at(k)) = k
  <2>1. \E i \in 1..n : Place(due, i) = k BY <1>2, PlacesAreTaken
  <2> QED BY <1>4, <2>1
<1>8. ASSUME NEW i \in 1..n, NEW j \in 1..n, i # j
      PROVE  Earlier(due[i], due[j]) \/ Earlier(due[j], due[i])
  BY <1>4, <1>8 DEF Earlier
<1>9. ASSUME NEW i \in 1..n PROVE at(Place(due, i)) = i
  <2>1. PICK k \in 1..n : k = Place(due, i) BY <1>5
  <2>2. at(k) \in 1..n /\ Place(due, at(k)) = k BY <1>7
  <2>3. CASE at(k) # i
    <3>1. Earlier(due[i], due[at(k)]) \/ Earlier(due[at(k)], due[i]) BY <1>8, <2>2, <2>3
    <3>2. k < k BY <1>6, <2>1, <2>2, <3>1
    <3> QED BY <1>1, <2>1, <3>2 DEF n
  <2> QED BY <2>1, <2>3
<1> HIDE DEF at
<1>10. Orderly(sched, n)
  <2>1. ASSUME NEW j \in 1..n, NEW k \in 1..n, j < k
        PROVE  Earlier(sched[j], sched[k])
    <3>1. at(j) # at(k) BY <1>7, <2>1
    <3>2. Earlier(due[at(j)], due[at(k)]) \/ Earlier(due[at(k)], due[at(j)])
      BY <1>7, <1>8, <3>1
    <3>3. ~Earlier(due[at(k)], due[at(j)])
      <4>1. ~(k < j) BY <2>1
      <4> QED BY <1>6, <1>7, <4>1
    <3> QED BY <1>3, <3>2, <3>3
  <2>2. ASSUME NEW j \in 1..n, NEW k \in 1..n, sched[j].index = sched[k].index
        PROVE  j = k
    <3>1. at(j) = at(k) BY <1>3, <1>4, <1>7, <2>2
    <3> QED BY <1>7, <3>1
  <2>3. \A k \in 1..n : sched[k].tick \in Nat BY <1>3, <1>4, <1>7
  <2>4. sched = [k \in 1..n |-> sched[k]] BY <1>3
  <2> QED BY <1>1, <2>1, <2>2, <2>3, <2>4 DEF Orderly, n
<1>11. \A k \in 1..n : \E i \in 1..n : sched[k] = due[i]
  BY <1>3, <1>7
<1>12. ASSUME NEW i \in 1..n PROVE \E k \in 1..n : sched[k] = due[i]
  <2>1. PICK k \in 1..n : k = Place(due, i) BY <1>5
  <2> QED BY <1>3, <1>9, <2>1
<1> QED BY <1>10, <1>11, <1>12 DEF SameEvents, n, due, sched

(* The cursor stands at a tick: what comes before it is due before the tick.   *)
Boundary(sched, n, c, tick) ==
  /\ c \in 0..n
  /\ \A i \in 1..c : sched[i].tick < tick
  /\ \A i \in (c + 1)..n : sched[i].tick >= tick

(* There is one such place.                                                    *)
LEMMA OneBoundary ==
  ASSUME NEW n \in Nat, NEW sched, NEW tick \in Nat,
         \A k \in 1..n : sched[k].tick \in Nat,
         NEW c, Boundary(sched, n, c, tick), NEW d, Boundary(sched, n, d, tick)
  PROVE  c = d
<1>1. ASSUME NEW x, NEW y, Boundary(sched, n, x, tick), Boundary(sched, n, y, tick), x < y
      PROVE  FALSE
  <2>1. x \in 0..n /\ y \in 0..n BY <1>1 DEF Boundary
  <2>2. x + 1 \in 1..y /\ x + 1 \in (x + 1)..n /\ x + 1 \in 1..n BY <1>1, <2>1
  <2>3. sched[x + 1].tick < tick /\ sched[x + 1].tick >= tick BY <1>1, <2>2 DEF Boundary
  <2> QED BY <2>2, <2>3
<1>2. c \in 0..n /\ d \in 0..n BY DEF Boundary
<1> QED BY <1>1, <1>2

(* A schedule is a sequence of its length.                                     *)
LEMMA OrderlyLen ==
  ASSUME NEW sched, NEW n, Orderly(sched, n)
  PROVE  Len(sched) = n /\ sched \in Seq(Range(sched))
<1>1. n \in Nat /\ sched = [k \in 1..n |-> sched[k]] BY DEF Orderly
<1>2. sched \in [1..n -> Range(sched)] BY <1>1 DEF Range
<1> HIDE DEF Range
<1>3. sched \in Seq(Range(sched)) BY <1>1, <1>2
<1> QED BY <1>1, <1>3, LenProperties

(* What player.rs:65 fires is everything due before the next tick.             *)
LEMMA DueMoves ==
  ASSUME NEW sched, NEW n, Orderly(sched, n), NEW tick \in Nat,
         NEW c, Boundary(sched, n, c, tick)
  PROVE  /\ AfterDue(sched, c, tick) \in c..n
         /\ Boundary(sched, n, AfterDue(sched, c, tick), tick + 1)
         /\ \A i \in (c + 1)..AfterDue(sched, c, tick) : sched[i].tick = tick
<1> DEFINE later == {i \in (c + 1)..n : sched[i].tick > tick}
           first == CHOOSE i \in later : \A j \in later : i <= j
<1>1. n \in Nat /\ \A k \in 1..n : sched[k].tick \in Nat BY DEF Orderly
<1>2. /\ c \in 0..n
      /\ \A i \in 1..c : sched[i].tick < tick
      /\ \A i \in (c + 1)..n : sched[i].tick >= tick
  BY DEF Boundary
<1>3. AfterDue(sched, c, tick) = IF later = {} THEN n ELSE first - 1
  <2>1. Len(sched) = n BY OrderlyLen
  <2> QED BY <2>1 DEF AfterDue
<1>4. PICK now : now = AfterDue(sched, c, tick) OBVIOUS
<1>5. /\ now \in c..n
      /\ \A i \in (c + 1)..now : sched[i].tick <= tick
      /\ \A i \in (now + 1)..n : sched[i].tick > tick
  <2>1. CASE later = {}
    <3>1. now = n BY <1>3, <1>4, <2>1
    <3>2. \A i \in (c + 1)..n : i \in 1..n BY <1>1, <1>2
    <3>3. \A i \in (c + 1)..n : sched[i].tick <= tick BY <1>1, <2>1, <3>2
    <3> QED BY <1>1, <1>2, <3>1, <3>3
  <2>2. CASE later # {}
    <3>1. later \subseteq Nat BY <1>1, <1>2
    <3>2. \E m \in later : \A j \in later : m <= j
      <4> HIDE DEF later
      <4> QED BY <2>2, <3>1, LeastOf
    <3>3. first \in later /\ \A j \in later : first <= j BY <3>2
    <3>4. now = first - 1 BY <1>3, <1>4, <2>2
    <3> HIDE DEF first
    <3>5. first \in (c + 1)..n /\ sched[first].tick > tick BY <3>3
    <3>6. ASSUME NEW i \in (c + 1)..(first - 1) PROVE sched[i].tick <= tick
      <4>1. i \in (c + 1)..n /\ i \in 1..n /\ ~(first <= i) BY <1>1, <1>2, <3>5
      <4>2. ~(sched[i].tick > tick) BY <3>3, <4>1
      <4> QED BY <1>1, <4>1, <4>2
    <3>7. ASSUME NEW i \in first..n PROVE sched[i].tick > tick
      <4>1. first \in 1..n /\ i \in 1..n BY <1>1, <1>2, <3>5
      <4>2. i = first \/ Earlier(sched[first], sched[i])
        BY <4>1 DEF Orderly
      <4> QED BY <1>1, <3>5, <4>1, <4>2 DEF Earlier
    <3>8. first - 1 \in c..n /\ (first - 1) + 1 = first BY <1>1, <1>2, <3>5
    <3> QED BY <3>4, <3>6, <3>7, <3>8
  <2> QED BY <2>1, <2>2
<1>6. ASSUME NEW i \in (c + 1)..now PROVE sched[i].tick = tick
  <2>1. i \in (c + 1)..n /\ i \in 1..n BY <1>1, <1>2, <1>5
  <2> QED BY <1>1, <1>2, <1>5, <2>1
<1>7. Boundary(sched, n, now, tick + 1)
  <2>1. now \in 0..n BY <1>2, <1>5
  <2>2. ASSUME NEW i \in 1..now PROVE sched[i].tick < tick + 1
    <3>1. i \in 1..n /\ (i \in 1..c \/ i \in (c + 1)..now) BY <1>1, <1>2, <1>5
    <3> QED BY <1>1, <1>2, <1>6, <3>1
  <2>3. ASSUME NEW i \in (now + 1)..n PROVE sched[i].tick >= tick + 1
    <3>1. i \in 1..n BY <1>1, <2>1
    <3>2. sched[i].tick > tick BY <1>5
    <3>3. sched[i].tick \in Nat BY <1>1, <3>1
    <3> QED BY <3>2, <3>3
  <2> QED BY <2>1, <2>2, <2>3 DEF Boundary
<1> QED BY <1>4, <1>5, <1>6, <1>7

(* Catching up puts the cursor where it stood (player.rs:104).                 *)
LEMMA CaughtUp ==
  ASSUME NEW sched, NEW n, Orderly(sched, n), NEW tick \in Nat
  PROVE  Boundary(sched, n, CatchUp(sched, tick), tick)
<1> DEFINE later == {i \in 1..n : ~(sched[i].tick < tick)}
           past == {i \in 1..n : sched[i].tick < tick}
<1>1. n \in Nat /\ DOMAIN sched = 1..n /\ \A k \in 1..n : sched[k].tick \in Nat BY DEF Orderly
<1>2. CatchUp(sched, tick) = Cardinality(past) BY <1>1 DEF CatchUp
<1>3. \E c \in 0..n : past = 1..c /\ \A i \in (c + 1)..n : ~(sched[i].tick < tick)
  <2>1. CASE later = {}
    <3>1. past = 1..n BY <2>1
    <3>2. n \in 0..n BY <1>1
    <3> QED BY <1>1, <3>1, <3>2
  <2>2. CASE later # {}
    <3>1. later \subseteq Nat BY <1>1
    <3>2. PICK m \in later : \A j \in later : m <= j
      <4> HIDE DEF later
      <4> QED BY <2>2, <3>1, LeastOf
    <3>3. m \in 1..n /\ ~(sched[m].tick < tick) BY <3>2
    <3>4. ASSUME NEW i \in 1..(m - 1) PROVE i \in past
      <4>1. i \in 1..n /\ ~(m <= i) BY <1>1, <3>3
      <4> QED BY <3>2, <4>1
    <3>5. ASSUME NEW i \in m..n PROVE ~(sched[i].tick < tick)
      <4>1. i \in 1..n BY <1>1, <3>3
      <4>2. i = m \/ Earlier(sched[m], sched[i]) BY <3>3, <4>1 DEF Orderly
      <4> QED BY <1>1, <3>3, <4>1, <4>2 DEF Earlier
    <3>6. past = 1..(m - 1)
      <4>1. \A i \in past : i \in 1..n /\ ~(i \in m..n) BY <3>5
      <4>2. \A i \in past : i \in 1..(m - 1) BY <1>1, <3>3, <4>1
      <4> QED BY <3>4, <4>2
    <3>7. m - 1 \in 0..n /\ (m - 1) + 1 = m BY <1>1, <3>3
    <3> QED BY <3>5, <3>6, <3>7
  <2> QED BY <2>1, <2>2
<1>4. PICK c \in 0..n : past = 1..c /\ \A i \in (c + 1)..n : ~(sched[i].tick < tick)
  BY <1>3
<1>5. CatchUp(sched, tick) = c
  <2>1. Cardinality(1..c) = c BY <1>1, FS_Interval
  <2> QED BY <1>2, <1>4, <2>1
<1>6. \A i \in 1..c : sched[i].tick < tick BY <1>4
<1>7. ASSUME NEW i \in (c + 1)..n PROVE sched[i].tick >= tick
  <2>1. i \in 1..n BY <1>1
  <2> QED BY <1>1, <1>4, <2>1
<1> QED BY <1>5, <1>6, <1>7 DEF Boundary

(* What was applied is the beginning of the schedule.                          *)
Log(sched, c) == [k \in 1..c |-> <<sched[k].index, sched[k].rate, sched[k].tick>>]

Fired(due, tick) == [i \in DOMAIN due |-> <<due[i].index, due[i].rate, tick>>]

(* A tick carries it on to where the cursor goes.                              *)
LEMMA LogGrows ==
  ASSUME NEW sched, NEW n, Orderly(sched, n), NEW c \in 0..n, NEW d \in c..n,
         NEW tick, \A i \in (c + 1)..d : sched[i].tick = tick
  PROVE  /\ DOMAIN SubSeq(sched, c + 1, d) = 1..(d - c)
         /\ \A i \in 1..(d - c) : SubSeq(sched, c + 1, d)[i] = sched[c + i]
         /\ Log(sched, c) \o Fired(SubSeq(sched, c + 1, d), tick) = Log(sched, d)
<1> DEFINE due == SubSeq(sched, c + 1, d)
           more == Fired(due, tick)
           L == {<<sched[k].index, sched[k].rate, sched[k].tick>> : k \in 1..n}
<1>1. n \in Nat /\ c \in Nat /\ d \in Nat /\ c <= d /\ d <= n BY DEF Orderly
<1>2. Len(sched) = n /\ sched \in Seq(Range(sched)) BY OrderlyLen
<1>3. DOMAIN due = 1..(d - c) /\ \A i \in 1..(d - c) : due[i] = sched[c + i]
  <2> DEFINE a == c + 1
  <2>1. a \in Int /\ d \in Int /\ a..d \subseteq 1..n /\ d - a + 1 = d - c BY <1>1
  <2>2. \A i \in a..d : sched[i] \in Range(sched) BY <1>2, <2>1, LenProperties DEF Range
  <2> HIDE DEF a
  <2>3. /\ SubSeq(sched, a, d) \in Seq(Range(sched))
        /\ Len(SubSeq(sched, a, d)) = IF a <= d THEN d - a + 1 ELSE 0
        /\ \A i \in 1..(d - a + 1) : SubSeq(sched, a, d)[i] = sched[a + i - 1]
    BY <2>1, <2>2, SubSeqProperties
  <2>4. due = SubSeq(sched, a, d) BY DEF a
  <2>5. a = c + 1 BY DEF a
  <2>6. Len(due) = d - c BY <1>1, <2>3, <2>4, <2>5
  <2>7. \A i \in 1..(d - c) : due[i] = sched[c + i]
    <3> TAKE i \in 1..(d - c)
    <3>1. a + i - 1 = c + i BY <1>1, <2>5
    <3>2. i \in 1..(d - a + 1) BY <2>1, <2>5
    <3> QED BY <2>3, <2>4, <3>1, <3>2
  <2>8. DOMAIN due = 1..(d - c) BY <2>3, <2>4, <2>6, LenProperties
  <2> QED BY <2>7, <2>8
<1> HIDE DEF due
<1>4. ASSUME NEW i \in 1..(d - c)
      PROVE  more[i] = <<sched[c + i].index, sched[c + i].rate, sched[c + i].tick>>
  <2>1. c + i \in (c + 1)..d BY <1>1
  <2> QED BY <1>3, <2>1 DEF Fired
<1>5. Log(sched, c) \in Seq(L) /\ Len(Log(sched, c)) = c
  <2>1. \A k \in 1..c : k \in 1..n BY <1>1
  <2>2. Log(sched, c) \in [1..c -> L] BY <2>1 DEF Log
  <2> HIDE DEF L
  <2> QED BY <1>1, <2>2, LenProperties
<1>6. more \in Seq(L) /\ Len(more) = d - c
  <2>1. ASSUME NEW i \in 1..(d - c) PROVE more[i] \in L
    <3>1. c + i \in 1..n BY <1>1
    <3> QED BY <1>4, <3>1
  <2>2. more = [i \in 1..(d - c) |-> more[i]] BY <1>3 DEF Fired
  <2> HIDE DEF L, more
  <2>3. more \in [1..(d - c) -> L] BY <2>1, <2>2
  <2>4. d - c \in Nat BY <1>1
  <2> QED BY <2>3, <2>4, LenProperties
<1> HIDE DEF more, L
<1>7. /\ Log(sched, c) \o more \in Seq(L) /\ Len(Log(sched, c) \o more) = d
      /\ \A k \in 1..d : (Log(sched, c) \o more)[k]
                            = IF k <= c THEN Log(sched, c)[k] ELSE more[k - c]
  <2> DEFINE old == Log(sched, c)
  <2>1. /\ old \in Seq(L) /\ Len(old) = c /\ more \in Seq(L) /\ Len(more) = d - c
        /\ c + (d - c) = d
    BY <1>1, <1>5, <1>6
  <2> HIDE DEF old
  <2>2. /\ old \o more \in Seq(L) /\ Len(old \o more) = Len(old) + Len(more)
        /\ \A k \in 1..(Len(old) + Len(more)) :
             (old \o more)[k] = IF k <= Len(old) THEN old[k] ELSE more[k - Len(old)]
    BY <2>1, ConcatProperties
  <2> QED BY <2>1, <2>2 DEF old
<1>8. ASSUME NEW k \in 1..d
      PROVE  (Log(sched, c) \o more)[k]
               = <<sched[k].index, sched[k].rate, sched[k].tick>>
  <2>1. CASE k <= c
    <3>1. k \in 1..c BY <1>1, <2>1
    <3> QED BY <1>7, <2>1, <3>1 DEF Log
  <2>2. CASE ~(k <= c)
    <3>1. k - c \in 1..(d - c) /\ c + (k - c) = k BY <1>1, <2>2
    <3>2. more[k - c] = <<sched[k].index, sched[k].rate, sched[k].tick>> BY <1>4, <3>1
    <3> QED BY <1>7, <2>2, <3>2
  <2> QED BY <2>1, <2>2
<1>9. Log(sched, c) \o more = [k \in 1..d |-> (Log(sched, c) \o more)[k]]
  BY <1>7, LenProperties
<1>10. Log(sched, c) \o more = Log(sched, d) BY <1>8, <1>9 DEF Log
<1> QED BY <1>3, <1>10 DEF more, due

(* The beginning of a schedule up to a tick is the past of its story.          *)
LEMMA LogIsPast ==
  ASSUME NEW story, story.events \in Seq(Specs), NEW seed, NEW tick \in Nat,
         NEW c, Boundary(Resolve(story, seed), Len(story.events), c, tick)
  PROVE  HoldsPast(story, seed, tick, Log(Resolve(story, seed), c))
<1> DEFINE n == Len(story.events)
           sched == Resolve(story, seed)
           due == Scheduled(story, seed)
           Told(i) == <<i, Draw(story.events[i], seed, i), AtS(story.events[i])>>
           past == {i \in DOMAIN story.events : AtS(story.events[i]) < tick}
<1>1. n \in Nat /\ DOMAIN story.events = 1..n BY LenProperties
<1>2. \A i \in 1..n : /\ due[i].index = i /\ due[i].tick = AtS(story.events[i])
                      /\ due[i].rate = Draw(story.events[i], seed, i)
  BY <1>1 DEF Scheduled
<1>3. /\ \A k \in 1..n : \E i \in 1..n : sched[k] = due[i]
      /\ \A i \in 1..n : \E k \in 1..n : sched[k] = due[i]
      /\ Orderly(sched, n)
  <2>1. SameEvents(sched, due, n) /\ Orderly(sched, n) BY ResolveSorts
  <2> HIDE DEF n, sched, due
  <2> QED BY <2>1 DEF SameEvents
<1> HIDE DEF n, sched, due
<1>4. /\ c \in 0..n
      /\ \A i \in 1..c : sched[i].tick < tick
      /\ \A i \in (c + 1)..n : sched[i].tick >= tick
  BY DEF Boundary, n, sched
<1>5. \A k \in 1..n : sched[k].tick \in Nat BY <1>3 DEF Orderly
<1>6. \A k \in 1..c : k \in 1..n BY <1>1, <1>4 DEF n
<1>7. ASSUME NEW k \in 1..c PROVE \E i \in past : Log(sched, c)[k] = Told(i)
  <2>1. PICK i \in 1..n : sched[k] = due[i] BY <1>3, <1>6
  <2>2. i \in past BY <1>1, <1>2, <1>4, <2>1 DEF n
  <2> QED BY <1>2, <2>1, <2>2 DEF Log
<1>8. ASSUME NEW i \in past PROVE \E k \in 1..c : Log(sched, c)[k] = Told(i)
  <2>1. i \in 1..n BY <1>1 DEF n
  <2>2. PICK k \in 1..n : sched[k] = due[i] BY <1>3, <2>1
  <2>3. sched[k].tick < tick BY <1>2, <2>1, <2>2
  <2>4. k \notin (c + 1)..n BY <1>4, <1>5, <2>2, <2>3
  <2>5. k \in 1..c BY <1>1, <1>4, <2>4 DEF n
  <2> QED BY <1>2, <2>1, <2>2, <2>5 DEF Log
<1>9. Range(Log(sched, c)) = {Told(i) : i \in past}
  <2>1. DOMAIN Log(sched, c) = 1..c BY DEF Log
  <2> HIDE DEF Told, past
  <2> QED BY <1>7, <1>8, <2>1 DEF Range
<1>10. ASSUME NEW j \in DOMAIN Log(sched, c), NEW k \in DOMAIN Log(sched, c), j < k
       PROVE  \/ Log(sched, c)[j][3] < Log(sched, c)[k][3]
              \/ /\ Log(sched, c)[j][3] = Log(sched, c)[k][3]
                 /\ Log(sched, c)[j][1] < Log(sched, c)[k][1]
  <2>1. j \in 1..c /\ k \in 1..c BY DEF Log
  <2>2. Earlier(sched[j], sched[k]) BY <1>3, <1>6, <1>10, <2>1 DEF Orderly
  <2> QED BY <2>1, <2>2 DEF Earlier, Log
<1> QED BY <1>9, <1>10 DEF HoldsPast, sched

-------------------------------------------------------------------------------
(* A window is one of a data event of the schedule, and each has one.          *)
LEMMA WindowsAreScheduled ==
  ASSUME NEW sched, NEW n, Orderly(sched, n)
  PROVE  /\ WindowsOf(sched) \in Seq({Window(sched[k]) : k \in 1..n})
         /\ \A k \in 1..n : IsData(sched[k]) =>
              \E i \in DOMAIN WindowsOf(sched) : WindowsOf(sched)[i] = Window(sched[k])
<1> DEFINE W == {Window(sched[k]) : k \in 1..n}
           Op(ws, s) == IF IsData(s) THEN Append(ws, Window(s)) ELSE ws
           Loop(f) == [s \in SUBSET (1..n) |->
                         IF s = {} THEN << >> ELSE Op(f[s \ {Max(s)}], sched[Max(s)])]
           it == CHOOSE f : f = Loop(f)
           G == [p \in Seq(W) \X (1..n) |-> Op(p[1], sched[p[2]])]
           Shows(ws, k) == \E i \in DOMAIN ws : ws[i] = Window(sched[k])
           R == {p \in (SUBSET (1..n)) \X Seq(W) :
                   \A k \in p[1] : IsData(sched[k]) => Shows(p[2], k)}
<1>1. n \in Nat /\ DOMAIN sched = 1..n BY DEF Orderly
<1>2. WindowsOf(sched) = it[1..n] BY <1>1 DEF WindowsOf, FoldLeft, MapThenFoldSet
<1>3. ASSUME NEW ws \in Seq(W), NEW k \in 1..n
      PROVE  /\ Op(ws, sched[k]) \in Seq(W)
             /\ IsData(sched[k]) => Shows(Op(ws, sched[k]), k)
             /\ \A j \in 1..n : Shows(ws, j) => Shows(Op(ws, sched[k]), j)
  <2>1. Window(sched[k]) \in W OBVIOUS
  <2> HIDE DEF W
  <2>2. PICK w \in W : w = Window(sched[k]) BY <2>1
  <2>3. /\ Append(ws, w) \in Seq(W) /\ Len(Append(ws, w)) = Len(ws) + 1
        /\ \A i \in 1..Len(ws) : Append(ws, w)[i] = ws[i]
        /\ Append(ws, w)[Len(ws) + 1] = w
    BY <2>2, AppendProperties
  <2>4. Len(ws) \in Nat /\ DOMAIN ws = 1..Len(ws) BY LenProperties
  <2>5. DOMAIN Append(ws, w) = 1..(Len(ws) + 1) BY <2>3, LenProperties
  <2>6. CASE IsData(sched[k])
    <3>1. Op(ws, sched[k]) = Append(ws, w) BY <2>2, <2>6
    <3>2. Len(ws) + 1 \in DOMAIN Append(ws, w) BY <2>4, <2>5
    <3>3. \A i \in DOMAIN ws : i \in DOMAIN Append(ws, w) BY <2>4, <2>5
    <3> HIDE DEF Op
    <3>4. Shows(Append(ws, w), k) BY <2>2, <2>3, <3>2
    <3>5. ASSUME NEW j \in 1..n, Shows(ws, j) PROVE Shows(Append(ws, w), j)
      BY <2>3, <2>4, <3>3, <3>5
    <3> QED BY <2>3, <3>1, <3>4, <3>5
  <2>7. CASE ~IsData(sched[k]) BY <2>7
  <2> QED BY <2>6, <2>7
<1> HIDE DEF Op, W, Shows
<1>4. ASSUME NEW s \in SUBSET (1..n), s # {}
      PROVE  Max(s) \in s /\ Max(s) \in 1..n /\ s \ {Max(s)} \in SUBSET (1..n)
  BY <1>1, <1>4, MaxOfIndices
<1>5. << >> \in Seq(W) OBVIOUS
<1>6. \E f : f = Loop(f)
  <2>1. G \in [Seq(W) \X (1..n) -> Seq(W)] BY <1>3
  <2> HIDE DEF G
  <2>2. PICK f : FoldsTo(f, Seq(W), << >>, G, n) BY <1>1, <1>5, <2>1, FoldExists, Zenon
  <2>3. /\ f \in [SUBSET (1..n) -> Seq(W)]
        /\ \A s \in SUBSET (1..n) :
             f[s] = IF s = {} THEN << >> ELSE G[<<f[s \ {Max(s)}], Max(s)>>]
    BY <2>2 DEF FoldsTo
  <2>4. ASSUME NEW s \in SUBSET (1..n), s # {}
        PROVE  f[s] = Op(f[s \ {Max(s)}], sched[Max(s)])
    <3>1. PICK x \in Seq(W) : x = f[s \ {Max(s)}] BY <1>4, <2>3, <2>4
    <3>2. PICK k \in 1..n : k = Max(s) BY <1>4, <2>4
    <3>3. f[s] = G[<<x, k>>] BY <2>3, <2>4, <3>1, <3>2
    <3>4. G[<<x, k>>] = Op(x, sched[k])
      <4>1. <<x, k>> \in Seq(W) \X (1..n) OBVIOUS
      <4> QED BY <4>1 DEF G
    <3> QED BY <3>1, <3>2, <3>3, <3>4
  <2>5. \A s \in SUBSET (1..n) :
          f[s] = IF s = {} THEN << >> ELSE Op(f[s \ {Max(s)}], sched[Max(s)])
    BY <2>3, <2>4
  <2>6. f = [s \in SUBSET (1..n) |-> f[s]] BY <2>3
  <2>7. f = Loop(f) BY <2>5, <2>6
  <2> QED BY <2>7
<1>7. it = Loop(it) BY <1>6
<1> HIDE DEF it
<1>8. <<{}, it[{}]>> \in R
  <2>1. {} \in SUBSET (1..n) OBVIOUS
  <2>2. it[{}] = << >> BY <1>7, <2>1
  <2> QED BY <1>5, <2>1, <2>2
<1>9. ASSUME NEW s \in SUBSET (1..n), s # {}, <<s \ {Max(s)}, it[s \ {Max(s)}]>> \in R
      PROVE  <<s, it[s]>> \in R
  <2>1. PICK k \in 1..n : k = Max(s) /\ k \in s BY <1>4, <1>9
  <2>2. PICK ws \in Seq(W) : ws = it[s \ {k}] BY <1>9, <2>1
  <2>3. \A j \in s \ {k} : IsData(sched[j]) => Shows(ws, j) BY <1>9, <2>1, <2>2
  <2>4. it[s] = Op(ws, sched[k]) BY <1>7, <1>9, <2>1, <2>2
  <2>5. /\ Op(ws, sched[k]) \in Seq(W)
        /\ IsData(sched[k]) => Shows(Op(ws, sched[k]), k)
        /\ \A j \in 1..n : Shows(ws, j) => Shows(Op(ws, sched[k]), j)
    BY <1>3
  <2>6. \A j \in s : IsData(sched[j]) => Shows(it[s], j) BY <2>3, <2>4, <2>5
  <2> QED BY <2>4, <2>5, <2>6
<1>10. <<1..n, it[1..n]>> \in R
  <2> HIDE DEF R
  <2> QED BY <1>1, <1>8, <1>9, FoldStays
<1>11. it[1..n] \in Seq(W) /\ \A k \in 1..n : IsData(sched[k]) => Shows(it[1..n], k)
  BY <1>10
<1> QED BY <1>2, <1>11 DEF W, Shows

(* A window of an event, before its event fires or after.                      *)
Opens(w, s) == \E now \in {Forever, s.tick} : w = [Window(s) EXCEPT !.frozen = now]

OpensAll(ws, sched) ==
  /\ \A i \in DOMAIN ws : \E k \in DOMAIN sched : Opens(ws[i], sched[k])
  /\ \A k \in DOMAIN sched :
       IsData(sched[k]) => \E i \in DOMAIN ws : Opens(ws[i], sched[k])

(* A process begins with the windows of its schedule, all closed ...           *)
LEMMA WindowsBegin ==
  ASSUME NEW sched, NEW n, Orderly(sched, n)
  PROVE  OpensAll(WindowsOf(sched), sched)
<1> DEFINE ws == WindowsOf(sched)
           W == {Window(sched[k]) : k \in 1..n}
<1>1. n \in Nat /\ DOMAIN sched = 1..n BY DEF Orderly
<1>2. ws \in Seq(W) BY WindowsAreScheduled
<1>3. \A k \in 1..n : IsData(sched[k]) => \E i \in DOMAIN ws : ws[i] = Window(sched[k])
  BY WindowsAreScheduled
<1> HIDE DEF ws, W
<1>4. \A i \in DOMAIN ws : ws[i] \in W BY <1>2
<1>5. ASSUME NEW k \in 1..n PROVE Opens(Window(sched[k]), sched[k])
  <2>1. Window(sched[k]) = [Window(sched[k]) EXCEPT !.frozen = Forever] BY DEF Window
  <2> QED BY <2>1 DEF Opens
<1>6. ASSUME NEW i \in DOMAIN ws PROVE \E k \in DOMAIN sched : Opens(ws[i], sched[k])
  <2>1. PICK k \in 1..n : ws[i] = Window(sched[k]) BY <1>4 DEF W
  <2>2. Opens(ws[i], sched[k]) BY <1>5, <2>1
  <2> QED BY <1>1, <2>2
<1>7. ASSUME NEW k \in DOMAIN sched, IsData(sched[k])
      PROVE  \E i \in DOMAIN ws : Opens(ws[i], sched[k])
  <2>1. PICK i \in DOMAIN ws : ws[i] = Window(sched[k]) BY <1>1, <1>3, <1>7
  <2>2. Opens(ws[i], sched[k]) BY <1>1, <1>5, <2>1
  <2> QED BY <2>2
<1> QED BY <1>6, <1>7 DEF OpensAll, ws

(* ... and what fires opens, on its own tick.                                  *)
LEMMA WindowsOpen ==
  ASSUME NEW sched, NEW n, Orderly(sched, n), NEW ws, OpensAll(ws, sched),
         NEW fired, NEW now,
         \A k \in 1..n : sched[k].index \in fired => sched[k].tick = now
  PROVE  OpensAll(Opened(ws, fired, now), sched)
<1>1. n \in Nat /\ DOMAIN sched = 1..n BY DEF Orderly
<1>2. ASSUME NEW i \in DOMAIN ws, NEW k \in 1..n, Opens(ws[i], sched[k])
      PROVE  Opens(Opened(ws, fired, now)[i], sched[k])
  <2>1. PICK f \in {Forever, sched[k].tick} :
               ws[i] = [Window(sched[k]) EXCEPT !.frozen = f]
    BY <1>2 DEF Opens
  <2>2. ws[i].index = sched[k].index BY <2>1 DEF Window
  <2>3. CASE ws[i].index \in fired /\ ws[i].kind = "freeze"
    <3>1. Opened(ws, fired, now)[i] = [ws[i] EXCEPT !.frozen = now] BY <2>3 DEF Opened
    <3>2. Opened(ws, fired, now)[i] = [Window(sched[k]) EXCEPT !.frozen = now]
      <4>1. PICK w : w = Window(sched[k]) OBVIOUS
      <4>2. ws[i] = [w EXCEPT !.frozen = f] BY <2>1, <4>1
      <4>3. [ws[i] EXCEPT !.frozen = now] = [w EXCEPT !.frozen = now] BY <4>2
      <4> QED BY <3>1, <4>1, <4>3
    <3>3. now = sched[k].tick BY <2>2, <2>3
    <3> QED BY <3>2, <3>3 DEF Opens
  <2>4. CASE ~(ws[i].index \in fired /\ ws[i].kind = "freeze")
    <3>1. Opened(ws, fired, now)[i] = ws[i] BY <2>4 DEF Opened
    <3> QED BY <1>2, <3>1
  <2> QED BY <2>3, <2>4
<1>3. DOMAIN Opened(ws, fired, now) = DOMAIN ws BY DEF Opened
<1> QED BY <1>1, <1>2, <1>3 DEF OpensAll

-------------------------------------------------------------------------------
(* A tree, running or saved, is where a schedule and a cursor took it.         *)
PlaysStory(t, sched) ==
  IF t.story = NoStory THEN sched = << >>
  ELSE \E f \in Files : t.story = <<f>> /\ sched = Resolve(f, t.seed) /\ Accepted(f)

Kept(t, sched, c) ==
  /\ t = [tick |-> t.tick, story |-> t.story, seed |-> t.seed, applied |-> t.applied]
  /\ t.tick \in Nat
  /\ PlaysStory(t, sched)
  /\ Boundary(sched, Len(sched), c, t.tick)
  /\ t.applied = Log(sched, c)

RunInv ==
  /\ file \in Files
  /\ Kept(tree, schedule, cursor)
  /\ \E sched, c : Kept(disk, sched, c)
  /\ OpensAll(windows, schedule)
  /\ Idle => tree.story = NoStory /\ cursor = 0 /\ windows = << >>

(* A file of the run has a sequence of events and a seed or none.              *)
LEMMA FilesHaveEvents ==
  ASSUME NEW f \in Files
  PROVE  f.events \in Seq(Specs) /\ Len(f.events) \in Nat /\ f.seed \in Nat \cup {None}
<1>1. f.events \in Seq(Specs) /\ f.seed \in {h.seed : h \in Headers} BY DEF Files
<1>2. Len(f.events) \in Nat BY <1>1, LenProperties
<1>3. \A h \in Headers : h.seed \in Nat \cup {None} BY RunAssumption DEF None
<1> QED BY <1>1, <1>2, <1>3

(* What a tree plays is a schedule.                                            *)
LEMMA KeptOrderly ==
  ASSUME NEW t, NEW sched, PlaysStory(t, sched)
  PROVE  Orderly(sched, Len(sched))
<1>1. CASE t.story = NoStory
  <2>1. sched = << >> BY <1>1 DEF PlaysStory
  <2>2. Len(sched) = 0 BY <2>1
  <2>3. sched = [k \in 1..0 |-> sched[k]] BY <2>1
  <2> QED BY <2>2, <2>3 DEF Orderly
<1>2. CASE t.story # NoStory
  <2>1. PICK f \in Files : sched = Resolve(f, t.seed) BY <1>2 DEF PlaysStory
  <2>2. f.events \in Seq(Specs) BY FilesHaveEvents
  <2>3. Orderly(sched, Len(f.events)) BY <2>1, <2>2, ResolveSorts
  <2>4. Len(sched) = Len(f.events) BY <2>3, OrderlyLen
  <2> QED BY <2>3, <2>4
<1> QED BY <1>1, <1>2

(* A run picks a seed, so that its tree is no longer idle.                     *)
LEMMA SeedPicked ==
  ASSUME NEW stated \in Nat \cup {None}, NEW given \in Seeds \cup {None}
  PROVE  Pick(stated, given) \in Nat /\ Pick(stated, given) # None
BY RunAssumption DEF Pick, None

(* RunInv is inductive.                                                        *)
LEMMA RunBegins == Init => RunInv
<1> SUFFICES ASSUME Init PROVE RunInv OBVIOUS
<1>1. file \in Files BY FirstFile
<1>2. /\ tree = NoTree /\ disk = NoTree /\ schedule = << >> /\ cursor = 0
      /\ windows = << >>
  BY DEF Init
<1>3. Kept(NoTree, << >>, 0)
  <2>1. Len(<< >>) = 0 OBVIOUS
  <2>2. Boundary(<< >>, Len(<< >>), 0, 0) BY <2>1 DEF Boundary
  <2>3. << >> = Log(<< >>, 0) BY DEF Log
  <2> QED BY <2>2, <2>3 DEF Kept, NoTree, PlaysStory
<1>4. OpensAll(<< >>, << >>) BY DEF OpensAll
<1>5. NoTree.story = NoStory BY DEF NoTree
<1> QED BY <1>1, <1>2, <1>3, <1>4, <1>5 DEF RunInv

(* A start plays its schedule from the beginning.                              *)
LEMMA StartKeeps ==
  ASSUME RunInv, NEW flag \in Seeds \cup {None}, Start(flag)
  PROVE  RunInv'
<1> DEFINE seed == Pick(file.seed, flag)
           sched == Resolve(file, seed)
           t == [NoTree EXCEPT !.story = <<file>>, !.seed = seed]
<1>1. /\ schedule' = sched /\ windows' = WindowsOf(sched) /\ tree' = t /\ cursor' = 0
      /\ file' = file /\ disk' = disk /\ Accepted(file)
  BY DEF Start, Play
<1>2. file \in Files /\ file.events \in Seq(Specs) /\ file.seed \in Nat \cup {None}
  BY FilesHaveEvents DEF RunInv
<1>3. seed # None BY <1>2, SeedPicked
<1> HIDE DEF seed
<1>4. Orderly(sched, Len(file.events)) BY <1>2, ResolveSorts
<1>5. Len(sched) = Len(file.events) BY <1>4, OrderlyLen
<1> HIDE DEF sched
<1>6. Boundary(sched, Len(sched), 0, 0)
  <2>1. PICK n \in Nat : n = Len(sched) BY <1>4, <1>5 DEF Orderly
  <2>2. \A k \in 1..n : sched[k].tick \in Nat BY <1>4, <1>5, <2>1 DEF Orderly
  <2>3. \A k \in 1..n : sched[k].tick >= 0 BY <2>2
  <2> QED BY <2>1, <2>3 DEF Boundary
<1>7. t = [tick |-> 0, story |-> <<file>>, seed |-> seed, applied |-> << >>]
  <2>1. PICK s : s = <<file>> OBVIOUS
  <2>2. PICK r : r = [NoTree EXCEPT !.story = s] OBVIOUS
  <2>3. r = [tick |-> 0, story |-> s, seed |-> None, applied |-> << >>] BY <2>2 DEF NoTree
  <2>4. [r EXCEPT !.seed = seed]
          = [tick |-> 0, story |-> s, seed |-> seed, applied |-> << >>]
    BY <2>3
  <2>5. t = [r EXCEPT !.seed = seed] BY <2>1, <2>2
  <2> QED BY <2>1, <2>4, <2>5
<1>8. <<file>> # NoStory BY DEF NoStory
<1>9. PlaysStory(t, sched) BY <1>1, <1>2, <1>7, <1>8 DEF PlaysStory, sched
<1>10. << >> = Log(sched, 0) BY DEF Log
<1> HIDE DEF t
<1>11. Kept(t, sched, 0) BY <1>6, <1>7, <1>9, <1>10 DEF Kept
<1>12. OpensAll(WindowsOf(sched), sched) BY <1>4, WindowsBegin
<1>13. tree'.seed # None BY <1>1, <1>3, <1>7
<1> QED BY <1>1, <1>2, <1>11, <1>12, <1>13 DEF RunInv, Idle

(* A run without a scenario plays nothing.                                     *)
LEMMA StartPlainKeeps ==
  ASSUME RunInv, NEW flag \in Seeds \cup {None}, StartPlain(flag)
  PROVE  RunInv'
<1> DEFINE seed == Pick(None, flag)
           t == [NoTree EXCEPT !.seed = seed]
<1>1. /\ tree' = t
      /\ UNCHANGED <<file, schedule, cursor, windows, disk>>
  BY DEF StartPlain
<1>2. seed # None BY SeedPicked DEF None
<1> HIDE DEF seed
<1>3. t = [tick |-> 0, story |-> NoStory, seed |-> seed, applied |-> << >>] BY DEF NoTree
<1> HIDE DEF t
<1>4. tree.story = NoStory /\ cursor = 0 BY DEF RunInv, StartPlain
<1>5. schedule = << >> BY <1>4 DEF RunInv, Kept, PlaysStory
<1>6. Boundary(<< >>, Len(<< >>), 0, 0)
  <2>1. Len(<< >>) = 0 OBVIOUS
  <2> QED BY <2>1 DEF Boundary
<1>7. << >> = Log(<< >>, 0) BY DEF Log
<1>8. Kept(t, << >>, 0) BY <1>3, <1>6, <1>7 DEF Kept, PlaysStory
<1>9. tree'.seed # None BY <1>1, <1>2, <1>3
<1> QED BY <1>1, <1>4, <1>5, <1>8, <1>9 DEF RunInv, Idle

(* A tick fires what is due, and nothing else.                                 *)
LEMMA TickKeeps ==
  ASSUME RunInv, Tick
  PROVE  RunInv'
<1> DEFINE n == Len(schedule)
           now == AfterDue(schedule, cursor, tree.tick)
           due == SubSeq(schedule, cursor + 1, now)
           more == Fired(due, tree.tick)
           fired == {due[i].index : i \in Freezes(due)}
<1>1. /\ ~Idle /\ cursor' = now
      /\ tree' = [tree EXCEPT !.tick = @ + 1, !.applied = @ \o more]
      /\ windows' = Opened(windows, fired, tree.tick)
      /\ file' = file /\ schedule' = schedule /\ disk' = disk
  BY DEF Tick, Fired
<1>2. /\ tree = [tick |-> tree.tick, story |-> tree.story, seed |-> tree.seed,
                 applied |-> tree.applied]
      /\ tree.tick \in Nat /\ PlaysStory(tree, schedule)
      /\ Boundary(schedule, n, cursor, tree.tick)
      /\ tree.applied = Log(schedule, cursor)
  BY DEF RunInv, Kept
<1>3. Orderly(schedule, n) BY <1>2, KeptOrderly
<1> HIDE DEF n
<1>4. /\ now \in cursor..n
      /\ Boundary(schedule, n, now, tree.tick + 1)
      /\ \A i \in (cursor + 1)..now : schedule[i].tick = tree.tick
  BY <1>2, <1>3, DueMoves
<1> HIDE DEF now
<1>5. cursor \in 0..n /\ n \in Nat BY <1>2, <1>3 DEF Boundary, Orderly
<1>6. /\ DOMAIN due = 1..(now - cursor)
      /\ \A i \in 1..(now - cursor) : due[i] = schedule[cursor + i]
      /\ Log(schedule, cursor) \o more = Log(schedule, now)
  BY <1>3, <1>4, <1>5, LogGrows
<1> HIDE DEF due, more
<1>7. tree' = [tick |-> tree.tick + 1, story |-> tree.story, seed |-> tree.seed,
               applied |-> Log(schedule, now)]
  BY <1>1, <1>2, <1>6
<1>8. Kept(tree', schedule, now)
  <2>1. PlaysStory(tree', schedule) BY <1>2, <1>7 DEF PlaysStory
  <2>2. Boundary(schedule, Len(schedule), now, tree'.tick) BY <1>4, <1>7 DEF n
  <2> QED BY <1>2, <1>7, <2>1, <2>2 DEF Kept
<1>9. \A k \in 1..n : schedule[k].index \in fired => schedule[k].tick = tree.tick
  <2> SUFFICES ASSUME NEW k \in 1..n, schedule[k].index \in fired
               PROVE  schedule[k].tick = tree.tick
    OBVIOUS
  <2>1. PICK i \in 1..(now - cursor) : due[i].index = schedule[k].index
    BY <1>6 DEF Freezes
  <2>2. cursor + i \in (cursor + 1)..now /\ cursor + i \in 1..n BY <1>4, <1>5
  <2>3. schedule[cursor + i].index = schedule[k].index BY <1>6, <2>1
  <2>4. cursor + i = k BY <1>3, <2>2, <2>3 DEF Orderly
  <2> QED BY <1>4, <2>2, <2>4
<1> HIDE DEF fired
<1>10. OpensAll(windows', schedule)
  <2>1. OpensAll(windows, schedule) BY DEF RunInv
  <2> QED BY <1>1, <1>3, <1>9, <2>1, WindowsOpen
<1>11. tree'.seed # None BY <1>1, <1>7 DEF Idle
<1> QED BY <1>1, <1>8, <1>10, <1>11 DEF RunInv, Idle

(* A resumed run goes on where the saved one was.                              *)
LEMMA ResumeKeeps ==
  ASSUME RunInv, NEW story, NEW flag \in Seeds \cup {None}, Resume(story, flag)
  PROVE  RunInv'
<1> DEFINE seed == Pick(story.seed, flag)
           sched == Resolve(story, seed)
<1>1. /\ disk.story # NoStory /\ disk.story = <<story>> /\ disk.seed = seed
      /\ tree' = disk /\ schedule' = sched /\ windows' = WindowsOf(sched)
      /\ cursor' = CatchUp(sched, disk.tick)
      /\ file' = file /\ disk' = disk
  BY DEF Resume, Play, MayResume
<1>2. PICK old, c : Kept(disk, old, c) BY DEF RunInv
<1>3. story \in Files /\ old = sched
  <2>1. PICK f \in Files : disk.story = <<f>> /\ old = Resolve(f, disk.seed)
    BY <1>1, <1>2 DEF Kept, PlaysStory
  <2>2. f = story BY <1>1, <2>1
  <2> QED BY <1>1, <2>1, <2>2
<1>4. seed # None
  <2>1. story.seed \in Nat \cup {None} BY <1>3, FilesHaveEvents
  <2> QED BY <2>1, SeedPicked
<1> HIDE DEF seed
<1>5. /\ disk.tick \in Nat /\ PlaysStory(disk, sched)
      /\ Boundary(sched, Len(sched), c, disk.tick)
  BY <1>2, <1>3 DEF Kept
<1>6. Orderly(sched, Len(sched)) BY <1>5, KeptOrderly
<1> HIDE DEF sched
<1>7. Boundary(sched, Len(sched), CatchUp(sched, disk.tick), disk.tick)
  BY <1>5, <1>6, CaughtUp
<1>8. CatchUp(sched, disk.tick) = c
  <2>1. PICK n \in Nat : n = Len(sched) BY <1>6 DEF Orderly
  <2>2. \A k \in 1..n : sched[k].tick \in Nat BY <1>6, <2>1 DEF Orderly
  <2> QED BY <1>5, <1>7, <2>1, <2>2, OneBoundary
<1>9. Kept(tree', schedule', cursor') BY <1>1, <1>2, <1>3, <1>8
<1>10. \E s, d : Kept(disk', s, d) BY <1>1, <1>2
<1>11. OpensAll(windows', schedule') BY <1>1, <1>6, WindowsBegin
<1>12. tree'.seed # None BY <1>1, <1>4
<1>13. file' \in Files BY <1>1 DEF RunInv
<1> QED BY <1>9, <1>10, <1>11, <1>12, <1>13 DEF RunInv, Idle

(* Every action keeps RunInv.                                                  *)
LEMMA RunGoesOn == RunInv /\ [Next]_runVars => RunInv'
<1> SUFFICES ASSUME RunInv, [Next]_runVars PROVE RunInv' OBVIOUS
<1>1. file' \in Files BY FileStays DEF RunInv
<1>2. ASSUME NEW spec \in Specs, Write(spec) PROVE RunInv'
  BY <1>1, <1>2 DEF Write, RunInv, Idle
<1>3. ASSUME NEW flag \in Seeds \cup {None}, Start(flag) \/ StartPlain(flag) PROVE RunInv'
  BY <1>3, StartKeeps, StartPlainKeeps
<1>4. CASE Tick BY <1>4, TickKeeps
<1>5. CASE Save
  <2>1. tree' = tree /\ disk' = tree /\ UNCHANGED <<file, schedule, cursor, windows>>
    BY <1>5 DEF Save
  <2> QED BY <2>1 DEF RunInv, Idle
<1>6. ASSUME NEW story \in Others, NEW flag \in Seeds \cup {None}, Resume(story, flag)
      PROVE  RunInv'
  BY <1>6, ResumeKeeps
<1>7. CASE UNCHANGED runVars BY <1>7 DEF runVars, RunInv, Idle
<1> QED BY <1>2, <1>3, <1>4, <1>5, <1>6, <1>7 DEF Next

(* A tree holds exactly the past of its story: no event is lost, taken twice,  *)
(* out of turn or at another rate by cutting a run off and resuming it.        *)
THEOREM RunsHoldThePast == Spec => []TreeHoldsThePast
<1>1. RunInv => TreeHoldsThePast
  <2> SUFFICES ASSUME RunInv, tree.story # NoStory
               PROVE  HoldsPast(tree.story[1], tree.seed, tree.tick, tree.applied)
    BY DEF TreeHoldsThePast
  <2>1. /\ tree.tick \in Nat /\ PlaysStory(tree, schedule)
        /\ Boundary(schedule, Len(schedule), cursor, tree.tick)
        /\ tree.applied = Log(schedule, cursor)
    BY DEF RunInv, Kept
  <2>2. PICK f \in Files : tree.story = <<f>> /\ schedule = Resolve(f, tree.seed)
    BY <2>1 DEF PlaysStory
  <2>3. f.events \in Seq(Specs) BY FilesHaveEvents
  <2>4. Len(schedule) = Len(f.events)
    <3>1. Orderly(schedule, Len(f.events)) BY <2>2, <2>3, ResolveSorts
    <3> QED BY <3>1, OrderlyLen
  <2>5. HoldsPast(f, tree.seed, tree.tick, tree.applied)
    BY <2>1, <2>2, <2>3, <2>4, LogIsPast
  <2> QED BY <2>2, <2>5
<1> QED BY <1>1, RunBegins, RunGoesOn, PTL DEF Spec

(* A freeze shows the plant of the tick its event fired, in every run.         *)
THEOREM FreezesHoldOneMoment == Spec => []FreezeHoldsOneMoment
<1>1. RunInv => FreezeHoldsOneMoment
  <2> SUFFICES ASSUME RunInv, NEW i \in DOMAIN windows, windows[i].frozen # Forever
               PROVE  windows[i].frozen = windows[i].start
    BY DEF FreezeHoldsOneMoment
  <2>1. PICK k \in DOMAIN schedule : Opens(windows[i], schedule[k])
    BY DEF RunInv, OpensAll
  <2>2. PICK now \in {Forever, schedule[k].tick} :
          windows[i] = [Window(schedule[k]) EXCEPT !.frozen = now]
    BY <2>1 DEF Opens
  <2>3. windows[i].frozen = now /\ windows[i].start = schedule[k].tick BY <2>2 DEF Window
  <2> QED BY <2>2, <2>3
<1> QED BY <1>1, RunBegins, RunGoesOn, PTL DEF Spec

-------------------------------------------------------------------------------
(* What the rules have established of a story that is accepted.                *)
LEMMA AcceptedMeans ==
  ASSUME NEW f \in Files, Accepted(f), NEW i \in 1..Len(f.events)
  PROVE  /\ EventWhy(f.events[i]) = Ok
         /\ ~PastLength(f, AtS(f.events[i]))
         /\ OrderWhy(f.events, Times(f.events), i) = Ok
         /\ BurstWhy(f.events, Times(f.events), i) = Ok
<1> DEFINE n == Len(f.events)
           at == Times(f.events)
           whys == FieldWhys(f, at)
           bursts == [j \in DOMAIN f.events |-> BurstWhy(f.events, at, j)]
<1>1. n \in Nat /\ DOMAIN f.events = 1..n BY FilesHaveEvents, LenProperties
<1>2. DOMAIN whys = 0..n /\ DOMAIN bursts \subseteq 0..n BY <1>1 DEF FieldWhys
<1>3. Validate(f) = IF FirstOf(whys).why # Ok THEN FirstOf(whys) ELSE FirstOf(bursts)
  BY Zenon DEF Validate
<1>4. whys[i] = ListedWhy(f, at, i) /\ bursts[i] = BurstWhy(f.events, at, i)
      /\ i \in DOMAIN bursts
  BY <1>1 DEF FieldWhys
<1>5. at[i] = AtS(f.events[i]) BY <1>1 DEF Times
<1> HIDE DEF n, at, whys, bursts
<1>6. FirstOf(whys).why = Ok /\ FirstOf(bursts).why = Ok BY <1>3 DEF Accepted
<1>7. n \in Nat BY <1>1
<1>8. \A j \in DOMAIN whys : whys[j] = Ok
  <2>1. PICK a : a = FirstOf(whys) OBVIOUS
  <2>2. \/ a = [index |-> 0, why |-> Ok] /\ \A j \in DOMAIN whys : whys[j] = Ok
        \/ a.why # Ok
    BY <1>2, <1>7, <2>1, FirstIsFirst
  <2> QED BY <1>6, <2>1, <2>2
<1>9. \A j \in DOMAIN bursts : bursts[j] = Ok
  <2>1. PICK a : a = FirstOf(bursts) OBVIOUS
  <2>2. \/ a = [index |-> 0, why |-> Ok] /\ \A j \in DOMAIN bursts : bursts[j] = Ok
        \/ a.why # Ok
    BY <1>2, <1>7, <2>1, FirstIsFirst
  <2> QED BY <1>6, <2>1, <2>2
<1>10. i \in DOMAIN whys BY <1>2 DEF n
<1>11. ListedWhy(f, at, i) = Ok /\ BurstWhy(f.events, at, i) = Ok
  BY <1>4, <1>8, <1>9, <1>10
<1>12. /\ EventWhy(f.events[i]) = Ok /\ ~PastLength(f, at[i])
       /\ OrderWhy(f.events, at, i) = Ok
  BY <1>11 DEF ListedWhy, Must, ##, Ok, Refusal
<1> QED BY <1>5, <1>11, <1>12 DEF at

(* Physical events of one target are listed in the order of their instants:    *)
(* each rule compares with the last one only.                                  *)
LEMMA TargetsInOrder ==
  ASSUME NEW f \in Files, Accepted(f),
         NEW p \in 1..Len(f.events), NEW q \in 1..Len(f.events), p < q,
         f.events[q].target # NoPath, f.events[p].target = f.events[q].target
  PROVE  AtS(f.events[p]) < AtS(f.events[q])
<1> DEFINE n == Len(f.events)
           Same(j, i) == f.events[i].target # NoPath /\ f.events[j].target = f.events[i].target
           InOrder(i) == \A j \in 1..(i - 1) :
                           Same(j, i) => AtS(f.events[j]) < AtS(f.events[i])
           S == {m \in Nat : \A i \in 1..n : i <= m => InOrder(i)}
<1>1. n \in Nat /\ DOMAIN f.events = 1..n BY FilesHaveEvents, LenProperties
<1>2. \A i \in 1..n : AtS(f.events[i]) \in Nat
  <2> TAKE i \in 1..n
  <2>1. f.events[i] \in Specs BY <1>1, FilesHaveEvents
  <2> QED BY <2>1, TimesAreTicks
<1> HIDE DEF n
<1>3. ASSUME NEW i \in 1..n, \A k \in 1..n : k < i => InOrder(k) PROVE InOrder(i)
  <2> SUFFICES ASSUME NEW j \in 1..(i - 1), Same(j, i)
               PROVE  AtS(f.events[j]) < AtS(f.events[i])
    OBVIOUS
  <2> DEFINE same == {k \in 1..(i - 1) : Same(k, i)}
             last == CHOOSE k \in same : \A l \in same : l <= k
  <2>1. same \subseteq 1..n /\ j \in same BY <1>1
  <2>2. last \in same /\ \A l \in same : l <= last
    <3> HIDE DEF same
    <3>1. \A l \in same : l \in Int BY <2>1
    <3>2. \E k \in same : \A l \in same : l <= k BY <1>1, <2>1, <3>1, MaxOfIndices
    <3> QED BY <3>2
  <2>3. Times(f.events)[i] > Times(f.events)[last]
    <3>1. OrderWhy(f.events, Times(f.events), i) = Ok BY AcceptedMeans DEF n
    <3>2. OrderWhy(f.events, Times(f.events), i)
            = (Must(same = {} \/ Times(f.events)[i] # Times(f.events)[last], "at", "SharedTick")
               ## Must(same = {} \/ Times(f.events)[i] > Times(f.events)[last],
                       "at", "OutOfOrder"))
      BY DEF OrderWhy
    <3>3. same # {} BY <2>1
    <3> HIDE DEF same, last
    <3> QED BY <3>1, <3>2, <3>3 DEF Must, ##, Ok, Refusal
  <2> HIDE DEF last
  <2>4. last \in 1..(i - 1) /\ Same(last, i) /\ j <= last /\ last \in 1..n
    BY <2>1, <2>2
  <2>5. AtS(f.events[last]) < AtS(f.events[i])
    BY <1>1, <1>2, <2>3, <2>4 DEF Times
  <2>6. CASE j = last BY <2>5, <2>6
  <2>7. CASE j # last
    <3>1. last < i /\ j \in 1..(last - 1) /\ Same(j, last) BY <2>4, <2>7
    <3>2. AtS(f.events[j]) < AtS(f.events[last]) BY <1>3, <2>4, <3>1
    <3>3. j \in 1..n BY <2>1
    <3> QED BY <1>2, <2>4, <2>5, <3>2, <3>3
  <2> QED BY <2>6, <2>7
<1> HIDE DEF InOrder
<1>4. 0 \in S OBVIOUS
<1>5. ASSUME NEW m \in Nat, m \in S PROVE m + 1 \in S
  <2> SUFFICES ASSUME NEW i \in 1..n, i <= m + 1 PROVE InOrder(i)
    OBVIOUS
  <2>1. \A k \in 1..n : k < i => InOrder(k) BY <1>1, <1>5
  <2> QED BY <1>3, <2>1
<1>6. Nat \subseteq S
  <2> HIDE DEF S
  <2> QED BY <1>4, <1>5, NatSetInduction, Zenon
<1>7. InOrder(q) BY <1>1, <1>6 DEF n
<1> QED BY <1>7 DEF InOrder

(* A burst has its dropout, one with an end that is past by then.              *)
LEMMA BurstsHaveDropouts ==
  ASSUME NEW f \in Files, Accepted(f), NEW p \in 1..Len(f.events),
         f.events[p].fault = "backfill_burst", f.events[p].surface # NoSurface
  PROVE  \E j \in 1..Len(f.events) :
           LET e == f.events[j]
           IN /\ e.surface = f.events[p].surface /\ e.fault = "dropout"
              /\ e.duration # NoText
              /\ (AtS(e) + ParseDuration(e.duration).total) % (MaxSeconds + 1)
                   <= AtS(f.events[p])
<1>1. DOMAIN f.events = 1..Len(f.events) BY FilesHaveEvents, LenProperties
<1>2. BurstWhy(f.events, Times(f.events), p) = Ok BY AcceptedMeans
<1>3. PICK j \in 1..Len(f.events) :
        /\ f.events[j].surface = f.events[p].surface /\ f.events[j].fault = "dropout"
        /\ (Times(f.events)[j] + ParseDuration(f.events[j].duration).total) % (MaxSeconds + 1)
             <= Times(f.events)[p]
  BY <1>1, <1>2 DEF BurstWhy, Must, Ok, Refusal
<1>4. Times(f.events)[j] = AtS(f.events[j]) /\ Times(f.events)[p] = AtS(f.events[p])
  BY <1>1 DEF Times
<1>5. f.events[j].duration # NoText
  <2>1. EventWhy(f.events[j]) = Ok BY AcceptedMeans
  <2>2. f.events[j].target = NoPath
    BY <1>3, <2>1 DEF EventWhy, Must, ##, Ok, Refusal
  <2>3. DataWhy(f.events[j]) = Ok
    BY <1>3, <2>1, <2>2 DEF EventWhy, Must, ##, Ok, Refusal
  <2>4. DurationWhy(f.events[j]) = Ok
    BY <2>3 DEF DataWhy, Must, ##, Ok, Refusal
  <2> QED BY <1>3, <2>4 DEF DurationWhy, Must, Ok, Refusal
<1> QED BY <1>3, <1>4, <1>5

(* A story the rules accept plays whole: everything by its end, one action of  *)
(* a node at a tick, and for every burst a dropout of its surface that is over *)
(* by then, or that ends later than a u64 can say (validate.rs:133).           *)
THEOREM AcceptedStoriesPlay == Spec => []WholeStoryPlays
<1>1. ASSUME RunInv, tree.story # NoStory PROVE WholeStoryPlays
  <2> DEFINE n == Len(schedule)
             story == tree.story[1]
  <2>1. /\ tree.tick \in Nat /\ PlaysStory(tree, schedule)
        /\ Boundary(schedule, n, cursor, tree.tick)
        /\ tree.applied = Log(schedule, cursor)
    BY <1>1 DEF RunInv, Kept
  <2>2. PICK f \in Files : /\ tree.story = <<f>> /\ schedule = Resolve(f, tree.seed)
                           /\ Accepted(f)
    BY <1>1, <2>1 DEF PlaysStory
  <2>3. tree.story[1] = f BY <2>2
  <2>4. f.events \in Seq(Specs) /\ Len(f.events) \in Nat BY FilesHaveEvents
  <2>5. Orderly(schedule, Len(f.events)) BY <2>2, <2>4, ResolveSorts
  <2>6. n = Len(f.events) BY <2>5, OrderlyLen
  <2>7. DOMAIN f.events = 1..n BY <2>4, <2>6, LenProperties
  <2> DEFINE Due(i) == Scheduled(f, tree.seed)[i]
  <2>8. /\ \A k \in 1..n : \E i \in 1..n : schedule[k] = Due(i)
        /\ \A i \in 1..n : \E k \in 1..n : schedule[k] = Due(i)
    <3>1. PICK seed : seed = tree.seed OBVIOUS
    <3>2. SameEvents(Resolve(f, seed), Scheduled(f, seed), Len(f.events))
      BY <2>4, ResolveSorts
    <3>3. SameEvents(schedule, Scheduled(f, tree.seed), n) BY <2>2, <2>6, <3>1, <3>2
    <3> HIDE DEF n
    <3> QED BY <3>3 DEF SameEvents
  <2>9. \A i \in 1..n : /\ Due(i).index = i /\ Due(i).tick = AtS(f.events[i])
                        /\ Due(i).spec = f.events[i] /\ AtS(f.events[i]) \in Nat
    <3> TAKE i \in 1..n
    <3>1. f.events[i] \in Specs BY <2>4, <2>7
    <3>2. AtS(f.events[i]) \in Nat BY <3>1, TimesAreTicks
    <3> QED BY <2>7, <3>2 DEF Scheduled
  <2> HIDE DEF n, Due
  <2>10. /\ cursor \in 0..n /\ n \in Nat
         /\ \A i \in 1..cursor : schedule[i].tick < tree.tick
         /\ \A i \in (cursor + 1)..n : schedule[i].tick >= tree.tick
    BY <2>1, <2>4, <2>6 DEF Boundary
  <2>11. \A i \in 1..cursor : i \in 1..n BY <2>10
  <2>12. ASSUME f.length # NoText, tree.tick >= Ticks(f)
         PROVE  Len(tree.applied) = Len(f.events)
    <3>1. ASSUME cursor # n PROVE FALSE
      <4>1. cursor + 1 \in (cursor + 1)..n /\ cursor + 1 \in 1..n BY <2>10, <3>1
      <4>2. PICK i \in 1..n : schedule[cursor + 1] = Due(i) BY <2>8, <4>1
      <4>3. AtS(f.events[i]) >= tree.tick /\ AtS(f.events[i]) \in Nat
        BY <2>9, <2>10, <4>1, <4>2
      <4>4. ~(AtS(f.events[i]) >= Ticks(f))
        <5>1. ~PastLength(f, AtS(f.events[i])) BY <2>2, <2>6, AcceptedMeans
        <5> QED BY <2>12, <5>1 DEF PastLength, Ticks
      <4>5. Ticks(f) \in Nat
        <5>1. f.length \in Seq(STRING)
          <6>1. f.length \in {h.length : h \in Headers} BY DEF Files
          <6>2. \A h \in Headers : h.length \in Seq(STRING) BY RunAssumption
          <6> QED BY <6>1, <6>2
        <5>2. Ticks(f) \in 0..MaxSeconds BY <5>1, DurationsFit DEF Ticks
        <5> QED BY <5>2, TextAssumption
      <4> QED BY <2>1, <2>12, <4>3, <4>4, <4>5
    <3>2. tree.applied = [k \in 1..n |-> <<schedule[k].index, schedule[k].rate, schedule[k].tick>>]
      BY <2>1, <3>1 DEF Log
    <3>3. Len(tree.applied) = n BY <2>10, <3>2
    <3> QED BY <2>6, <3>3
  <2>13. ASSUME NEW i \in DOMAIN tree.applied, NEW j \in DOMAIN tree.applied, i < j,
                f.events[tree.applied[i][1]].target # NoPath,
                f.events[tree.applied[i][1]].target = f.events[tree.applied[j][1]].target
         PROVE  tree.applied[i][3] < tree.applied[j][3]
    <3>1. /\ DOMAIN tree.applied = 1..cursor
          /\ \A k \in 1..cursor : /\ tree.applied[k][1] = schedule[k].index
                                  /\ tree.applied[k][3] = schedule[k].tick
      BY <2>1 DEF Log
    <3>2. i \in 1..n /\ j \in 1..n BY <2>11, <3>1
    <3>3. PICK p \in 1..n : schedule[i] = Due(p) BY <2>8, <3>2
    <3>4. PICK q \in 1..n : schedule[j] = Due(q) BY <2>8, <3>2
    <3>5. Earlier(schedule[i], schedule[j]) BY <2>5, <2>6, <2>13, <3>2 DEF Orderly
    <3>6. \/ AtS(f.events[p]) < AtS(f.events[q])
          \/ AtS(f.events[p]) = AtS(f.events[q]) /\ p < q
      BY <2>9, <3>3, <3>4, <3>5 DEF Earlier
    <3>7. f.events[q].target # NoPath /\ f.events[p].target = f.events[q].target
      BY <2>9, <2>13, <3>1, <3>3, <3>4
    <3>8. AtS(f.events[p]) < AtS(f.events[q])
      <4>1. p < q => AtS(f.events[p]) < AtS(f.events[q])
        BY <2>2, <2>6, <3>7, TargetsInOrder
      <4> QED BY <3>6, <4>1
    <3> QED BY <2>9, <3>1, <3>3, <3>4, <3>8
  <2>14. ASSUME NEW surface \in {"mqtt", "modbus"},
                NEW i \in BackfillsDue(windows, surface, tree.tick)
         PROVE  \E d \in Dropouts(surface) :
                  DropoutEnd(d) <= windows[i].start \/ DropoutEnd(d) > MaxSeconds
    <3>1. i \in DOMAIN windows /\ windows[i].surface = surface
          /\ windows[i].kind = "backfill_burst"
      BY <2>14 DEF BackfillsDue
    <3>2. OpensAll(windows, schedule) /\ DOMAIN schedule = 1..n
      BY <1>1, <2>5, <2>6 DEF RunInv, Orderly
    <3>3. PICK k \in 1..n : Opens(windows[i], schedule[k]) BY <3>1, <3>2 DEF OpensAll
    <3>4. PICK p \in 1..n : schedule[k] = Due(p) BY <2>8
    <3>5. /\ windows[i].surface = schedule[k].spec.surface
          /\ windows[i].kind = schedule[k].spec.fault /\ windows[i].start = schedule[k].tick
      BY <3>3 DEF Opens, Window
    <3>6. /\ f.events[p].surface = surface /\ f.events[p].fault = "backfill_burst"
          /\ windows[i].start = AtS(f.events[p])
      BY <2>9, <3>1, <3>4, <3>5
    <3>7. surface # NoSurface BY DEF NoSurface
    <3>8. PICK j \in 1..n :
            /\ f.events[j].surface = surface /\ f.events[j].fault = "dropout"
            /\ f.events[j].duration # NoText
            /\ (AtS(f.events[j]) + ParseDuration(f.events[j].duration).total) % (MaxSeconds + 1)
                 <= AtS(f.events[p])
      BY <2>2, <2>6, <3>6, <3>7, BurstsHaveDropouts
    <3>9. PICK l \in 1..n : schedule[l] = Due(j) BY <2>8
    <3>10. schedule[l].spec = f.events[j] /\ schedule[l].tick = AtS(f.events[j])
      BY <2>9, <3>9
    <3>11. IsData(schedule[l]) BY <3>7, <3>8, <3>10 DEF IsData
    <3>12. PICK d \in DOMAIN windows : Opens(windows[d], schedule[l])
      BY <3>2, <3>11 DEF OpensAll
    <3>13. /\ windows[d].surface = f.events[j].surface
           /\ windows[d].kind = f.events[j].fault
           /\ windows[d].start = AtS(f.events[j]) /\ windows[d].index = j
      BY <2>9, <3>9, <3>10, <3>12 DEF Opens, Window
    <3>14. DropoutEnd(d) = AtS(f.events[j]) + ParseDuration(f.events[j].duration).total
      BY <2>3, <3>13 DEF DropoutEnd
    <3>15. ASSUME ~(DropoutEnd(d) > MaxSeconds) PROVE DropoutEnd(d) <= windows[i].start
      <4>1. f.events[j] \in Specs BY <2>4, <2>6
      <4>2. PICK x \in Nat : x = ParseDuration(f.events[j].duration).total
        BY <4>1, TimesAreTicks
      <4>3. PICK a \in Nat : a = AtS(f.events[j]) BY <2>9
      <4>4. PICK m \in Nat \ {0} : m = MaxSeconds + 1 BY TextAssumption
      <4>5. a + x \in 0..(m - 1) BY <3>14, <3>15, <4>2, <4>3, <4>4, TextAssumption
      <4>6. (a + x) % m = a + x BY <4>4, <4>5
      <4> QED BY <3>6, <3>8, <3>14, <4>2, <4>3, <4>4, <4>6
    <3>16. d \in Dropouts(surface) BY <3>8, <3>12, <3>13 DEF Dropouts
    <3> QED BY <3>15, <3>16
  <2> QED BY <2>3, <2>12, <2>13, <2>14 DEF WholeStoryPlays
<1>2. RunInv => WholeStoryPlays
  <2>1. tree.story = NoStory => WholeStoryPlays BY DEF WholeStoryPlays
  <2> QED BY <1>1, <2>1
<1> QED BY <1>2, RunBegins, RunGoesOn, PTL DEF Spec
================================================================================
