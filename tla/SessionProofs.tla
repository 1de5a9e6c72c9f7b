---------------------------- MODULE SessionProofs ----------------------------
(***************************************************************************)
(* The viewer's session, proved for every capacity of the journal, every   *)
(* size of a frame and of a slice of a jump, every set of scenarios and    *)
(* dates: the journal is the tail of the log, the story keeps its time     *)
(* and a jump lands on its target.                                         *)
(***************************************************************************)
EXTENDS SessionProperties, SequenceFacts, SequenceTheorems, FiniteSetTheorems

Events == {Raised(b) : b \in Bits} \cup {Cleared(b) : b \in Bits} \cup {Fault(i) : i \in Nat}
LogEntries == [seq : Nat, event : Events, time : Nat]
Sims == [start : Nat, tick : Nat, bits : SUBSET Bits, mail : Seq({Cleared(b) : b \in Bits}),
         count : Nat, setpoint : BOOLEAN]

-----------------------------------------------------------------------------
(* The journal beside the first m entries of a log L.                      *)

(* The ring holds the last of them, numbered.                              *)
Numbered(L, k) == Entry(k, L[k].event, L[k].time)
LastOf(L, m) == [i \in 1..Smaller(Capacity, m) |-> Numbered(L, m - Smaller(Capacity, m) + i)]

(* A bit is dated by a raise no later edge of the bit follows.             *)
Dated(raised, L, m) ==
  \A b \in DOMAIN raised :
    \E i \in 1..m : /\ L[i].event = Raised(b) /\ raised[b] = L[i].time
                    /\ \A k \in (i + 1)..m : ~Edge(L[k].event, b)

Tells(j, L, m, bits) ==
  j.entries = LastOf(L, m) /\ DOMAIN j.raised = bits /\ Dated(j.raised, L, m)

(* The bits dated after an event.                                          *)
Standing(bits, e) ==
  IF e.kind = "raised" THEN bits \cup {e.bit}
  ELSE IF e.kind = "cleared" THEN bits \ {e.bit} ELSE bits

LEMMA KeepIsLast ==
  ASSUME NEW L, NEW m \in Nat
  PROVE  Keep(LastOf(L, m), Numbered(L, m + 1)) = LastOf(L, m + 1)
<1> DEFINE c == Smaller(Capacity, m)
           d == Smaller(Capacity, m + 1)
           s == LastOf(L, m)
           e == Numbered(L, m + 1)
           at(k) == Numbered(L, k)
           S == {at(k) : k \in Int}
<1>1. Capacity \in Nat \ {0} /\ c \in Nat /\ d \in Nat
  BY SessionAssumption DEF Smaller
<1>2. s = [i \in 1..c |-> at(m - c + i)]
  BY Zenon DEF LastOf
<1>3. s \in Seq(S) /\ Len(s) = c /\ e \in S /\ e = at(m + 1)
  <2> HIDE DEF c
  <2>1. \A i \in 1..c : m - c + i \in Int
    BY <1>1
  <2>2. s \in [1..c -> S]
    <3> HIDE DEF s, at
    <3> QED
      BY <1>2, <2>1
  <2> HIDE DEF s, S
  <2>3. s \in Seq(S) /\ Len(s) = c
    BY <1>1, <2>2
  <2> QED
    BY <2>3 DEF S
<1>4. LastOf(L, m + 1) = [i \in 1..d |-> at((m + 1) - d + i)]
  BY DEF LastOf
<1> HIDE DEF s, at, S, e
<1>5. CASE m < Capacity
  <2>1. c = m /\ d = m + 1 /\ c # Capacity
    BY <1>1, <1>5 DEF Smaller
  <2> HIDE DEF c, d
  <2>2. Keep(s, e) = Append(s, e)
    BY <1>3, <2>1 DEF Keep
  <2>3. Append(s, e) = [i \in 1..(m + 1) |-> IF i <= m THEN s[i] ELSE e]
    BY <1>3, <2>1
  <2>4. ASSUME NEW i \in 1..(m + 1)
        PROVE  (IF i <= m THEN s[i] ELSE e) = at((m + 1) - d + i)
    <3>1. CASE i <= m
      <4>1. i \in 1..c /\ m - c + i = i /\ (m + 1) - d + i = i
        BY <2>1, <3>1
      <4> QED
        BY <1>2, <3>1, <4>1
    <3>2. CASE ~(i <= m)
      <4>1. (m + 1) - d + i = m + 1
        BY <2>1, <3>2
      <4> QED
        BY <1>3, <3>2, <4>1
    <3> QED
      BY <3>1, <3>2
  <2> QED
    BY <1>4, <2>1, <2>2, <2>3, <2>4 DEF s, e
<1>6. CASE ~(m < Capacity)
  <2>1. c = Capacity /\ d = c /\ c > 0
    BY <1>1, <1>6 DEF Smaller
  <2> HIDE DEF c, d
  <2>2. Keep(s, e) = Append(Tail(s), e)
    BY <1>3, <2>1 DEF Keep
  <2>3. Tail(s) \in Seq(S) /\ Len(Tail(s)) = c - 1 /\ \A i \in 1..(c - 1) : Tail(s)[i] = s[i + 1]
    BY <1>1, <1>3, <2>1
  <2>4. Append(Tail(s), e) = [i \in 1..c |-> IF i <= c - 1 THEN Tail(s)[i] ELSE e]
    <3> DEFINE u == Tail(s)
    <3> HIDE DEF u
    <3>1. u \in Seq(S) /\ Len(u) = c - 1
      BY <2>3 DEF u
    <3>2. Append(u, e) = [i \in 1..(Len(u) + 1) |-> IF i <= Len(u) THEN u[i] ELSE e]
      BY <1>3, <3>1
    <3> QED
      BY <1>1, <3>1, <3>2 DEF u
  <2>5. ASSUME NEW i \in 1..c
        PROVE  (IF i <= c - 1 THEN Tail(s)[i] ELSE e) = at((m + 1) - d + i)
    <3>1. CASE i <= c - 1
      <4> DEFINE k == i + 1
      <4>1. k \in 1..c /\ m - c + k = (m + 1) - d + i /\ i \in 1..(c - 1)
        BY <1>1, <2>1, <3>1
      <4> HIDE DEF k
      <4>2. s[k] = at(m - c + k)
        BY <1>2, <4>1
      <4> QED
        BY <2>3, <3>1, <4>1, <4>2 DEF k
    <3>2. CASE ~(i <= c - 1)
      <4>1. (m + 1) - d + i = m + 1
        BY <1>1, <2>1, <3>2
      <4> QED
        BY <1>3, <3>2, <4>1
    <3> QED
      BY <3>1, <3>2
  <2>6. Append(Tail(s), e) = [i \in 1..d |-> at((m + 1) - d + i)]
    BY <2>1, <2>4, <2>5
  <2> QED
    BY <1>4, <2>2, <2>6 DEF s, e
<1> QED
  BY <1>5, <1>6

(* One event more.                                                         *)
LEMMA NoteTells ==
  ASSUME NEW L, NEW m \in Nat, NEW j, NEW bits, Tells(j, L, m, bits),
         L[m + 1].event \in Events
  PROVE  Tells(Note(j, m + 1, L[m + 1].event, L[m + 1].time), L, m + 1,
               Standing(bits, L[m + 1].event))
<1> DEFINE e == L[m + 1].event
           t == L[m + 1].time
           n == Note(j, m + 1, e, t)
<1>1. n.entries = LastOf(L, m + 1)
  BY KeepIsLast DEF Note, Tells, Numbered
<1>2. /\ e.kind = "raised" => e = Raised(e.bit)
      /\ e.kind \in {"raised", "cleared", "fault"}
  <2> HIDE DEF e
  <2>1. e \in Events
    BY DEF e
  <2>2. CASE \E b \in Bits : e = Raised(b)
    BY <2>2 DEF Raised
  <2>3. CASE \E b \in Bits : e = Cleared(b)
    BY <2>3 DEF Cleared
  <2>4. CASE \E i \in Nat : e = Fault(i)
    BY <2>4 DEF Fault
  <2> QED
    BY <2>1, <2>2, <2>3, <2>4 DEF Events
<1>3. DOMAIN n.raised = Standing(bits, e)
  <2> HIDE DEF e, t
  <2> QED
    BY DEF Note, Standing, Tells
<1>4. ASSUME NEW b \in DOMAIN n.raised
      PROVE  \E i \in 1..(m + 1) : /\ L[i].event = Raised(b) /\ n.raised[b] = L[i].time
                                   /\ \A k \in (i + 1)..(m + 1) : ~Edge(L[k].event, b)
  <2>1. CASE Edge(e, b)
    <3>1. e.kind = "raised" /\ e.bit = b /\ n.raised[b] = t
      <4> HIDE DEF e, t
      <4> QED
        BY <1>2, <1>3, <1>4, <2>1 DEF Edge, Standing, Note, Tells
    <3>2. L[m + 1].event = Raised(b) /\ n.raised[b] = L[m + 1].time
      BY <1>2, <3>1
    <3>3. m + 1 \in 1..(m + 1) /\ ((m + 1) + 1)..(m + 1) = {}
      OBVIOUS
    <3> HIDE DEF n
    <3> QED
      BY <3>2, <3>3
  <2>2. CASE ~Edge(e, b)
    <3>1. b \in DOMAIN j.raised /\ n.raised[b] = j.raised[b]
      <4> HIDE DEF e, t
      <4> QED
        BY <1>2, <1>3, <1>4, <2>2 DEF Edge, Standing, Note, Tells
    <3>2. PICK i \in 1..m : /\ L[i].event = Raised(b) /\ j.raised[b] = L[i].time
                            /\ \A k \in (i + 1)..m : ~Edge(L[k].event, b)
      BY <3>1 DEF Tells, Dated
    <3>3. i \in 1..(m + 1) /\ (i + 1)..(m + 1) = ((i + 1)..m) \cup {m + 1}
      OBVIOUS
    <3> HIDE DEF n
    <3> QED
      BY <2>2, <3>1, <3>2, <3>3
  <2> QED
    BY <2>1, <2>2
<1> HIDE DEF n
<1>5. Dated(n.raised, L, m + 1)
  BY <1>4 DEF Dated
<1> QED
  BY <1>1, <1>3, <1>5 DEF Tells, n

-----------------------------------------------------------------------------
(* What Record computes.                                                   *)

Notes(f, j, events, count, time, n) ==
  f = [i \in 0..n |-> IF i = 0 THEN j
                      ELSE Note(f[i - 1], count - Len(events) + i, events[i], time)]

LEMMA NotesExist ==
  ASSUME NEW j, NEW events, NEW count, NEW time
  PROVE  \A n \in Nat : \E f : Notes(f, j, events, count, time, n)
<1> DEFINE step(x, i) == Note(x, count - Len(events) + i, events[i], time)
           S == {n \in Nat : \E f : Notes(f, j, events, count, time, n)}
<1> HIDE DEF step
<1>0. \A f, n : Notes(f, j, events, count, time, n)
                  <=> f = [i \in 0..n |-> IF i = 0 THEN j ELSE step(f[i - 1], i)]
  BY DEF Notes, step
<1>1. 0 \in S
  <2>1. [i \in 0..0 |-> j] = [i \in 0..0 |-> IF i = 0 THEN j ELSE step([k \in 0..0 |-> j][i - 1], i)]
    OBVIOUS
  <2>2. Notes([i \in 0..0 |-> j], j, events, count, time, 0)
    BY <1>0, <2>1
  <2> QED
    BY <2>2
<1>2. ASSUME NEW n \in Nat, n \in S PROVE n + 1 \in S
  <2>1. PICK f : f = [i \in 0..n |-> IF i = 0 THEN j ELSE step(f[i - 1], i)]
    BY <1>0, <1>2
  <2> DEFINE g == [i \in 0..(n + 1) |-> IF i = n + 1 THEN step(f[n], n + 1) ELSE f[i]]
  <2>2. \A i \in 0..n : g[i] = f[i]
    OBVIOUS
  <2>3. ASSUME NEW i \in 0..(n + 1)
        PROVE  g[i] = IF i = 0 THEN j ELSE step(g[i - 1], i)
    <3>1. CASE i = n + 1
      <4>1. g[i] = step(f[n], i) /\ i # 0
        BY <3>1
      <4>2. i - 1 = n /\ n \in 0..n /\ g[i - 1] = f[n]
        BY <2>2, <3>1
      <4> HIDE DEF g
      <4> QED
        BY <4>1, <4>2
    <3>2. CASE i # n + 1
      <4>1. i \in 0..n /\ g[i] = f[i] /\ (i # 0 => i - 1 \in 0..n /\ g[i - 1] = f[i - 1])
        BY <2>2, <3>2
      <4>2. f[i] = IF i = 0 THEN j ELSE step(f[i - 1], i)
        BY <2>1, <4>1
      <4> HIDE DEF g
      <4> QED
        BY <4>1, <4>2
    <3> QED
      BY <3>1, <3>2
  <2>4. g = [i \in 0..(n + 1) |-> g[i]]
    OBVIOUS
  <2> HIDE DEF g
  <2>5. g = [i \in 0..(n + 1) |-> IF i = 0 THEN j ELSE step(g[i - 1], i)]
    BY <2>3, <2>4
  <2> QED
    BY <1>0, <2>5
<1>3. Nat \subseteq S
  <2> HIDE DEF S
  <2> QED
    BY <1>1, <1>2, NatSetInduction
<1> QED
  BY <1>3

(* Record is the end of a run over the events.                             *)
Runs(g, j, events, count, time) ==
  /\ g[0] = j
  /\ \A i \in 1..Len(events) :
       g[i] = Note(g[i - 1], count - Len(events) + i, events[i], time)

LEMMA RecordRuns ==
  ASSUME NEW j, NEW events, Len(events) \in Nat, NEW count, NEW time
  PROVE  \E g : Runs(g, j, events, count, time) /\ Record(j, events, count, time) = g[Len(events)]
<1> DEFINE n == Len(events)
           g == CHOOSE f : f = [i \in 0..n |->
                  IF i = 0 THEN j ELSE Note(f[i - 1], count - Len(events) + i, events[i], time)]
<1>1. Notes(g, j, events, count, time, n)
  <2>1. PICK f : Notes(f, j, events, count, time, n)
    BY NotesExist
  <2> QED
    BY <2>1 DEF Notes
<1>2. Record(j, events, count, time) = g[n]
  BY DEF Record
<1> HIDE DEF g
<1>3. \A i \in 0..n : g[i] = IF i = 0 THEN j
                             ELSE Note(g[i - 1], count - Len(events) + i, events[i], time)
  BY <1>1 DEF Notes
<1>4. g[0] = j /\ \A i \in 1..n : i \in 0..n /\ i # 0
  BY <1>3
<1>5. Runs(g, j, events, count, time)
  BY <1>3, <1>4 DEF Runs
<1> QED
  BY <1>2, <1>5

(* Events recorded as a log has them; the bits dated go through D.         *)
LEMMA RecordTells ==
  ASSUME NEW L, NEW m \in Nat, NEW events, Len(events) \in Nat, NEW time, NEW j, NEW D,
         \A i \in 1..Len(events) : /\ L[m + i].event = events[i] /\ L[m + i].time = time
                                   /\ events[i] \in Events
                                   /\ D[i] = Standing(D[i - 1], events[i]),
         Tells(j, L, m, D[0])
  PROVE  Tells(Record(j, events, m + Len(events), time), L, m + Len(events), D[Len(events)])
<1> DEFINE n == Len(events)
           c == m + n
<1>0. n = Len(events) /\ n \in Nat /\ c \in Nat /\ c - n = m
  OBVIOUS
<1> HIDE DEF n, c
<1>1. PICK g : Runs(g, j, events, c, time) /\ Record(j, events, c, time) = g[n]
  BY ONLY <1>0, RecordRuns
<1>2. ASSUME NEW i \in 1..n
      PROVE  /\ g[i] = Note(g[i - 1], m + i, events[i], time)
             /\ L[m + i].event = events[i] /\ L[m + i].time = time /\ events[i] \in Events
             /\ D[i] = Standing(D[i - 1], events[i])
  <2>1. g[i] = Note(g[i - 1], c - n + i, events[i], time)
    BY <1>0, <1>1 DEF Runs
  <2> QED
    BY <1>0, <2>1
<1> DEFINE S == {i \in Nat : i <= n => Tells(g[i], L, m + i, D[i])}
<1>3. 0 \in S
  <2>1. g[0] = j /\ m + 0 = m
    BY <1>1 DEF Runs
  <2> QED
    BY <2>1
<1>4. ASSUME NEW i \in Nat, i \in S PROVE i + 1 \in S
  <2> SUFFICES ASSUME i + 1 <= n PROVE Tells(g[i + 1], L, m + (i + 1), D[i + 1])
    OBVIOUS
  <2> DEFINE k == i + 1
             a == m + i
  <2>1. k \in 1..n /\ k - 1 = i /\ i <= n /\ a \in Nat /\ m + k = a + 1
    BY <1>0
  <2>2. Tells(g[i], L, a, D[i])
    BY <1>4, <2>1
  <2> HIDE DEF k, a
  <2>3. /\ g[k] = Note(g[i], a + 1, events[k], time)
        /\ L[a + 1].event = events[k] /\ L[a + 1].time = time /\ events[k] \in Events
        /\ D[k] = Standing(D[i], events[k])
    BY <1>2, <2>1
  <2>4. Tells(g[k], L, a + 1, D[k])
    BY <2>1, <2>2, <2>3, NoteTells
  <2> QED
    BY <2>1, <2>4 DEF k
<1>5. Nat \subseteq S
  <2> HIDE DEF S
  <2> QED
    BY <1>3, <1>4, NatSetInduction
<1>6. Tells(g[n], L, c, D[n])
  <2>1. n \in S /\ m + n = c
    BY <1>0, <1>5 DEF c
  <2> QED
    BY <2>1
<1> QED
  BY <1>1, <1>6 DEF c, n

-----------------------------------------------------------------------------
(* The schedule of a story.                                                *)

Behind(schedule, tick) == {i \in DOMAIN schedule : schedule[i].tick < tick}
Faults(schedule, from, upto) == {i \in from..upto : ~schedule[i].wire}
Ascending(s) == \A j, k \in DOMAIN s : j < k => s[j] < s[k]

(* What came due is the next stretch, and all of it on this tick.          *)
LEMMA DueIs ==
  ASSUME NEW c \in Cases, NEW tick \in Nat, NEW k \in 0..Len(c.schedule),
         Behind(c.schedule, tick) = 1..k
  PROVE  LET u == Due(c.schedule, k, tick)
         IN  /\ u \in k..Len(c.schedule) /\ Behind(c.schedule, tick + 1) = 1..u
             /\ \A i \in (k + 1)..u : c.schedule[i].tick = tick
<1> DEFINE s == c.schedule
           n == Len(s)
           T == {i \in (k + 1)..n : s[i].tick <= tick}
           u == Due(s, k, tick)
<1>1. /\ s \in Seq([tick : Nat, wire : BOOLEAN]) /\ n \in Nat /\ DOMAIN s = 1..n
      /\ \A i \in 1..n : s[i].tick \in Nat
      /\ \A i, j \in 1..n : i <= j => s[i].tick <= s[j].tick
      /\ k \in 0..n
  <2>1. s \in Seq([tick : Nat, wire : BOOLEAN])
    BY SessionAssumption
  <2>2. \A i, j \in DOMAIN s : i <= j => s[i].tick <= s[j].tick
    BY SessionAssumption
  <2>3. k \in 0..n
    OBVIOUS
  <2> HIDE DEF s
  <2>4. n \in Nat /\ DOMAIN s = 1..n /\ \A i \in 1..n : s[i] \in [tick : Nat, wire : BOOLEAN]
    <3> DEFINE P == [tick : Nat, wire : BOOLEAN]
    <3> HIDE DEF P
    <3>1. s \in Seq(P)
      BY <2>1 DEF P
    <3>2. n \in Nat /\ DOMAIN s = 1..n /\ \A i \in 1..n : s[i] \in P
      BY <3>1
    <3> QED
      BY <3>2 DEF P
  <2>5. \A i \in 1..n : s[i].tick \in Nat
    BY <2>4
  <2> QED
    BY <2>1, <2>2, <2>3, <2>4, <2>5
<1>2. u = k + Cardinality(T)
  BY DEF Due
<1> HIDE DEF u, s
<1>3. ASSUME NEW i \in 1..n
      PROVE  i \in 1..k <=> s[i].tick < tick
  BY <1>1 DEF Behind, s
<1>4. \E v \in k..n : T = (k + 1)..v
  <2>1. CASE T = {}
    <3>1. T = (k + 1)..k /\ k \in k..n
      BY <1>1, <2>1
    <3> QED
      BY <3>1
  <2>2. CASE T # {}
    <3>1. T \subseteq 1..n
      BY <1>1
    <3>2. Max(T) \in T /\ \A y \in T : Max(T) >= y
      <4> HIDE DEF T
      <4> QED
        BY <1>1, <2>2, <3>1, MaxOfIndices
    <3> DEFINE v == Max(T)
    <3> HIDE DEF v
    <3>3. v \in T /\ \A y \in T : v >= y
      BY <3>2 DEF v
    <3>4. v \in (k + 1)..n /\ s[v].tick <= tick /\ v \in k..n
      BY <1>1, <3>3
    <3>5. ASSUME NEW i \in (k + 1)..v PROVE i \in T
      <4>1. i \in 1..n /\ v \in 1..n /\ i <= v /\ i \in (k + 1)..n
        BY <1>1, <3>4
      <4>2. s[i].tick <= s[v].tick /\ s[i].tick \in Nat /\ s[v].tick \in Nat
        BY <1>1, <4>1
      <4> QED
        BY <3>4, <4>1, <4>2
    <3>6. ASSUME NEW i \in T PROVE i \in (k + 1)..v
      BY <1>1, <3>3, <3>6
    <3>7. T = (k + 1)..v
      <4> HIDE DEF T
      <4> QED
        BY <3>5, <3>6
    <3> QED
      BY <3>4, <3>7
  <2> QED
    BY <2>1, <2>2
<1>5. PICK v \in k..n : T = (k + 1)..v
  BY <1>4
<1>6. u = v
  <2>1. k + 1 \in Int /\ v \in Int
    BY <1>1
  <2>2. Cardinality((k + 1)..v) = IF k + 1 > v THEN 0 ELSE v - (k + 1) + 1
    BY <2>1, FS_Interval
  <2> HIDE DEF T
  <2> QED
    BY <1>1, <1>2, <1>5, <2>2
<1>7. ASSUME NEW i \in 1..n PROVE i \in 1..v <=> s[i].tick < tick + 1
  <2>1. CASE i \in 1..k
    BY <1>1, <1>3, <1>5, <2>1
  <2>2. CASE i \notin 1..k
    <3>1. i \in (k + 1)..n
      BY <1>1, <2>2
    <3>2. i \in (k + 1)..v <=> s[i].tick <= tick
      BY <1>5, <3>1
    <3> QED
      BY <1>1, <3>1, <3>2
  <2> QED
    BY <2>1, <2>2
<1>8. Behind(s, tick + 1) = 1..v
  <2>1. Behind(s, tick + 1) = {i \in 1..n : s[i].tick < tick + 1}
    BY <1>1 DEF Behind
  <2>2. 1..v = {i \in 1..n : i \in 1..v}
    BY <1>1
  <2> QED
    BY <1>7, <2>1, <2>2
<1>9. ASSUME NEW i \in (k + 1)..v PROVE s[i].tick = tick
  <2>1. i \in 1..n /\ i \notin 1..k
    BY <1>1
  <2>2. i \in T
    BY <1>5
  <2>3. s[i].tick \in Nat /\ s[i].tick <= tick /\ ~(s[i].tick < tick)
    BY <1>1, <1>3, <2>1, <2>2
  <2> QED
    BY <2>3
<1> QED
  BY <1>5, <1>6, <1>8, <1>9 DEF u, s

(* What reaches the plant of a stretch: its faults, once and in order.     *)
LEMMA ForPlantIs ==
  ASSUME NEW schedule, NEW from \in Nat, NEW upto \in Nat, from <= upto
  PROVE  LET s == ForPlant(schedule, from, upto)
         IN  /\ s \in Seq(Nat) /\ Ascending(s)
             /\ ToSet(s) = Faults(schedule, from + 1, upto)
<1> DEFINE n == upto - from
           seqs == [k \in 1..n |-> IF schedule[from + k].wire THEN <<>> ELSE <<from + k>>]
           Picked(i) == {x \in (from + 1)..(from + i) : ~schedule[x].wire}
           R == {p \in Nat \X Seq(Nat) :
                   p[1] \in 1..n /\ Ascending(p[2]) /\ ToSet(p[2]) = Picked(p[1])}
           s == ForPlant(schedule, from, upto)
<1>1. n \in Nat /\ seqs \in Seq(Seq(Nat)) /\ Len(seqs) = n /\ from + n = upto
  <2>0. n \in Nat /\ from + n = upto
    OBVIOUS
  <2>1. \A k \in 1..n : seqs[k] \in Seq(Nat)
    <3> TAKE k \in 1..n
    <3>1. from + k \in Nat
      OBVIOUS
    <3>2. <<from + k>> \in Seq(Nat) /\ << >> \in Seq(Nat)
      BY <3>1
    <3> HIDE DEF n
    <3> QED
      BY <3>2
  <2>2. seqs = [k \in 1..n |-> seqs[k]]
    OBVIOUS
  <2> HIDE DEF seqs, n
  <2>3. seqs \in [1..n -> Seq(Nat)]
    BY <2>1, <2>2
  <2> QED
    BY <2>0, <2>3
<1>2. s = FlattenSeq(seqs)
  BY DEF ForPlant
<1>3. CASE n = 0
  <2>1. seqs = << >>
    <3> HIDE DEF seqs
    <3> QED
      BY <1>1, <1>3
  <2>2. s = << >>
    <3> HIDE DEF seqs
    <3> QED
      BY <1>2, <2>1 DEF FlattenSeq
  <2>3. (from + 1)..upto = {}
    BY <1>3
  <2> HIDE DEF s
  <2> QED
    BY <2>2, <2>3 DEF Ascending, ToSet, s, Faults
<1>4. CASE n # 0
  <2>1. ASSUME NEW i \in 1..n
        PROVE  seqs[i] = IF schedule[from + i].wire THEN <<>> ELSE <<from + i>>
    OBVIOUS
  <2> HIDE DEF seqs
  <2>2. <<1, seqs[1]>> \in R
    <3>1. 1 \in 1..n /\ from + 1 \in Nat /\ (from + 1)..(from + 1) = {from + 1}
      BY <1>1, <1>4
    <3>2. CASE schedule[from + 1].wire
      <4>1. seqs[1] = << >> /\ Picked(1) = {}
        BY <2>1, <3>1, <3>2
      <4>2. Ascending(<< >>) /\ ToSet(<< >>) = {} /\ << >> \in Seq(Nat)
        BY DEF Ascending, ToSet
      <4> HIDE DEF Picked, n
      <4> QED
        BY <3>1, <4>1, <4>2
    <3>3. CASE ~schedule[from + 1].wire
      <4> DEFINE y == from + 1
      <4>1. seqs[1] = <<y>> /\ Picked(1) = {y} /\ y \in Nat
        BY <2>1, <3>1, <3>3
      <4>2. Ascending(<<y>>) /\ ToSet(<<y>>) = {y} /\ <<y>> \in Seq(Nat)
        <5> HIDE DEF y
        <5>1. DOMAIN <<y>> = {1} /\ <<y>>[1] = y /\ <<y>> \in Seq(Nat)
          BY <4>1
        <5> QED
          BY <5>1 DEF Ascending, ToSet
      <4> HIDE DEF Picked, n, y
      <4> QED
        BY <3>1, <4>1, <4>2
    <3> QED
      BY <3>2, <3>3
  <2>3. ASSUME NEW i \in 1..(n - 1), NEW r, <<i, r>> \in R
        PROVE  <<i + 1, r \o seqs[i + 1]>> \in R
    <3>1. r \in Seq(Nat) /\ Ascending(r) /\ ToSet(r) = Picked(i)
      BY <2>3
    <3>2. i + 1 \in 1..n /\ i + 1 \in Nat /\ i \in Nat /\ (from + i) + 1 = from + (i + 1)
      BY <1>1
    <3> DEFINE y == from + (i + 1)
    <3>3. y \in Nat /\ (from + 1)..(from + (i + 1)) = ((from + 1)..(from + i)) \cup {y}
      BY <3>2
    <3>4. \A x \in ToSet(r) : x < y /\ x \in Nat
      BY <3>1, <3>2
    <3>5. CASE schedule[y].wire
      <4>1. seqs[i + 1] = << >> /\ Picked(i + 1) = Picked(i)
        BY <2>1, <3>2, <3>3, <3>5
      <4>2. r \o << >> = r
        BY <3>1
      <4> HIDE DEF Picked, n
      <4> QED
        BY <3>1, <3>2, <4>1, <4>2
    <3>6. CASE ~schedule[y].wire
      <4>1. seqs[i + 1] = <<y>> /\ Picked(i + 1) = Picked(i) \cup {y}
        BY <2>1, <3>2, <3>3, <3>6
      <4> HIDE DEF y
      <4> DEFINE q == r \o <<y>>
      <4>2. /\ q \in Seq(Nat) /\ Len(r) \in Nat /\ DOMAIN r = 1..Len(r)
            /\ DOMAIN q = 1..(Len(r) + 1) /\ q[Len(r) + 1] = y
            /\ \A j \in 1..Len(r) : q[j] = r[j]
        BY <3>1, <3>3
      <4> HIDE DEF q
      <4>3. Ascending(q)
        <5> SUFFICES ASSUME NEW j \in DOMAIN q, NEW k \in DOMAIN q, j < k PROVE q[j] < q[k]
          BY DEF Ascending
        <5>1. j \in 1..Len(r) /\ q[j] = r[j]
          BY <4>2
        <5>2. CASE k \in 1..Len(r)
          BY <3>1, <4>2, <5>1, <5>2 DEF Ascending
        <5>3. CASE k \notin 1..Len(r)
          <6>1. k = Len(r) + 1 /\ q[k] = y
            BY <4>2, <5>3
          <6>2. r[j] \in ToSet(r)
            BY <4>2, <5>1 DEF ToSet
          <6> QED
            BY <3>4, <5>1, <6>1, <6>2
        <5> QED
          BY <5>2, <5>3
      <4>4. ToSet(q) = ToSet(r) \cup {y}
        <5>1. 1..(Len(r) + 1) = (1..Len(r)) \cup {Len(r) + 1}
          BY <4>2
        <5> QED
          BY <4>2, <5>1 DEF ToSet
      <4>5. r \o seqs[i + 1] = q
        BY <4>1 DEF q
      <4> HIDE DEF Picked, n
      <4> QED
        BY <3>1, <3>2, <4>1, <4>2, <4>3, <4>4, <4>5
    <3> QED
      BY <3>5, <3>6
  <2>4. <<n, FlattenSeq(seqs)>> \in R
    <3> HIDE DEF R, n
    <3> QED
      BY <1>1, <1>4, <2>2, <2>3, FlattenLoop
  <2>5. s \in Seq(Nat) /\ Ascending(s) /\ ToSet(s) = Picked(n)
    <3> HIDE DEF s
    <3> QED
      BY <1>2, <2>4
  <2>6. Picked(n) = Faults(schedule, from + 1, upto)
    BY <1>1 DEF Faults
  <2> HIDE DEF s, Picked
  <2> QED
    BY <2>5, <2>6 DEF s
<1> QED
  BY <1>1, <1>3, <1>4

(* What of a story was applied, in order and each fault on its own tick.   *)
Played(a, schedule, k) ==
  /\ a \in Seq(Nat \X Nat)
  /\ ToSet(a) = {<<i, schedule[i].tick>> : i \in Faults(schedule, 1, k)}
  /\ \A x, y \in DOMAIN a : x < y => a[x][1] < a[y][1]

StorySound(s, tick, a) ==
  \/ s = << >>
  \/ \E c \in Cases : \E k \in 0..Len(c.schedule) :
       /\ s = <<[case |-> c, cursor |-> k]>>
       /\ Behind(c.schedule, tick) = 1..k /\ Played(a, c.schedule, k)

(* A stretch of the schedule played on one tick.                           *)
LEMMA PlaysOn ==
  ASSUME NEW schedule, NEW k \in Nat, NEW u \in Nat, k <= u, NEW tick \in Nat, NEW a,
         Played(a, schedule, k), \A i \in (k + 1)..u : schedule[i].tick = tick,
         NEW due, due \in Seq(Nat), Ascending(due),
         ToSet(due) = Faults(schedule, k + 1, u)
  PROVE  Played(a \o [i \in DOMAIN due |-> <<due[i], tick>>], schedule, u)
<1> DEFINE d == [i \in DOMAIN due |-> <<due[i], tick>>]
           P == Nat \X Nat
           at(i) == <<i, schedule[i].tick>>
<1>1. d \in Seq(P) /\ DOMAIN d = DOMAIN due /\ \A i \in DOMAIN d : d[i] = <<due[i], tick>>
  <2>1. DOMAIN due = 1..Len(due) /\ Len(due) \in Nat /\ \A i \in DOMAIN due : due[i] \in Nat
    OBVIOUS
  <2>2. d \in [1..Len(due) -> P]
    BY <2>1
  <2> HIDE DEF P
  <2>3. d \in Seq(P)
    <3> DEFINE n == Len(due)
    <3>1. n \in Nat /\ d \in [1..n -> P]
      BY <2>1, <2>2
    <3> HIDE DEF d, n
    <3> QED
      BY <3>1
  <2>4. DOMAIN d = DOMAIN due /\ \A i \in DOMAIN d : d[i] = <<due[i], tick>>
    OBVIOUS
  <2> HIDE DEF d
  <2> QED
    BY <2>3, <2>4
<1>2. a \in Seq(P)
  BY DEF Played
<1> HIDE DEF d, P
<1> DEFINE q == a \o d
<1>3. /\ q \in Seq(P) /\ Len(a) \in Nat /\ DOMAIN a = 1..Len(a)
      /\ \A i \in DOMAIN a : i \in DOMAIN q /\ q[i] = a[i]
      /\ \A i \in DOMAIN d : Len(a) + i \in DOMAIN q /\ q[Len(a) + i] = d[i]
  <2>1. DOMAIN a = 1..Len(a)
    BY <1>2
  <2>2. d \in Seq(P)
    BY <1>1
  <2> QED
    BY ONLY <2>1, <2>2, <1>2, ConcatFacts DEF q
<1>4. \A i \in DOMAIN q : \/ i \in DOMAIN a
                          \/ i - Len(a) \in DOMAIN d /\ q[i] = d[i - Len(a)]
  BY <1>1, <1>2, AfterTheFirst
<1>5. DOMAIN q \subseteq Nat
  BY <1>3
<1> HIDE DEF q
<1>6. \A i \in DOMAIN a : a[i][1] \in 1..k
  <2> TAKE i \in DOMAIN a
  <2>1. a[i] \in ToSet(a)
    BY DEF ToSet
  <2>2. PICK j \in Faults(schedule, 1, k) : a[i] = <<j, schedule[j].tick>>
    BY <2>1 DEF Played
  <2>3. j \in 1..k
    BY DEF Faults
  <2> QED
    BY <2>2, <2>3
<1>7. \A i \in DOMAIN d : d[i][1] = due[i] /\ due[i] \in (k + 1)..u
  <2> TAKE i \in DOMAIN d
  <2>1. due[i] \in ToSet(due)
    BY <1>1 DEF ToSet
  <2>2. due[i] \in (k + 1)..u
    BY <2>1 DEF Faults
  <2> QED
    BY <1>1, <2>2
<1>8. \A x, y \in DOMAIN q : x < y => q[x][1] < q[y][1]
  <2> SUFFICES ASSUME NEW x \in DOMAIN q, NEW y \in DOMAIN q, x < y PROVE q[x][1] < q[y][1]
    OBVIOUS
  <2>0. x \in Nat /\ y \in Nat
    BY <1>5
  <2>1. CASE y \in DOMAIN a
    <3>1. x \in DOMAIN a
      <4>1. x \notin DOMAIN a => x - Len(a) \in DOMAIN d
        BY <1>4
      <4>2. x - Len(a) \in DOMAIN d => x - Len(a) >= 1
        BY <1>1
      <4> QED
        BY <1>3, <2>0, <2>1, <4>1, <4>2
    <3> QED
      BY <1>3, <2>1, <3>1 DEF Played
  <2>2. CASE y \notin DOMAIN a /\ x \in DOMAIN a
    <3>1. q[x][1] \in 1..k
      BY <1>3, <1>6, <2>2
    <3>2. q[y][1] \in (k + 1)..u
      BY <1>4, <1>7, <2>2
    <3> QED
      BY <3>1, <3>2
  <2>3. CASE y \notin DOMAIN a /\ x \notin DOMAIN a
    <3> DEFINE i == x - Len(a)
               j == y - Len(a)
    <3>1. i \in DOMAIN d /\ j \in DOMAIN d /\ q[x] = d[i] /\ q[y] = d[j]
      BY <1>4, <2>3
    <3>2. i < j
      BY <1>3, <2>0
    <3> HIDE DEF i, j
    <3>3. due[i] < due[j]
      BY <1>1, <3>1, <3>2 DEF Ascending
    <3> QED
      BY <1>7, <3>1, <3>3
  <2> QED
    BY <2>1, <2>2, <2>3
<1>9. ToSet(q) = {at(i) : i \in Faults(schedule, 1, u)}
  <2> DEFINE K == Faults(schedule, 1, k)
             U == Faults(schedule, k + 1, u)
             W == Faults(schedule, 1, u)
  <2>1. W = K \cup U
    BY DEF Faults
  <2>2. ToSet(q) = ToSet(a) \cup ToSet(d)
    BY <1>3, <1>4 DEF ToSet
  <2>3. ToSet(a) = {at(i) : i \in K}
    BY DEF Played
  <2>4. \A i \in U : at(i) = <<i, tick>>
    BY DEF Faults
  <2>5. ToSet(d) = {at(i) : i \in U}
    <3>1. ToSet(due) = U
      OBVIOUS
    <3>2. ToSet(d) = {<<i, tick>> : i \in ToSet(due)}
      <4>1. ASSUME NEW e
            PROVE  e \in ToSet(d) <=> \E i \in DOMAIN due : e = <<due[i], tick>>
        BY <1>1 DEF ToSet
      <4>2. ASSUME NEW e
            PROVE  e \in {<<i, tick>> : i \in ToSet(due)}
                     <=> \E i \in DOMAIN due : e = <<due[i], tick>>
        BY DEF ToSet
      <4> QED
        BY <4>1, <4>2
    <3> HIDE DEF U, at
    <3> QED
      BY <2>4, <3>1, <3>2
  <2> HIDE DEF K, U, W, at
  <2>6. ToSet(q) = {at(i) : i \in W}
    BY <2>1, <2>2, <2>3, <2>5
  <2> QED
    BY <2>6 DEF W, at
<1> QED
  BY <1>3, <1>8, <1>9 DEF Played, q, d, P

(* What a tick does with the story.                                        *)
LEMMA StoryGoesOn ==
  ASSUME NEW s, NEW tick \in Nat, NEW a, StorySound(s, tick, a)
  PROVE  LET schedule == IF s = << >> THEN << >> ELSE s[1].case.schedule
             cursor   == IF s = << >> THEN 0 ELSE s[1].cursor
             upto     == Due(schedule, cursor, tick)
             due      == ForPlant(schedule, cursor, upto)
         IN  /\ due \in Seq(Nat)
             /\ StorySound(IF s = << >> THEN << >> ELSE <<[s[1] EXCEPT !.cursor = upto]>>,
                           tick + 1, a \o [i \in DOMAIN due |-> <<due[i], tick>>])
<1>1. CASE s = << >>
  <2>1. Due(<< >>, 0, tick) = 0
    <3>1. {i \in (0 + 1)..Len(<< >>) : << >>[i].tick <= tick} = {}
      OBVIOUS
    <3>2. Cardinality({}) = 0
      BY FS_EmptySet
    <3> QED
      BY <3>1, <3>2 DEF Due
  <2>2. ForPlant(<< >>, 0, 0) \in Seq(Nat)
    BY ForPlantIs
  <2> QED
    BY <1>1, <2>1, <2>2 DEF StorySound
<1>2. CASE s # << >>
  <2>0. PICK c \in Cases : \E k \in 0..Len(c.schedule) :
          /\ s = <<[case |-> c, cursor |-> k]>>
          /\ Behind(c.schedule, tick) = 1..k /\ Played(a, c.schedule, k)
    BY <1>2 DEF StorySound
  <2>1. PICK k \in 0..Len(c.schedule) :
          /\ s = <<[case |-> c, cursor |-> k]>>
          /\ Behind(c.schedule, tick) = 1..k /\ Played(a, c.schedule, k)
    BY <2>0
  <2> DEFINE u == Due(c.schedule, k, tick)
             due == ForPlant(c.schedule, k, u)
  <2>2. /\ u \in k..Len(c.schedule) /\ Behind(c.schedule, tick + 1) = 1..u
        /\ \A i \in (k + 1)..u : c.schedule[i].tick = tick
    BY <2>1, DueIs
  <2>3. Len(c.schedule) \in Nat
    <3>1. c.schedule \in Seq([tick : Nat, wire : BOOLEAN])
      BY SessionAssumption
    <3> QED
      BY <3>1
  <2> HIDE DEF u
  <2>4. k \in Nat /\ u \in Nat /\ k <= u /\ u \in 0..Len(c.schedule)
    BY <2>2, <2>3
  <2>5. /\ due \in Seq(Nat) /\ Ascending(due)
        /\ ToSet(due) = Faults(c.schedule, k + 1, u)
    BY <2>4, ForPlantIs
  <2> HIDE DEF due
  <2>6. Played(a \o [i \in DOMAIN due |-> <<due[i], tick>>], c.schedule, u)
    BY <2>1, <2>2, <2>4, <2>5, PlaysOn
  <2>7. [s[1] EXCEPT !.cursor = u] = [case |-> c, cursor |-> u]
    BY <2>1
  <2>8. s[1].case.schedule = c.schedule /\ s[1].cursor = k
    BY <2>1
  <2>9. StorySound(<<[case |-> c, cursor |-> u]>>, tick + 1,
                   a \o [i \in DOMAIN due |-> <<due[i], tick>>])
    BY <2>2, <2>4, <2>6 DEF StorySound
  <2> QED
    BY <1>2, <2>5, <2>7, <2>8, <2>9 DEF u, due
<1> QED
  BY <1>1, <1>2

-----------------------------------------------------------------------------
(* The world a tick moves.                                                 *)

(* The bits whose clears wait in the mailbox.                              *)
Dropped(mail) == {mail[k].bit : k \in DOMAIN mail}

(* The journal beside the log and the plant: the bits it dates are those   *)
(* that are set and those whose clears wait.                               *)
LogSound(s, L, j) ==
  /\ s \in Sims /\ L \in Seq(LogEntries) /\ s.count = Len(L)
  /\ DOMAIN j.raised \subseteq Bits /\ DOMAIN j.raised \ Dropped(s.mail) = s.bits
  /\ Tells(j, L, Len(L), DOMAIN j.raised)

Sound(w) == LogSound(w.sim, w.log, w.journal) /\ StorySound(w.story, w.sim.tick, w.applied)

LEMMA TellsInALongerLog ==
  ASSUME NEW L, NEW M, NEW m \in Nat, \A k \in 1..m : M[k] = L[k], NEW j, NEW bits,
         Tells(j, L, m, bits)
  PROVE  Tells(j, M, m, bits)
<1>1. LastOf(M, m) = LastOf(L, m)
  <2> DEFINE c == Smaller(Capacity, m)
  <2>1. c \in Nat /\ c <= m
    BY SessionAssumption DEF Smaller
  <2>2. LastOf(M, m) = [i \in 1..c |-> Numbered(M, m - c + i)]
        /\ LastOf(L, m) = [i \in 1..c |-> Numbered(L, m - c + i)]
    BY DEF LastOf
  <2> HIDE DEF c
  <2>3. \A i \in 1..c : Numbered(M, m - c + i) = Numbered(L, m - c + i)
    <3> TAKE i \in 1..c
    <3>1. m - c + i \in 1..m
      BY <2>1
    <3> QED
      BY <3>1 DEF Numbered
  <2> QED
    BY <2>2, <2>3
<1>2. Dated(j.raised, M, m)
  <2> SUFFICES ASSUME NEW b \in DOMAIN j.raised
               PROVE  \E i \in 1..m : /\ M[i].event = Raised(b) /\ j.raised[b] = M[i].time
                                      /\ \A k \in (i + 1)..m : ~Edge(M[k].event, b)
    BY DEF Dated
  <2>1. PICK i \in 1..m : /\ L[i].event = Raised(b) /\ j.raised[b] = L[i].time
                          /\ \A k \in (i + 1)..m : ~Edge(L[k].event, b)
    BY DEF Tells, Dated
  <2>2. \A k \in (i + 1)..m : k \in 1..m
    OBVIOUS
  <2> QED
    BY <2>1, <2>2
<1> QED
  BY <1>1, <1>2 DEF Tells

(* Events that take the dated bits from one set to another.                *)
Stands(from, s, to) ==
  \E D : /\ D[0] = from /\ D[Len(s)] = to
         /\ \A i \in 1..Len(s) : D[i] = Standing(D[i - 1], s[i])

LEMMA StandsOver ==
  ASSUME NEW s \in Seq(Events), NEW t \in Seq(Events), NEW a, NEW b, NEW c,
         Stands(a, s, b), Stands(b, t, c)
  PROVE  Stands(a, s \o t, c)
<1> DEFINE m == Len(s)
           n == Len(t)
           st == s \o t
<1>1. /\ m \in Nat /\ n \in Nat /\ Len(st) = m + n
      /\ \A i \in 1..m : st[i] = s[i]
      /\ \A i \in 1..n : st[m + i] = t[i]
  <2>1. DOMAIN s = 1..Len(s) /\ DOMAIN t = 1..Len(t)
    OBVIOUS
  <2> QED
    BY <2>1, ConcatFacts
<1>2. PICK D : /\ D[0] = a /\ D[m] = b
               /\ \A i \in 1..m : D[i] = Standing(D[i - 1], s[i])
  BY DEF Stands
<1>3. PICK E : /\ E[0] = b /\ E[n] = c
               /\ \A i \in 1..n : E[i] = Standing(E[i - 1], t[i])
  BY DEF Stands
<1> DEFINE F == [i \in 0..(m + n) |-> IF i <= m THEN D[i] ELSE E[i - m]]
<1> HIDE DEF m, n, st
<1>4. F[0] = a /\ F[m + n] = c
  <2>1. 0 \in 0..(m + n) /\ 0 <= m /\ m + n \in 0..(m + n)
    BY <1>1
  <2>2. CASE n = 0
    <3>1. m + n = m /\ b = c
      BY <1>1, <1>3, <2>2
    <3> QED
      BY <1>1, <1>2, <2>1, <3>1
  <2>3. CASE n # 0
    <3>1. ~(m + n <= m) /\ (m + n) - m = n
      BY <1>1, <2>3
    <3> QED
      BY <1>1, <1>2, <1>3, <2>1, <3>1
  <2> QED
    BY <2>2, <2>3
<1>5. ASSUME NEW i \in 1..(m + n) PROVE F[i] = Standing(F[i - 1], st[i])
  <2>1. i \in 0..(m + n) /\ i - 1 \in 0..(m + n) /\ i \in Int
    BY <1>1
  <2>2. CASE i <= m
    <3>1. F[i] = D[i] /\ F[i - 1] = D[i - 1] /\ i \in 1..m
      BY <1>1, <2>1, <2>2
    <3> HIDE DEF F
    <3> QED
      BY <1>1, <1>2, <3>1
  <2>3. CASE ~(i <= m)
    <3> DEFINE k == i - m
    <3>1. k \in 1..n /\ m + k = i /\ (i - 1) - m = k - 1
      BY <1>1, <2>3
    <3>2. F[i] = E[k]
      BY <2>1, <2>3
    <3>3. F[i - 1] = E[k - 1]
      <4>1. CASE i - 1 <= m
        <5>1. i - 1 = m /\ k - 1 = 0
          BY <1>1, <2>3, <4>1
        <5>2. F[i - 1] = D[m]
          BY <2>1, <4>1, <5>1
        <5> HIDE DEF F, k
        <5> QED
          BY <1>2, <1>3, <5>1, <5>2
      <4>2. CASE ~(i - 1 <= m)
        <5>1. F[i - 1] = E[(i - 1) - m]
          BY <2>1, <4>2
        <5> HIDE DEF F, k
        <5> QED
          BY <3>1, <5>1
      <4> QED
        BY <4>1, <4>2
    <3> HIDE DEF F, k
    <3>4. st[m + k] = t[k]
      BY <1>1, <3>1
    <3> QED
      BY <1>3, <3>1, <3>2, <3>3, <3>4
  <2> QED
    BY <2>2, <2>3
<1> HIDE DEF F
<1> QED
  BY <1>1, <1>4, <1>5 DEF Stands, st

(* The clears that waited in the mailbox.                                  *)
LEMMA MailStands ==
  ASSUME NEW mail \in Seq(Events), \A k \in DOMAIN mail : mail[k] = Cleared(mail[k].bit), NEW d
  PROVE  Stands(d, mail, d \ Dropped(mail))
<1> DEFINE n == Len(mail)
           D == [i \in 0..n |-> d \ {mail[k].bit : k \in 1..i}]
<1>1. n \in Nat /\ DOMAIN mail = 1..n
  OBVIOUS
<1> HIDE DEF n
<1>2. D[0] = d /\ D[n] = d \ Dropped(mail)
  <2>1. 0 \in 0..n /\ n \in 0..n /\ 1..0 = {}
    BY <1>1
  <2> QED
    BY <1>1, <2>1 DEF Dropped
<1>3. ASSUME NEW i \in 1..n PROVE D[i] = Standing(D[i - 1], mail[i])
  <2>1. i \in 0..n /\ i - 1 \in 0..n /\ 1..i = (1..(i - 1)) \cup {i}
    BY <1>1
  <2>2. D[i] = d \ {mail[k].bit : k \in 1..i} /\ D[i - 1] = d \ {mail[k].bit : k \in 1..(i - 1)}
    BY <2>1
  <2> HIDE DEF D
  <2>3. D[i] = D[i - 1] \ {mail[i].bit}
    BY <2>1, <2>2
  <2>4. mail[i].kind = "cleared"
    BY <1>1 DEF Cleared
  <2> QED
    BY <2>3, <2>4 DEF Standing
<1> HIDE DEF D
<1> QED
  BY <1>2, <1>3 DEF Stands, n

LEMMA FaultsStand ==
  ASSUME NEW faults \in Seq(Events), \A k \in DOMAIN faults : faults[k].kind = "fault", NEW d
  PROVE  Stands(d, faults, d)
<1> DEFINE n == Len(faults)
           D == [i \in 0..n |-> d]
<1>1. n \in Nat /\ DOMAIN faults = 1..n
  OBVIOUS
<1> HIDE DEF n
<1>2. \A i \in 1..n : D[i] = Standing(D[i - 1], faults[i])
  BY <1>1 DEF Standing
<1>3. D[0] = d /\ D[n] = d
  BY <1>1
<1> HIDE DEF D
<1> QED
  BY <1>2, <1>3 DEF Stands, n

LEMMA ChangeStands ==
  ASSUME NEW bits \in SUBSET Bits, NEW x \in Changes(bits)
  PROVE  /\ x.bits \in SUBSET Bits /\ x.events \in Seq(Events)
         /\ Stands(bits, x.events, x.bits)
<1>1. Stands(bits, << >>, bits)
  <2>1. [i \in 0..0 |-> bits][0] = bits /\ Len(<< >>) = 0 /\ 1..0 = {}
    OBVIOUS
  <2> QED
    BY <2>1 DEF Stands
<1>2. ASSUME NEW e PROVE Stands(bits, <<e>>, Standing(bits, e))
  <2> DEFINE D == [i \in 0..1 |-> IF i = 0 THEN bits ELSE Standing(bits, e)]
  <2>1. D[0] = bits /\ D[1] = Standing(bits, e) /\ Len(<<e>>) = 1 /\ <<e>>[1] = e
    OBVIOUS
  <2>2. \A i \in 1..1 : i = 1 /\ i - 1 = 0
    OBVIOUS
  <2> HIDE DEF D
  <2> QED
    BY <2>1, <2>2 DEF Stands
<1>3. \A b \in Bits : Raised(b) \in Events /\ Cleared(b) \in Events
  BY DEF Events
<1>4. \A b : Standing(bits, Raised(b)) = bits \cup {b} /\ Standing(bits, Cleared(b)) = bits \ {b}
  <2> TAKE b
  <2>1. Raised(b).kind = "raised" /\ Raised(b).bit = b /\ Cleared(b).kind = "cleared" /\ Cleared(b).bit = b
    BY DEF Raised, Cleared
  <2>2. "cleared" # "raised"
    OBVIOUS
  <2> QED
    BY <2>1, <2>2 DEF Standing
<1>5. CASE x \in {[bits |-> bits, events |-> <<>>]}
  <2>1. x.events = << >> /\ x.bits = bits
    BY <1>5
  <2>2. << >> \in Seq(Events)
    OBVIOUS
  <2> QED
    BY <1>1, <2>1, <2>2
<1>6. CASE x \in {[bits |-> bits \cup {b}, events |-> <<Raised(b)>>] : b \in Bits \ bits}
  <2>1. PICK b \in Bits : x = [bits |-> bits \cup {b}, events |-> <<Raised(b)>>]
    BY <1>6
  <2> DEFINE e == Raised(b)
  <2>2. e \in Events /\ Stands(bits, <<e>>, bits \cup {b})
    BY <1>2, <1>3, <1>4
  <2>3. x.events = <<e>> /\ x.bits = bits \cup {b}
    BY <2>1
  <2> HIDE DEF e, Events
  <2> QED
    BY <2>2, <2>3
<1>7. CASE x \in {[bits |-> bits \ {b}, events |-> <<Cleared(b)>>] : b \in bits \ Latching}
  <2>1. PICK b \in Bits : x = [bits |-> bits \ {b}, events |-> <<Cleared(b)>>]
    BY <1>7
  <2> DEFINE e == Cleared(b)
  <2>2. e \in Events /\ Stands(bits, <<e>>, bits \ {b})
    BY <1>2, <1>3, <1>4
  <2>3. x.events = <<e>> /\ x.bits = bits \ {b}
    BY <2>1
  <2> HIDE DEF e, Events
  <2> QED
    BY <2>2, <2>3
<1> QED
  BY <1>5, <1>6, <1>7 DEF Changes

(* A log that grows by events of one moment, and the journal after them.   *)
LEMMA LogGrows ==
  ASSUME NEW L, L \in Seq(LogEntries), NEW events, events \in Seq(Events),
         NEW time \in Nat, NEW j, NEW a, NEW b, Tells(j, L, Len(L), a), Stands(a, events, b)
  PROVE  LET M == L \o [i \in DOMAIN events |-> Entry(i, events[i], time)]
         IN  /\ M \in Seq(LogEntries) /\ Len(M) = Len(L) + Len(events)
             /\ Tells(Record(j, events, Len(L) + Len(events), time), M, Len(L) + Len(events), b)
<1> DEFINE m == Len(L)
           n == Len(events)
           P == LogEntries
           new == [i \in DOMAIN events |-> Entry(i, events[i], time)]
           M == L \o new
<1>1. m \in Nat /\ n \in Nat /\ DOMAIN events = 1..n /\ \A i \in 1..n : events[i] \in Events
  <2>1. L \in Seq(P)
    OBVIOUS
  <2> HIDE DEF P
  <2>2. Len(L) \in Nat
    BY <2>1
  <2>3. Len(events) \in Nat /\ DOMAIN events = 1..Len(events)
    OBVIOUS
  <2> QED
    BY <2>2, <2>3
<1> HIDE DEF n
<1>2. \A i \in 1..n : /\ Entry(i, events[i], time) \in P
                      /\ Entry(i, events[i], time).event = events[i]
                      /\ Entry(i, events[i], time).time = time
  <2> TAKE i \in 1..n
  <2>1. events[i] \in Events /\ i \in Nat
    BY <1>1
  <2> HIDE DEF Events
  <2> QED
    BY <2>1 DEF Entry, LogEntries
<1>3. L \in Seq(P)
  OBVIOUS
<1> HIDE DEF P
<1>4. new \in [1..n -> P] /\ \A i \in 1..n : new[i].event = events[i] /\ new[i].time = time
  BY <1>1, <1>2
<1> HIDE DEF new
<1>5. new \in Seq(P) /\ Len(new) = n /\ DOMAIN new = 1..n
  BY <1>1, <1>4
<1>6. DOMAIN L = 1..m
  BY <1>3
<1>7. /\ M \in Seq(P) /\ Len(M) = Len(L) + Len(new)
      /\ \A k \in DOMAIN L : M[k] = L[k]
      /\ \A i \in DOMAIN new : M[Len(L) + i] = new[i]
  <2>1. new \in Seq(P)
    BY <1>5
  <2>2. M \in Seq(P) /\ Len(M) = Len(L) + Len(new)
    BY ONLY <1>3, <2>1, ConcatFacts
  <2>3. \A k \in DOMAIN L : k \in DOMAIN M /\ M[k] = L[k]
    BY ONLY <1>3, <2>1, ConcatFacts
  <2>4. \A i \in DOMAIN new : Len(L) + i \in DOMAIN M /\ M[Len(L) + i] = new[i]
    BY ONLY <1>3, <2>1, ConcatFacts
  <2> HIDE DEF M
  <2> QED
    BY <2>2, <2>3, <2>4
<1> HIDE DEF M
<1>8. Tells(j, M, m, a)
  <2>1. \A k \in 1..m : M[k] = L[k]
    BY <1>6, <1>7
  <2>2. Tells(j, L, m, a)
    OBVIOUS
  <2> HIDE DEF m
  <2> QED
    BY <1>1, <2>1, <2>2, TellsInALongerLog
<1>9. PICK D : /\ D[0] = a /\ D[n] = b
               /\ \A i \in 1..n : D[i] = Standing(D[i - 1], events[i])
  BY DEF Stands, n
<1>10. \A i \in 1..n : /\ M[m + i].event = events[i] /\ M[m + i].time = time
                       /\ events[i] \in Events
                       /\ D[i] = Standing(D[i - 1], events[i])
  BY <1>1, <1>4, <1>5, <1>7, <1>9
<1> HIDE DEF m
<1>11. Tells(Record(j, events, m + n, time), M, m + n, b)
  <2>1. Len(events) = n
    BY DEF n
  <2>2. Tells(j, M, m, D[0]) /\ D[Len(events)] = b
    BY <1>8, <1>9, <2>1
  <2>3. Tells(Record(j, events, m + Len(events), time), M, m + Len(events), D[Len(events)])
    BY ONLY <1>1, <1>10, <2>1, <2>2, RecordTells
  <2> QED
    BY <2>1, <2>2, <2>3
<1> QED
  BY <1>5, <1>7, <1>11 DEF m, n, M, new, P

(* The mailbox, the faults and the change of the tick in the journal.      *)
LEMMA LogGoesOn ==
  ASSUME NEW s, NEW L, NEW j, LogSound(s, L, j), NEW due \in Seq(Nat), NEW x \in Changes(s.bits)
  PROVE  LET faults == [k \in DOMAIN due |-> Fault(due[k])]
             events == s.mail \o faults \o x.events
             time   == Now(s) + 1
             count  == s.count + Len(events)
             M      == L \o [i \in DOMAIN events |-> Entry(i, events[i], time)]
         IN  /\ LogSound([s EXCEPT !.tick = @ + 1, !.bits = x.bits, !.mail = << >>, !.count = count],
                         M, Record(j, events, count, time))
             /\ Len(M) >= Len(L)
<1> DEFINE faults == [k \in DOMAIN due |-> Fault(due[k])]
           events == s.mail \o faults \o x.events
           time   == Now(s) + 1
           d      == DOMAIN j.raised
           M      == L \o [i \in DOMAIN events |-> Entry(i, events[i], time)]
<1>1. /\ s \in Sims /\ L \in Seq(LogEntries) /\ s.count = Len(L)
      /\ d \subseteq Bits /\ d \ Dropped(s.mail) = s.bits /\ Tells(j, L, Len(L), d)
  BY DEF LogSound
<1>2. /\ s.start \in Nat /\ s.tick \in Nat /\ s.bits \in SUBSET Bits /\ s.count \in Nat
      /\ s.mail \in Seq({Cleared(b) : b \in Bits}) /\ time \in Nat
  BY <1>1 DEF Sims, Now
<1>3. s.mail \in Seq(Events) /\ \A k \in DOMAIN s.mail : s.mail[k] = Cleared(s.mail[k].bit)
  <2> DEFINE C == {Cleared(b) : b \in Bits}
  <2>1. C \subseteq Events /\ \A e \in C : e = Cleared(e.bit)
    BY DEF Events, Cleared
  <2>2. s.mail \in Seq(C)
    BY <1>2
  <2> HIDE DEF C, Events
  <2> QED
    BY <2>1, <2>2
<1>4. faults \in Seq(Events) /\ \A k \in DOMAIN faults : faults[k].kind = "fault"
  <2>1. \A k \in DOMAIN due : Fault(due[k]) \in Events
    BY DEF Events
  <2> DEFINE c == Len(due)
  <2>2. DOMAIN due = 1..c /\ c \in Nat
    OBVIOUS
  <2>3. faults \in [1..c -> Events]
    BY <2>1, <2>2
  <2>4. \A k \in DOMAIN faults : faults[k].kind = "fault"
    BY DEF Fault
  <2> HIDE DEF faults, c
  <2> QED
    BY <2>2, <2>3, <2>4
<1> HIDE DEF faults, time, d
<1>5. /\ x.bits \in SUBSET Bits /\ x.events \in Seq(Events)
      /\ Stands(s.bits, x.events, x.bits)
  BY <1>2, ChangeStands
<1>6. Stands(d, s.mail, s.bits) /\ Stands(s.bits, faults, s.bits)
  BY <1>1, <1>3, <1>4, MailStands, FaultsStand
<1>7. s.mail \o faults \in Seq(Events) /\ Stands(d, s.mail \o faults, s.bits)
  BY <1>3, <1>4, <1>6, StandsOver, ConcatFacts
<1>8. events \in Seq(Events) /\ Stands(d, events, x.bits) /\ Len(events) \in Nat
  <2> DEFINE h == s.mail \o faults
  <2>1. h \in Seq(Events) /\ Stands(d, h, s.bits)
    BY <1>7
  <2> HIDE DEF h
  <2>2. h \o x.events \in Seq(Events) /\ Stands(d, h \o x.events, x.bits)
    BY <1>5, <2>1, StandsOver, ConcatFacts
  <2>3. \A e \in Seq(Events) : Len(e) \in Nat
    OBVIOUS
  <2> QED
    BY <2>2, <2>3 DEF h
<1> DEFINE count == s.count + Len(events)
           r == Record(j, events, count, time)
           z == [s EXCEPT !.tick = @ + 1, !.bits = x.bits, !.mail = << >>, !.count = count]
<1> HIDE DEF events
<1>9. M \in Seq(LogEntries) /\ Len(M) = count /\ Tells(r, M, count, x.bits) /\ count \in Nat
  <2>1. /\ M \in Seq(LogEntries) /\ Len(M) = Len(L) + Len(events)
        /\ Tells(Record(j, events, Len(L) + Len(events), time), M, Len(L) + Len(events), x.bits)
    BY <1>1, <1>2, <1>8, LogGrows
  <2> QED
    BY <1>1, <1>2, <1>8, <2>1
<1> HIDE DEF M
<1>10. z \in Sims /\ z.mail = << >> /\ z.bits = x.bits /\ z.count = count
  <2> HIDE DEF count
  <2>1. << >> \in Seq({Cleared(b) : b \in Bits})
    OBVIOUS
  <2> DEFINE Q == Seq({Cleared(b) : b \in Bits})
             R == [start : Nat, tick : Nat, bits : SUBSET Bits, mail : Q, count : Nat,
                   setpoint : BOOLEAN]
  <2>2. s \in R
    BY <1>1 DEF Sims
  <2>3. << >> \in Q /\ s.tick + 1 \in Nat
    BY <1>2, <2>1
  <2> HIDE DEF Q
  <2>4. /\ [s EXCEPT !.tick = s.tick + 1, !.bits = x.bits, !.mail = << >>, !.count = count] \in R
        /\ z.mail = << >> /\ z.bits = x.bits /\ z.count = count
    BY ONLY <1>5, <1>9, <2>2, <2>3
  <2> QED
    BY <2>4 DEF Q, Sims
<1>11. LogSound(z, M, r)
  <2>1. Dropped(z.mail) = {}
    BY <1>10 DEF Dropped
  <2>2. DOMAIN r.raised = x.bits
    BY <1>9 DEF Tells
  <2> HIDE DEF z, r, count
  <2> QED
    BY <1>5, <1>9, <1>10, <2>1, <2>2 DEF LogSound
<1>12. Len(M) >= Len(L)
  BY <1>1, <1>2, <1>8, <1>9
<1> QED
  BY <1>11, <1>12 DEF M, events, faults, time

(* A world some ticks after another.                                       *)
Within(w, v, n) ==
  /\ Sound(v) /\ v.sim.start = w.sim.start /\ v.sim.tick = w.sim.tick + n
  /\ Len(v.log) >= Len(w.log)

LEMMA TickIsSound ==
  ASSUME NEW w, Sound(w), NEW x \in Changes(w.sim.bits)
  PROVE  Within(w, RunTick(w, x), 1)
<1> DEFINE schedule == IF w.story = << >> THEN << >> ELSE w.story[1].case.schedule
           cursor   == IF w.story = << >> THEN 0 ELSE w.story[1].cursor
           upto     == Due(schedule, cursor, w.sim.tick)
           due      == ForPlant(schedule, cursor, upto)
           faults   == [k \in DOMAIN due |-> Fault(due[k])]
           events   == w.sim.mail \o faults \o x.events
           time     == Now(w.sim) + 1
           count    == w.sim.count + Len(events)
           z == [w.sim EXCEPT !.tick = @ + 1, !.bits = x.bits, !.mail = << >>, !.count = count]
           M == w.log \o [i \in DOMAIN events |-> Entry(i, events[i], time)]
           r == Record(w.journal, events, count, time)
           t == IF w.story = << >> THEN << >> ELSE <<[w.story[1] EXCEPT !.cursor = upto]>>
           a == w.applied \o [k \in DOMAIN due |-> <<due[k], w.sim.tick>>]
<1>1. RunTick(w, x) = [sim |-> z, story |-> t, journal |-> r, log |-> M, applied |-> a]
  BY DEF RunTick
<1>2. LogSound(w.sim, w.log, w.journal) /\ StorySound(w.story, w.sim.tick, w.applied)
  BY DEF Sound
<1>3. w.sim \in Sims /\ w.sim.tick \in Nat /\ z.start = w.sim.start /\ z.tick = w.sim.tick + 1
  <2>1. w.sim \in Sims
    BY <1>2 DEF LogSound
  <2> DEFINE Q == Seq({Cleared(b) : b \in Bits})
  <2>2. w.sim \in [start : Nat, tick : Nat, bits : SUBSET Bits, mail : Q, count : Nat,
                   setpoint : BOOLEAN]
    BY <2>1 DEF Sims
  <2> HIDE DEF Q, count
  <2> QED
    BY ONLY <2>1, <2>2
<1>4. due \in Seq(Nat) /\ StorySound(t, w.sim.tick + 1, a)
  <2> HIDE DEF StorySound, Due, ForPlant
  <2> QED
    BY <1>2, <1>3, StoryGoesOn
<1> HIDE DEF due, t, a
<1>5. LogSound(z, M, r) /\ Len(M) >= Len(w.log)
  BY <1>2, <1>4, LogGoesOn
<1> HIDE DEF z, M, r
<1> QED
  BY <1>1, <1>3, <1>4, <1>5 DEF Within, Sound

(* What After computes.                                                    *)
Successors(W) == UNION {{RunTick(w, c) : c \in Changes(w.sim.bits)} : w \in W}
Afters(f, n) == f = [i \in 0..n |-> IF i = 0 THEN {World} ELSE Successors(f[i - 1])]

LEMMA AftersExist == \A n \in Nat : \E f : Afters(f, n)
<1> DEFINE S == {n \in Nat : \E f : Afters(f, n)}
<1>1. 0 \in S
  <2>1. [i \in 0..0 |-> {World}]
          = [i \in 0..0 |-> IF i = 0 THEN {World} ELSE Successors([k \in 0..0 |-> {World}][i - 1])]
    OBVIOUS
  <2>2. Afters([i \in 0..0 |-> {World}], 0)
    BY <2>1 DEF Afters
  <2> QED
    BY <2>2
<1>2. ASSUME NEW n \in Nat, n \in S PROVE n + 1 \in S
  <2>1. PICK f : f = [i \in 0..n |-> IF i = 0 THEN {World} ELSE Successors(f[i - 1])]
    BY <1>2 DEF Afters
  <2> DEFINE g == [i \in 0..(n + 1) |-> IF i = n + 1 THEN Successors(f[n]) ELSE f[i]]
  <2>2. \A i \in 0..n : g[i] = f[i]
    OBVIOUS
  <2>3. ASSUME NEW i \in 0..(n + 1)
        PROVE  g[i] = IF i = 0 THEN {World} ELSE Successors(g[i - 1])
    <3>1. CASE i = n + 1
      <4>1. g[i] = Successors(f[n]) /\ i # 0
        BY <3>1
      <4>2. i - 1 = n /\ n \in 0..n /\ g[i - 1] = f[n]
        BY <2>2, <3>1
      <4> HIDE DEF g
      <4> QED
        BY <4>1, <4>2
    <3>2. CASE i # n + 1
      <4>1. i \in 0..n /\ g[i] = f[i] /\ (i # 0 => i - 1 \in 0..n /\ g[i - 1] = f[i - 1])
        BY <2>2, <3>2
      <4>2. f[i] = IF i = 0 THEN {World} ELSE Successors(f[i - 1])
        BY <2>1, <4>1
      <4> HIDE DEF g
      <4> QED
        BY <4>1, <4>2
    <3> QED
      BY <3>1, <3>2
  <2>4. g = [i \in 0..(n + 1) |-> g[i]]
    OBVIOUS
  <2> HIDE DEF g
  <2>5. g = [i \in 0..(n + 1) |-> IF i = 0 THEN {World} ELSE Successors(g[i - 1])]
    BY <2>3, <2>4
  <2> QED
    BY <2>5 DEF Afters
<1>3. Nat \subseteq S
  <2> HIDE DEF S
  <2> QED
    BY <1>1, <1>2, NatSetInduction
<1> QED
  BY <1>3

LEMMA TicksAreSound ==
  ASSUME Sound(World), NEW n \in Nat, NEW v \in After(n)
  PROVE  Within(World, v, n)
<1> DEFINE g == CHOOSE f : f = [i \in 0..n |-> IF i = 0 THEN {World} ELSE
                UNION {{RunTick(w, c) : c \in Changes(w.sim.bits)} : w \in f[i - 1]}]
<1>1. Afters(g, n)
  <2>1. PICK f : Afters(f, n)
    BY AftersExist
  <2> QED
    BY <2>1 DEF Afters, Successors
<1>2. After(n) = g[n]
  BY DEF After
<1> HIDE DEF g
<1>3. \A i \in 0..n : g[i] = IF i = 0 THEN {World} ELSE Successors(g[i - 1])
  BY <1>1 DEF Afters
<1> DEFINE S == {i \in Nat : i \in 0..n => \A w \in g[i] : Within(World, w, i)}
<1>4. World.sim \in Sims /\ World.sim.tick \in Nat /\ Len(World.log) \in Nat
  <2>1. World.sim \in Sims /\ World.log \in Seq(LogEntries)
    BY DEF Sound, LogSound
  <2>2. \A L \in Seq(LogEntries) : Len(L) \in Nat
    <3> DEFINE P == LogEntries
    <3> HIDE DEF P
    <3>1. \A L \in Seq(P) : Len(L) \in Nat
      OBVIOUS
    <3> QED
      BY <3>1 DEF P
  <2> QED
    BY <2>1, <2>2 DEF Sims
<1>5. 0 \in S
  <2>1. g[0] = {World}
    BY <1>3
  <2>2. Within(World, World, 0)
    BY <1>4 DEF Within
  <2> QED
    BY <2>1, <2>2
<1>6. ASSUME NEW i \in Nat, i \in S PROVE i + 1 \in S
  <2> SUFFICES ASSUME i + 1 \in 0..n, NEW u \in g[i + 1] PROVE Within(World, u, i + 1)
    OBVIOUS
  <2>1. i \in 0..n /\ g[i + 1] = Successors(g[i])
    <3>1. i \in 0..n /\ i + 1 # 0 /\ (i + 1) - 1 = i
      OBVIOUS
    <3> QED
      BY <1>3, <3>1
  <2>2. PICK w \in g[i] : \E c \in Changes(w.sim.bits) : u = RunTick(w, c)
    BY <2>1 DEF Successors
  <2>3. Within(World, w, i)
    BY <1>6, <2>1
  <2>4. Within(w, u, 1)
    BY <2>2, <2>3, TickIsSound DEF Within
  <2>5. Len(w.log) \in Nat /\ Len(u.log) \in Nat
    <3>1. w.log \in Seq(LogEntries) /\ u.log \in Seq(LogEntries)
      BY <2>3, <2>4 DEF Within, Sound, LogSound
    <3> DEFINE P == LogEntries
    <3> HIDE DEF P
    <3>2. \A L \in Seq(P) : Len(L) \in Nat
      OBVIOUS
    <3> QED
      BY <3>1, <3>2 DEF P
  <2> QED
    BY <1>4, <2>3, <2>4, <2>5 DEF Within
<1>7. n \in S
  <2> HIDE DEF S
  <2> QED
    BY <1>5, <1>6, NatSetInduction
<1> QED
  BY <1>2, <1>7

-----------------------------------------------------------------------------
(* The session.                                                            *)

Answered == answer = NoTime \/ answer \in sim.start..Now(sim)
Underway == Jumping => jump.target \in Int /\ jump.target > Now(sim)

SInv ==
  /\ LogSound(sim, log, journal) /\ StorySound(story, sim.tick, applied)
  /\ seen \in 0..Len(log) /\ Answered /\ Underway
  /\ speed \in Nat /\ accum \in Nat

LEMMA Clock ==
  ASSUME SInv
  PROVE  /\ sim.start \in Nat /\ sim.tick \in Nat /\ Now(sim) \in Nat
         /\ sim.count \in Nat /\ sim.count = Len(log) /\ Sound(World)
<1>1. sim \in Sims /\ sim.count = Len(log)
  BY DEF SInv, LogSound
<1>2. sim.start \in Nat /\ sim.tick \in Nat /\ sim.count \in Nat
  BY <1>1 DEF Sims
<1>3. Sound(World)
  BY DEF SInv, Sound, World
<1> QED
  BY <1>1, <1>2, <1>3 DEF Now

LEMMA FreshIsSound ==
  ASSUME NEW date \in Nat
  PROVE  LogSound(Fresh(date), << >>, NoEntries) /\ Fresh(date).tick = 0
<1> DEFINE z == Fresh(date)
<1>1. z \in Sims /\ z.mail = << >> /\ z.bits = {} /\ z.count = 0 /\ z.tick = 0
  <2>1. << >> \in Seq({Cleared(b) : b \in Bits})
    OBVIOUS
  <2> DEFINE Q == Seq({Cleared(b) : b \in Bits})
  <2> HIDE DEF Q
  <2>2. z \in [start : Nat, tick : Nat, bits : SUBSET Bits, mail : Q, count : Nat,
               setpoint : BOOLEAN]
    BY <2>1 DEF Fresh, Q
  <2> QED
    BY <2>2 DEF Fresh, Sims, Q
<1>2. DOMAIN NoEntries.raised = {} /\ NoEntries.entries = << >>
  BY DEF NoEntries
<1>3. << >> \in Seq(LogEntries) /\ Len(<< >>) = 0
  OBVIOUS
<1>4. Tells(NoEntries, << >>, 0, {})
  <2>1. LastOf(<< >>, 0) = << >>
    <3>1. Smaller(Capacity, 0) = 0
      BY SessionAssumption DEF Smaller
    <3>2. LastOf(<< >>, 0) = [i \in 1..0 |-> Numbered(<< >>, 0 - 0 + i)]
      BY <3>1 DEF LastOf
    <3>3. 1..0 = {}
      OBVIOUS
    <3>4. << >> = [i \in {} |-> Numbered(<< >>, 0 - 0 + i)]
      OBVIOUS
    <3> QED
      BY <3>2, <3>3, <3>4
  <2> QED
    BY <1>2, <2>1 DEF Tells, Dated
<1>5. Dropped(z.mail) = {}
  BY <1>1 DEF Dropped
<1> HIDE DEF z
<1> QED
  BY <1>1, <1>2, <1>3, <1>4, <1>5 DEF LogSound, z

(* A new plant, with or without a story.                                   *)
LEMMA FreshPlant ==
  ASSUME NEW date \in Nat, sim' = Fresh(date), Forget, speed' \in Nat,
         StorySound(story', 0, << >>)
  PROVE  SInv'
<1>1. LogSound(sim', log', journal') /\ sim'.tick = 0
  BY FreshIsSound DEF Forget
<1>2. log' = << >> /\ applied' = << >> /\ seen' = 0 /\ answer' = NoTime /\ accum' = 0 /\ jump' = NoJump
  BY DEF Forget
<1>3. seen' \in 0..Len(log')
  BY <1>2
<1> QED
  BY <1>1, <1>2, <1>3 DEF SInv, Answered, Underway, Jumping

LEMMA InitSound == SessionInit => SInv
<1> SUFFICES ASSUME SessionInit PROVE SInv
  OBVIOUS
<1>1. LogSound(sim, log, journal) /\ sim.tick = 0
  BY FreshIsSound, SessionAssumption DEF SessionInit
<1>2. seen \in 0..Len(log) /\ speed \in Nat /\ accum \in Nat
  BY SessionAssumption DEF SessionInit
<1>3. StorySound(story, sim.tick, applied) /\ Answered /\ Underway
  BY DEF SessionInit, StorySound, Answered, Underway, Jumping
<1> QED
  BY <1>1, <1>2, <1>3 DEF SInv

(* A frame's ticks, in a jump or not.                                      *)
LEMMA TicksKeep ==
  ASSUME SInv, NEW n \in Nat, NEW w \in After(n), Becomes(w), UNCHANGED <<seen, answer, speed>>,
         accum' \in Nat, Underway'
  PROVE  SInv' /\ Now(sim') = Now(sim) + n
<1>1. Within(World, w, n)
  BY Clock, TicksAreSound
<1>2. /\ sim' = w.sim /\ story' = w.story /\ journal' = w.journal
      /\ log' = w.log /\ applied' = w.applied
  BY DEF Becomes
<1>3. LogSound(sim', log', journal') /\ StorySound(story', sim'.tick, applied')
  BY <1>1, <1>2 DEF Within, Sound
<1>4. sim'.start = sim.start /\ sim'.tick = sim.tick + n /\ Len(log') >= Len(log)
  BY <1>1, <1>2 DEF Within, World
<1>5. sim'.count \in Nat /\ sim'.count = Len(log')
  BY <1>3 DEF LogSound, Sims
<1>6. seen' \in 0..Len(log')
  BY Clock, <1>4, <1>5 DEF SInv
<1>7. Now(sim') = Now(sim) + n
  BY Clock, <1>4 DEF Now
<1>8. Answered'
  BY Clock, <1>4, <1>7 DEF SInv, Answered
<1> QED
  BY <1>3, <1>6, <1>7, <1>8 DEF SInv

LEMMA SliceIs ==
  ASSUME NEW target \in Int, target > Now(sim), Now(sim) \in Nat
  PROVE  Slice(sim, target) \in Nat /\ Now(sim) + Slice(sim, target) <= target
BY SessionAssumption DEF Slice, Smaller, Larger

LEMMA JumpKeeps ==
  ASSUME SInv, AdvanceJump
  PROVE  /\ SInv' /\ Now(sim') <= jump.target
         /\ jump' = NoJump <=> Now(sim') = jump.target
         /\ jump' = NoJump => accum' = 0
<1> DEFINE n == Slice(sim, jump.target)
<1>1. jump # NoJump /\ jump.target \in Int /\ jump.target > Now(sim) /\ Now(sim) \in Nat
  BY Clock DEF AdvanceJump, SInv, Underway, Jumping
<1>2. n \in Nat /\ Now(sim) + n <= jump.target
  BY <1>1, SliceIs
<1>3. PICK w \in After(n) :
        /\ Becomes(w)
        /\ IF Arrived(w.sim, jump.target) THEN jump' = NoJump /\ accum' = 0
                                          ELSE UNCHANGED <<jump, accum>>
  BY DEF AdvanceJump
<1> HIDE DEF n
<1>4. sim' = w.sim
  BY <1>3 DEF Becomes
<1>5. Now(sim') = Now(sim) + n
  <2>1. Within(World, w, n)
    BY <1>2, <1>3, Clock, TicksAreSound
  <2>2. sim'.start = sim.start /\ sim'.tick = sim.tick + n
    BY <1>4, <2>1 DEF Within, World
  <2> QED
    BY <1>2, <2>2, Clock DEF Now
<1>6. Arrived(sim', jump.target) <=> Now(sim') = jump.target
  BY <1>1, <1>2, <1>5 DEF Arrived
<1>7. Underway' /\ accum' \in Nat
  BY <1>1, <1>2, <1>3, <1>4, <1>5, <1>6 DEF Underway, Jumping, SInv
<1>8. SInv'
  BY <1>2, <1>3, <1>7, TicksKeep DEF AdvanceJump
<1> QED
  BY <1>1, <1>2, <1>3, <1>4, <1>5, <1>6, <1>8

LEMMA ClockKeeps ==
  ASSUME SInv, AdvanceClock
  PROVE  SInv'
<1> DEFINE due == accum + speed
           ticks == Smaller(due \div 2, FrameTicks)
<1>1. due \in Nat /\ ticks \in Nat /\ 2 * ticks <= due
  BY SessionAssumption DEF SInv, Smaller
<1>2. PICK w \in After(ticks) : Becomes(w)
  BY DEF AdvanceClock
<1>3. accum' = due - 2 * ticks /\ UNCHANGED <<seen, answer, speed, jump>> /\ jump = NoJump
  BY DEF AdvanceClock, Jumping
<1> HIDE DEF due, ticks
<1>4. accum' \in Nat /\ Underway'
  BY <1>1, <1>3 DEF Underway, Jumping
<1> QED
  BY <1>1, <1>2, <1>3, <1>4, TicksKeep

(* Clicks.                                                                 *)
LEMMA DispatchKeeps ==
  ASSUME SInv, NEW open \in BOOLEAN, Section(open), Dispatch
  PROVE  SInv'
<1>1. seen' \in 0..Len(log)
  BY Clock DEF Section, SInv
<1>2. UNCHANGED <<story, journal, answer, accum, jump, log, applied>>
  BY DEF Dispatch
<1>3. CASE speed' \in Speeds /\ UNCHANGED sim
  BY <1>1, <1>2, <1>3, SessionAssumption DEF SInv, Answered, Underway, Jumping
<1>4. ASSUME NEW on \in BOOLEAN, sim' = [sim EXCEPT !.setpoint = on], UNCHANGED speed
      PROVE  SInv'
  <2>1. /\ sim' \in Sims /\ sim'.start = sim.start /\ sim'.tick = sim.tick
        /\ sim'.mail = sim.mail /\ sim'.bits = sim.bits /\ sim'.count = sim.count
    <3> DEFINE Q == Seq({Cleared(b) : b \in Bits})
               R == [start : Nat, tick : Nat, bits : SUBSET Bits, mail : Q, count : Nat,
                     setpoint : BOOLEAN]
    <3>1. sim \in R
      BY DEF SInv, LogSound, Sims
    <3> HIDE DEF Q
    <3>2. /\ sim' \in R /\ sim'.start = sim.start /\ sim'.tick = sim.tick
          /\ sim'.mail = sim.mail /\ sim'.bits = sim.bits /\ sim'.count = sim.count
      BY ONLY <1>4, <3>1
    <3> QED
      BY <3>2 DEF Q, Sims
  <2>2. LogSound(sim', log', journal')
    BY <1>2, <2>1 DEF LogSound, SInv
  <2>3. Now(sim') = Now(sim)
    BY <2>1 DEF Now
  <2> QED
    BY <1>1, <1>2, <1>4, <2>1, <2>2, <2>3 DEF SInv, Answered, Underway, Jumping
<1> QED
  BY <1>3, <1>4 DEF Dispatch

LEMMA SetToSeqOne == ASSUME NEW e PROVE SetToSeq({e}) = <<e>>
<1>1. Cardinality({e}) = 1
  BY FS_Singleton
<1>2. \A f \in [1..1 -> {e}] : f = <<e>>
  OBVIOUS
<1>3. <<e>> \in [1..1 -> {e}] /\ IsInjective(<<e>>)
  BY DEF IsInjective
<1> QED
  BY <1>1, <1>2, <1>3 DEF SetToSeq

(* The one bit that latches leaves the word and its clear joins the mail.  *)
LEMMA ResetKeeps ==
  ASSUME SInv, NEW open \in BOOLEAN, Section(open), ResetSite
  PROVE  SInv'
<1> DEFINE C == {Cleared(b) : b \in Bits}
           e == Cleared("trip")
<1>1. /\ seen' \in 0..Len(log) /\ UNCHANGED <<story, journal, speed, accum, jump, log, applied>>
      /\ answer' = Now(sim)
  BY Clock DEF Section, SInv, ResetSite, ResetAlarms
<1>2. "trip" \in sim.bits /\ sim.bits \cap Latching = {"trip"}
  BY DEF ResetSite, Latching
<1>3. SetToSeq({Cleared(b) : b \in sim.bits \cap Latching}) = <<e>>
  <2>1. {Cleared(b) : b \in sim.bits \cap Latching} = {e}
    BY <1>2
  <2> HIDE DEF e
  <2> QED
    BY <2>1, SetToSeqOne
<1>4. sim' = [sim EXCEPT !.bits = @ \ Latching, !.mail = @ \o <<e>>]
  BY <1>3 DEF ResetSite, ResetAlarms
<1>5. sim \in Sims /\ sim.mail \in Seq(C) /\ e \in C /\ sim.bits \subseteq Bits
  BY DEF SInv, LogSound, Sims, Bits
<1>6. sim.mail \o <<e>> \in Seq(C) /\ Dropped(sim.mail \o <<e>>) = Dropped(sim.mail) \cup {"trip"}
  <2> DEFINE s == sim.mail
             t == s \o <<e>>
             n == Len(s)
  <2>1. s \in Seq(C) /\ <<e>> \in Seq(C)
    BY <1>5
  <2> HIDE DEF C, s, t
  <2>2. /\ t \in Seq(C) /\ n \in Nat /\ DOMAIN s = 1..n /\ DOMAIN t = 1..(n + 1)
        /\ \A i \in 1..n : t[i] = s[i]
        /\ t[n + 1] = e
    BY <1>5, <2>1 DEF t
  <2>3. e.bit = "trip"
    BY DEF Cleared
  <2> HIDE DEF e, n
  <2>4. 1..(n + 1) = (1..n) \cup {n + 1} /\ n + 1 \in 1..(n + 1)
    BY <2>2
  <2>5. Dropped(t) = Dropped(s) \cup {"trip"}
    BY <2>2, <2>3, <2>4 DEF Dropped
  <2> QED
    BY <2>2, <2>5 DEF t, s
<1>7. /\ sim' \in Sims /\ sim'.start = sim.start /\ sim'.tick = sim.tick
      /\ sim'.mail = sim.mail \o <<e>> /\ sim'.bits = sim.bits \ {"trip"}
      /\ sim'.count = sim.count
  <2> DEFINE Q == Seq(C)
             m == sim.mail \o <<e>>
             R == [start : Nat, tick : Nat, bits : SUBSET Bits, mail : Q, count : Nat,
                   setpoint : BOOLEAN]
  <2>1. sim \in R /\ m \in Q
    BY <1>5, <1>6 DEF Sims
  <2>2. sim' = [sim EXCEPT !.bits = sim.bits \ Latching, !.mail = m]
    BY <1>4
  <2> HIDE DEF Q, m
  <2>3. /\ sim' \in R /\ sim'.start = sim.start /\ sim'.tick = sim.tick
        /\ sim'.mail = m /\ sim'.bits = sim.bits \ Latching /\ sim'.count = sim.count
    BY ONLY <2>1, <2>2
  <2> QED
    BY <2>3 DEF Q, m, Sims, Latching
<1>8. LogSound(sim', log', journal')
  BY <1>1, <1>6, <1>7 DEF LogSound, SInv
<1>9. Now(sim') = Now(sim) /\ Answered'
  <2>1. Now(sim') = Now(sim)
    BY <1>7 DEF Now
  <2>2. Now(sim) \in sim.start..Now(sim)
    BY Clock DEF Now
  <2> QED
    BY <1>1, <1>7, <2>1, <2>2 DEF Answered
<1> QED
  BY <1>1, <1>7, <1>8, <1>9 DEF SInv, Underway, Jumping

LEMMA TargetIsTime ==
  ASSUME SInv
  PROVE  /\ NextTick # NoTime => AtTick(sim, NextTick) \in Int
         /\ LengthOf # NoTime => AtTick(sim, LengthOf) \in Int
<1>1. CASE story = << >>
  BY <1>1 DEF NextTick, LengthOf, Playing
<1>2. CASE story # << >>
  <2>1. PICK c \in Cases : \E k \in 0..Len(c.schedule) : story = <<[case |-> c, cursor |-> k]>>
    BY <1>2 DEF SInv, StorySound
  <2>2. PICK k \in 0..Len(c.schedule) : story = <<[case |-> c, cursor |-> k]>>
    BY <2>1
  <2>3. c.schedule \in Seq([tick : Nat, wire : BOOLEAN]) /\ c.length \in Nat \cup {NoTime}
    BY SessionAssumption
  <2>4. story[1].case = c /\ story[1].cursor = k
    BY <2>2
  <2>5. Len(c.schedule) \in Nat
    BY <2>3
  <2>6. k < Len(c.schedule) => c.schedule[k + 1].tick \in Nat
    <3> DEFINE Q == [tick : Nat, wire : BOOLEAN]
               q == c.schedule
    <3>1. q \in Seq(Q) /\ \A x \in Q : x.tick \in Nat
      BY <2>3
    <3> HIDE DEF Q, q
    <3>2. k < Len(q) => q[k + 1] \in Q
      BY <2>5, <3>1 DEF q
    <3> QED
      BY <3>1, <3>2 DEF q
  <2>7. NextTick # NoTime => NextTick \in Nat
    BY <2>4, <2>6 DEF NextTick, Fired
  <2>8. LengthOf # NoTime => LengthOf \in Nat
    BY <2>3, <2>4 DEF LengthOf
  <2> QED
    BY <2>7, <2>8, Clock DEF AtTick
<1> QED
  BY <1>1, <1>2

LEMMA JumpToKeeps ==
  ASSUME SInv, NEW open \in BOOLEAN, Section(open), NEW target \in Int, JumpTo(target),
         UNCHANGED <<sim, story, journal, answer, speed, accum, log, applied>>
  PROVE  SInv'
<1>1. seen' \in 0..Len(log')
  BY Clock DEF Section, SInv
<1>2. Underway'
  <2>1. CASE ~Jumping /\ target > Now(sim)
    BY <2>1 DEF JumpTo, Underway, Jumping
  <2>2. CASE ~(~Jumping /\ target > Now(sim))
    BY <2>2 DEF JumpTo, Underway, Jumping, SInv
  <2> QED
    BY <2>1, <2>2
<1> QED
  BY <1>1, <1>2 DEF SInv, Answered

LEMMA ClickKeeps ==
  ASSUME SInv, NEW open \in BOOLEAN, Section(open),
         Click \/ UNCHANGED <<sim, story, journal, answer, speed, accum, jump, log, applied>>
  PROVE  SInv'
<1>1. CASE Dispatch
  BY <1>1, DispatchKeeps
<1>2. CASE ResetSite
  BY <1>2, ResetKeeps
<1>3. CASE TimeTravel /\ UNCHANGED <<sim, story, journal, answer, speed, accum, log, applied>>
  <2>1. PICK date \in Dates : JumpTo(date)
    BY <1>3 DEF TimeTravel
  <2>2. date \in Int
    BY SessionAssumption
  <2> QED
    BY <1>3, <2>1, <2>2, JumpToKeeps
<1>4. CASE Strip /\ UNCHANGED <<sim, story, journal, answer, speed, accum, log, applied>>
  BY <1>4, TargetIsTime, JumpToKeeps DEF Strip
<1>5. CASE UNCHANGED <<sim, story, journal, answer, speed, accum, jump, log, applied>>
  <2>1. seen' \in 0..Len(log')
    BY <1>5, Clock DEF Section, SInv
  <2> QED
    BY <1>5, <2>1 DEF SInv, Answered, Underway, Jumping
<1> QED
  BY <1>1, <1>2, <1>3, <1>4, <1>5 DEF Click

LEMMA StartKeeps ==
  ASSUME SInv, NEW case \in Cases, StartCase(case)
  PROVE  SInv'
<1> DEFINE date == IF case.start = NoTime THEN Now(sim) ELSE case.start
<1>1. /\ case.schedule \in Seq([tick : Nat, wire : BOOLEAN])
      /\ case.start \in Nat \cup {NoTime} /\ case.speed \in Nat \cup {NoTime}
  BY SessionAssumption
<1>2. date \in Nat /\ speed' \in Nat
  BY <1>1, Clock DEF StartCase, SInv
<1>3. StorySound(story', 0, << >>)
  <2>1. story' = <<[case |-> case, cursor |-> 0]>>
    BY DEF StartCase
  <2>2. 0 \in 0..Len(case.schedule)
    BY <1>1
  <2>3. Behind(case.schedule, 0) = 1..0
    <3> DEFINE Q == [tick : Nat, wire : BOOLEAN]
               q == case.schedule
    <3>1. q \in Seq(Q) /\ \A x \in Q : ~(x.tick < 0)
      BY <1>1
    <3> HIDE DEF Q
    <3>2. \A i \in DOMAIN q : q[i] \in Q
      BY <3>1
    <3>3. \A i \in DOMAIN q : ~(q[i].tick < 0)
      BY <3>1, <3>2
    <3> QED
      BY <3>3 DEF Behind
  <2>4. Played(<< >>, case.schedule, 0)
    BY DEF Played, Faults, ToSet
  <2> QED
    BY <2>1, <2>2, <2>3, <2>4 DEF StorySound
<1> QED
  BY <1>2, <1>3, FreshPlant DEF StartCase

LEMMA RestartKeeps ==
  ASSUME SInv, NEW date \in Dates, RestartAt(date)
  PROVE  SInv'
<1>1. date \in Nat /\ speed' \in Nat
  BY SessionAssumption DEF RestartAt, SInv
<1>2. StorySound(story', 0, << >>)
  BY DEF RestartAt, StorySound
<1> QED
  BY <1>1, <1>2, FreshPlant DEF RestartAt

LEMMA SessionNextKeeps == SInv /\ [SessionNext]_sessionVars => SInv'
<1> SUFFICES ASSUME SInv, [SessionNext]_sessionVars PROVE SInv'
  OBVIOUS
<1>1. CASE AdvanceJump
  BY <1>1, JumpKeeps
<1>2. CASE AdvanceClock
  BY <1>2, ClockKeeps
<1>3. CASE Ui
  <2>1. CASE \E open \in BOOLEAN : Section(open) /\
               (Click \/ UNCHANGED <<sim, story, journal, answer, speed, accum, jump, log, applied>>)
    BY <2>1, ClickKeeps
  <2>2. CASE Stops
    BY <2>2, RestartKeeps DEF Stops
  <2>3. CASE Picker
    BY <2>3, StartKeeps DEF Picker
  <2> QED
    BY <1>3, <2>1, <2>2, <2>3 DEF Ui
<1>4. CASE Door
  BY <1>4, StartKeeps DEF Door
<1>5. CASE UNCHANGED sessionVars
  BY <1>5 DEF sessionVars, SInv, Answered, Underway, Jumping
<1> QED
  BY <1>1, <1>2, <1>3, <1>4, <1>5 DEF SessionNext, Advance

LEMMA SessionInductive == SessionSpec => []SInv
BY InitSound, SessionNextKeeps, PTL DEF SessionSpec

(* The journal is the tail of the log, numbered as the kernel numbers it;  *)
(* every set bit is dated by its last raise; bookmark and answer are this  *)
(* plant's (alarms/journal.rs:54, viewer/record.rs:17,                     *)
(* viewer/session.rs:229).                                                 *)
THEOREM JournalKeepsLog == SessionSpec => []JournalIsTheLog
<1>1. ASSUME SInv PROVE JournalIsTheLog
  <2>1. /\ sim.count = Len(log) /\ Len(log) \in Nat /\ seen <= Len(log)
        /\ answer # NoTime => answer \in sim.start..Now(sim)
    BY <1>1, Clock DEF SInv, Answered
  <2>2. Tells(journal, log, Len(log), DOMAIN journal.raised) /\ sim.bits \subseteq DOMAIN journal.raised
    BY <1>1 DEF SInv, LogSound
  <2>3. journal.entries = [i \in 1..Smaller(Capacity, Len(log)) |->
          LET k == Len(log) - Smaller(Capacity, Len(log)) + i
          IN Entry(k, log[k].event, log[k].time)]
    BY <2>2 DEF Tells, LastOf, Numbered
  <2>4. DOMAIN log = 1..Len(log)
    <3>1. log \in Seq(LogEntries)
      BY <1>1 DEF SInv, LogSound
    <3> DEFINE P == LogEntries
    <3> HIDE DEF P
    <3>2. \A L \in Seq(P) : DOMAIN L = 1..Len(L)
      OBVIOUS
    <3> QED
      BY <3>1, <3>2 DEF P
  <2>5. \A b \in sim.bits :
          /\ b \in DOMAIN journal.raised
          /\ \E i \in DOMAIN log : /\ log[i].event = Raised(b)
                                   /\ journal.raised[b] = log[i].time
                                   /\ \A k \in (i + 1)..Len(log) : ~Edge(log[k].event, b)
    BY <2>2, <2>4 DEF Tells, Dated
  <2> QED
    BY <2>1, <2>3, <2>5 DEF JournalIsTheLog
<1> QED
  BY <1>1, SessionInductive, PTL

(* Every fault of the story comes on its own tick, in order and once,      *)
(* whether watched or jumped across, and the strip counts those behind the *)
(* plant (viewer/run.rs:55, player.rs:70).                                 *)
THEOREM StoriesKeepTime == SessionSpec => []StoryKeepsTime
<1>1. ASSUME SInv PROVE StoryKeepsTime
  <2> SUFFICES ASSUME Playing PROVE StoryKeepsTime
    BY DEF StoryKeepsTime
  <2>1. PICK c \in Cases : \E k \in 0..Len(c.schedule) :
          /\ story = <<[case |-> c, cursor |-> k]>>
          /\ Behind(c.schedule, sim.tick) = 1..k /\ Played(applied, c.schedule, k)
    BY <1>1 DEF SInv, StorySound, Playing
  <2>2. PICK k \in 0..Len(c.schedule) :
          /\ story = <<[case |-> c, cursor |-> k]>>
          /\ Behind(c.schedule, sim.tick) = 1..k /\ Played(applied, c.schedule, k)
    BY <2>1
  <2>3. story[1].case.schedule = c.schedule /\ Fired = k
    BY <2>2 DEF Fired
  <2>4. ToSet(applied) = {<<i, c.schedule[i].tick>> : i \in {i \in 1..k : ~c.schedule[i].wire}}
    BY <2>2 DEF Played, Faults
  <2>5. k = Cardinality(Behind(c.schedule, sim.tick))
    <3>1. Len(c.schedule) \in Nat
      <4>1. c.schedule \in Seq([tick : Nat, wire : BOOLEAN])
        BY SessionAssumption
      <4> QED
        BY <4>1
    <3>2. k \in Nat
      BY <3>1
    <3> QED
      BY <2>2, <3>2, FS_Interval
  <2>6. \A x, y \in DOMAIN applied : x < y => applied[x][1] < applied[y][1]
    BY <2>2 DEF Played
  <2> QED
    BY <2>3, <2>4, <2>5, <2>6 DEF StoryKeepsTime, Behind
<1> QED
  BY <1>1, SessionInductive, PTL

(* A jump never passes its target, and one that ends lands on it with no   *)
(* time left over (viewer/jump.rs:68).                                     *)
THEOREM JumpsLand == SessionSpec => JumpLandsOnTarget
<1>1. ASSUME SInv, Jumping /\ AdvanceJump
      PROVE  /\ Now(sim') <= jump.target
             /\ jump' = NoJump <=> Now(sim') = jump.target
             /\ jump' = NoJump => accum' = 0
  BY <1>1, JumpKeeps
<1> QED
  BY <1>1, SessionInductive, PTL DEF JumpLandsOnTarget
=============================================================================
