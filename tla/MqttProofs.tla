----------------------------- MODULE MqttProofs -----------------------------
(***************************************************************************)
(* What a subscriber of the MQTT publisher may rely on, for every story,   *)
(* every size of the store, of the burst and of the event channel.         *)
(***************************************************************************)
EXTENDS MqttProperties, SequenceFacts, SequenceTheorems

-----------------------------------------------------------------------------
(* The inductive invariant, in parts.                                      *)

Boxes == [store : Seq(Messages), offline : BOOLEAN, returned : BOOLEAN,
          replayed : SUBSET Nat, replaying : BOOLEAN, forgotten : BOOLEAN]

Types ==
  /\ run \in 1..Len(Stories) /\ tick \in Nat /\ word \in {0, 1} /\ count \in Nat
  /\ batches \in Seq(Messages) /\ lagged \in BOOLEAN
  /\ pc \in {"idle", "cadence", "changed"}
  /\ lastPub \in Int \cup {None} /\ lastWord \in {0, 1, None}
  /\ connections \in Nat /\ publishedOn \in 0..connections
  /\ refusals \in Nat

Id(m) == <<m.run, m.value>>

(* No two of these messages are the same event.                            *)
Distinct(s) ==
  \A i, j \in DOMAIN s :
    s[i].kind = "event" /\ s[j].kind = "event" /\ Id(s[i]) = Id(s[j]) => i = j

(* The events the kernel has emitted, and what was published in the past.  *)
Emitted == {e \in Nat \X Nat : e[1] < run \/ (e[1] = run /\ e[2] <= count)}
Passed(m) == m.run < run \/ (m.run = run /\ m.born <= tick)

(* Retained messages in the order they were published in, after an older.  *)
Sorted(s) == \A i, j \in DOMAIN s : i < j /\ s[i].retain /\ s[j].retain => Later(s[j], s[i])
Follows(s, m) == \A i \in DOMAIN s : s[i].retain => Later(s[i], m)

(* An outbox and a broker that fit together. No event waits twice or waits *)
(* once it is out; retained messages are words, wait only where a replay   *)
(* will bring them, and wait in order behind the one at the broker.        *)
Fits(box, out, last) ==
  /\ box \in Boxes /\ Len(box.store) <= STORE
  /\ out \in SUBSET Emitted /\ last \in Messages \cup {None}
  /\ Distinct(box.store) /\ EventsIn(box.store) \subseteq Emitted \ out
  /\ \A i \in DOMAIN box.store :
       box.store[i].retain => box.store[i].kind = "word" /\ Passed(box.store[i])
  /\ ~box.replaying => \A i \in DOMAIN box.store : ~box.store[i].retain
  /\ Sorted(box.store)
  /\ last # None => Passed(last) /\ Follows(box.store, last)

(* The channel holds events that are nowhere else.                         *)
Channel ==
  /\ \A i \in DOMAIN batches : batches[i].kind = "event" /\ ~batches[i].retain
  /\ Distinct(batches) /\ Len(batches) <= EVENT_BACKLOG
  /\ EventsIn(batches) \subseteq Emitted \ (EventsIn(outbox.store) \cup delivered)

IInv == Types /\ Fits(outbox, delivered, retained) /\ Channel

-----------------------------------------------------------------------------
(* Messages in a row.                                                      *)

(* s is a stretch of t.                                                    *)
Part(s, t) ==
  \E k \in Nat : Len(s) + k <= Len(t) /\ \A i \in DOMAIN s : s[i] = t[i + k]

LEMMA EventsInIs ==
  ASSUME NEW s, NEW e
  PROVE  e \in EventsIn(s) <=> \E i \in DOMAIN s : s[i].kind = "event" /\ e = Id(s[i])
BY DEF EventsIn, ToSet, Id

LEMMA NewestIs ==
  ASSUME NEW s \in Seq(Messages), NEW r
  PROVE  \/ (\A i \in DOMAIN s : ~s[i].retain) /\ Newest(s, r) = r
         \/ \E i \in DOMAIN s : /\ s[i].retain /\ Newest(s, r) = s[i]
                                /\ \A j \in DOMAIN s : s[j].retain => j <= i
<1> DEFINE W == {i \in DOMAIN s : s[i].retain}
<1>1. W \subseteq 1..Len(s) /\ Len(s) \in Nat
  OBVIOUS
<1>2. Newest(s, r) = IF W = {} THEN r ELSE s[Max(W)]
  BY Zenon DEF Newest
<1>3. CASE W = {}
  BY <1>2, <1>3
<1>4. CASE W # {}
  <2>1. Max(W) \in W /\ \A y \in W : Max(W) >= y
    <3> HIDE DEF W
    <3> QED
      BY <1>1, <1>4, MaxOfIndices
  <2> DEFINE m == Max(W)
  <2>2. Newest(s, r) = s[m] /\ m \in W /\ \A y \in W : m >= y
    BY <1>2, <1>4, <2>1
  <2> HIDE DEF m
  <2>3. m \in DOMAIN s /\ s[m].retain /\ m \in Int
    BY <1>1, <2>2
  <2>4. \A j \in DOMAIN s : s[j].retain => j <= m
    BY <1>1, <2>2, <2>3
  <2> QED
    BY <2>2, <2>3, <2>4
<1> QED
  BY <1>3, <1>4

LEMMA PartKeeps ==
  ASSUME NEW s \in Seq(Messages), NEW t \in Seq(Messages), Part(s, t)
  PROVE  /\ \A i \in DOMAIN s : \E j \in DOMAIN t : s[i] = t[j]
         /\ EventsIn(s) \subseteq EventsIn(t) /\ Len(s) <= Len(t)
         /\ Distinct(t) => Distinct(s)
         /\ Sorted(t) => Sorted(s)
<1>1. PICK k \in Nat : Len(s) + k <= Len(t) /\ \A i \in DOMAIN s : s[i] = t[i + k]
  BY DEF Part
<1>2. Len(s) \in Nat /\ Len(t) \in Nat /\ DOMAIN s = 1..Len(s) /\ DOMAIN t = 1..Len(t)
  OBVIOUS
<1>3. \A i \in DOMAIN s : i + k \in DOMAIN t
  BY <1>1, <1>2
<1>4. \A i \in DOMAIN s : \E j \in DOMAIN t : s[i] = t[j]
  BY <1>1, <1>3
<1>5. EventsIn(s) \subseteq EventsIn(t)
  <2> SUFFICES ASSUME NEW e \in EventsIn(s) PROVE e \in EventsIn(t)
    OBVIOUS
  <2>1. PICK i \in DOMAIN s : s[i].kind = "event" /\ e = Id(s[i])
    BY EventsInIs
  <2>2. PICK j \in DOMAIN t : s[i] = t[j]
    BY <1>4
  <2> QED
    BY <2>1, <2>2, EventsInIs
<1>6. ASSUME Distinct(t) PROVE Distinct(s)
  <2> SUFFICES ASSUME NEW i \in DOMAIN s, NEW j \in DOMAIN s,
                      s[i].kind = "event", s[j].kind = "event", Id(s[i]) = Id(s[j])
               PROVE  i = j
    BY DEF Distinct
  <2>1. i + k = j + k
    BY <1>1, <1>3, <1>6 DEF Distinct
  <2> QED
    BY <1>2, <2>1
<1>7. ASSUME Sorted(t) PROVE Sorted(s)
  <2> SUFFICES ASSUME NEW i \in DOMAIN s, NEW j \in DOMAIN s,
                      i < j, s[i].retain, s[j].retain
               PROVE  Later(s[j], s[i])
    BY DEF Sorted
  <2>1. i + k < j + k
    BY <1>2
  <2>2. i + k \in DOMAIN t /\ j + k \in DOMAIN t /\ s[i] = t[i + k] /\ s[j] = t[j + k]
    BY <1>1, <1>3
  <2> QED
    BY <1>7, <2>1, <2>2 DEF Sorted
<1> QED
  BY <1>1, <1>2, <1>4, <1>5, <1>6, <1>7

LEMMA AppendKeeps ==
  ASSUME NEW s \in Seq(Messages), NEW m \in Messages
  PROVE  LET t == Append(s, m)
         IN  /\ t \in Seq(Messages) /\ DOMAIN t = DOMAIN s \cup {Len(s) + 1}
             /\ t[Len(s) + 1] = m /\ \A i \in DOMAIN s : t[i] = s[i]
             /\ EventsIn(t) = EventsIn(s) \cup (IF m.kind = "event" THEN {Id(m)} ELSE {})
             /\ Distinct(s) /\ (m.kind = "event" => Id(m) \notin EventsIn(s)) => Distinct(t)
             /\ Sorted(s) /\ (m.retain => \A i \in DOMAIN s : s[i].retain => Later(m, s[i]))
                  => Sorted(t)
<1> DEFINE t == Append(s, m)
<1>1. /\ t \in Seq(Messages) /\ Len(t) = Len(s) + 1 /\ DOMAIN t = 1..Len(t)
      /\ Len(s) \in Nat /\ DOMAIN s = 1..Len(s)
      /\ t[Len(s) + 1] = m /\ \A i \in DOMAIN s : t[i] = s[i]
  OBVIOUS
<1> HIDE DEF t
<1>2. DOMAIN t = DOMAIN s \cup {Len(s) + 1}
  BY <1>1
<1>3. EventsIn(t) = EventsIn(s) \cup (IF m.kind = "event" THEN {Id(m)} ELSE {})
  <2> SUFFICES ASSUME NEW e
               PROVE  e \in EventsIn(t) <=> e \in EventsIn(s) \/ (m.kind = "event" /\ e = Id(m))
    OBVIOUS
  <2>1. e \in EventsIn(t) <=> \E i \in DOMAIN t : t[i].kind = "event" /\ e = Id(t[i])
    BY EventsInIs
  <2>2. e \in EventsIn(s) <=> \E i \in DOMAIN s : s[i].kind = "event" /\ e = Id(s[i])
    BY EventsInIs
  <2> QED
    BY <1>1, <1>2, <2>1, <2>2
<1>4. ASSUME Distinct(s), m.kind = "event" => Id(m) \notin EventsIn(s)
      PROVE  Distinct(t)
  <2> SUFFICES ASSUME NEW i \in DOMAIN t, NEW j \in DOMAIN t,
                      t[i].kind = "event", t[j].kind = "event", Id(t[i]) = Id(t[j])
               PROVE  i = j
    BY DEF Distinct
  <2>1. \A x \in DOMAIN s : s[x].kind = "event" => Id(s[x]) \in EventsIn(s)
    BY EventsInIs
  <2>2. CASE i \in DOMAIN s /\ j \in DOMAIN s
    BY <1>1, <1>4, <2>2 DEF Distinct
  <2>3. CASE i \in DOMAIN s /\ j = Len(s) + 1
    BY <1>1, <1>4, <2>1, <2>3
  <2>4. CASE j \in DOMAIN s /\ i = Len(s) + 1
    BY <1>1, <1>4, <2>1, <2>4
  <2> QED
    BY <1>2, <2>2, <2>3, <2>4
<1>5. ASSUME Sorted(s), m.retain => \A i \in DOMAIN s : s[i].retain => Later(m, s[i])
      PROVE  Sorted(t)
  <2> SUFFICES ASSUME NEW i \in DOMAIN t, NEW j \in DOMAIN t,
                      i < j, t[i].retain, t[j].retain
               PROVE  Later(t[j], t[i])
    BY DEF Sorted
  <2>1. i \in DOMAIN s
    BY <1>1
  <2>2. CASE j \in DOMAIN s
    BY <1>1, <1>5, <2>1, <2>2 DEF Sorted
  <2>3. CASE j = Len(s) + 1
    BY <1>1, <1>5, <2>1, <2>3
  <2> QED
    BY <1>2, <2>2, <2>3
<1> QED
  BY <1>1, <1>2, <1>3, <1>4, <1>5 DEF t

(* The whole, the tail and what follows some first messages are stretches. *)
LEMMA Parts ==
  ASSUME NEW s \in Seq(Messages)
  PROVE  /\ Part(s, s) /\ Part(<< >>, s)
         /\ s # << >> => Tail(s) \in Seq(Messages) /\ Part(Tail(s), s)
         /\ \A n \in 0..Len(s) :
              LET r == SubSeq(s, n + 1, Len(s))
              IN  /\ r \in Seq(Messages) /\ Part(r, s) /\ Len(r) = Len(s) - n
                  /\ \A i \in DOMAIN r : r[i] = s[i + n]
<1>1. Len(s) \in Nat /\ DOMAIN s = 1..Len(s)
  OBVIOUS
<1>2. Part(s, s)
  <2>1. \A i \in DOMAIN s : s[i] = s[i + 0]
    OBVIOUS
  <2> QED
    BY <1>1, <2>1 DEF Part
<1>3. Part(<< >>, s)
  <2>1. 0 \in Nat /\ Len(<< >>) + 0 <= Len(s) /\ DOMAIN << >> = {}
    BY <1>1
  <2> QED
    BY <2>1 DEF Part
<1>4. ASSUME s # << >> PROVE Tail(s) \in Seq(Messages) /\ Part(Tail(s), s)
  <2> DEFINE r == Tail(s)
  <2>1. r \in Seq(Messages) /\ Len(r) = Len(s) - 1 /\ \A i \in 1..Len(r) : r[i] = s[i + 1]
    BY <1>4
  <2>2. DOMAIN r = 1..Len(r) /\ Len(r) + 1 <= Len(s) /\ 1 \in Nat
    BY <1>1, <2>1
  <2> HIDE DEF r
  <2>3. Part(r, s)
    BY <2>1, <2>2 DEF Part
  <2> QED
    BY <2>1, <2>3 DEF r
<1>5. ASSUME NEW n \in 0..Len(s)
      PROVE  LET r == SubSeq(s, n + 1, Len(s))
             IN  /\ r \in Seq(Messages) /\ Part(r, s) /\ Len(r) = Len(s) - n
                 /\ \A i \in DOMAIN r : r[i] = s[i + n]
  <2> DEFINE r == SubSeq(s, n + 1, Len(s))
  <2>1. /\ r \in Seq(Messages) /\ Len(r) = Len(s) - n
        /\ \A i \in 1..Len(r) : r[i] = s[(n + 1) + i - 1]
    <3>1. n + 1 \in Int /\ Len(s) \in Int /\ \A i \in (n + 1)..Len(s) : s[i] \in Messages
      BY <1>1
    <3>2. /\ r \in Seq(Messages)
          /\ Len(r) = IF n + 1 <= Len(s) THEN Len(s) - (n + 1) + 1 ELSE 0
          /\ \A i \in 1..(Len(s) - (n + 1) + 1) : r[i] = s[(n + 1) + i - 1]
      <4> HIDE DEF r
      <4> QED
        BY <3>1, SubSeqProperties DEF r
    <3> QED
      <4> HIDE DEF r
      <4>1. n \in Nat /\ n <= Len(s)
        BY <1>1
      <4>2. Len(r) = Len(s) - n
        <5>1. CASE n + 1 <= Len(s)
          BY <1>1, <3>2, <4>1, <5>1
        <5>2. CASE ~(n + 1 <= Len(s))
          <6>1. Len(r) = 0
            BY <3>2, <5>2
          <6>2. \A a, b \in Nat : a <= b /\ ~(a + 1 <= b) => a = b
            OBVIOUS
          <6>3. n = Len(s)
            BY <1>1, <4>1, <5>2, <6>2
          <6> QED
            BY <1>1, <6>1, <6>3
        <5> QED
          BY <5>1, <5>2
      <4>3. Len(s) - (n + 1) + 1 = Len(s) - n
        BY <1>1, <4>1
      <4> QED
        BY <3>2, <4>2, <4>3
  <2> HIDE DEF r
  <2>2. n \in Nat /\ DOMAIN r = 1..Len(r) /\ Len(r) + n <= Len(s)
    BY <1>1, <2>1
  <2>3. \A i \in DOMAIN r : r[i] = s[i + n]
    BY <2>1, <2>2
  <2>4. Part(r, s)
    BY <2>2, <2>3 DEF Part
  <2> QED
    BY <2>1, <2>3, <2>4 DEF r
<1> QED
  BY <1>2, <1>3, <1>4, <1>5

-----------------------------------------------------------------------------
(* The outbox, operation by operation.                                     *)

LEMMA ObserveFacts ==
  ASSUME NEW box \in Boxes, NEW seen, seen = Observe(box)
  PROVE  /\ seen \in Boxes /\ seen.offline = Dropout
         /\ seen.store = box.store \/ seen.store = << >>
         /\ seen.replaying => box.replaying
         /\ seen.store # box.store => seen.offline /\ ~seen.replaying
         /\ ~seen.offline => /\ seen.store = box.store /\ seen.replaying = box.replaying
                             /\ seen.forgotten = box.forgotten
         /\ ~seen.offline /\ ~seen.returned => seen = box
         /\ seen.replayed = box.replayed
<1>1. Dropout \in BOOLEAN
  BY DEF Dropout
<1>2. << >> \in Seq(Messages)
  OBVIOUS
<1> HIDE DEF Dropout
<1>3. CASE Dropout = box.offline
  BY <1>1, <1>3 DEF Observe, Boxes
<1>4. CASE Dropout # box.offline /\ Dropout
  BY <1>1, <1>2, <1>4 DEF Observe, Boxes
<1>5. CASE Dropout # box.offline /\ ~Dropout
  BY <1>1, <1>5 DEF Observe, Boxes
<1> QED
  BY <1>3, <1>4, <1>5

(* What an outbox holds, less some of what it held, still fits.            *)
LEMMA PartFits ==
  ASSUME NEW box \in Boxes, NEW old \in Boxes, NEW out, NEW last, Fits(old, out, last),
         Part(box.store, old.store),
         ~box.replaying => box.store = << >> \/ ~old.replaying
  PROVE  Fits(box, out, last) /\ EventsIn(box.store) \subseteq EventsIn(old.store)
<1> DEFINE s == box.store
           t == old.store
<1>1. s \in Seq(Messages) /\ t \in Seq(Messages) /\ Len(t) <= STORE /\ STORE \in Int
  BY MqttAssumption DEF Boxes, Fits
<1>2. Part(s, t)
  OBVIOUS
<1> HIDE DEF s, t
<1>3. /\ \A i \in DOMAIN s : \E j \in DOMAIN t : s[i] = t[j]
      /\ EventsIn(s) \subseteq EventsIn(t) /\ Len(s) <= Len(t)
      /\ Distinct(t) => Distinct(s)
      /\ Sorted(t) => Sorted(s)
  BY <1>1, <1>2, PartKeeps
<1>4. Len(s) <= STORE
  BY <1>1, <1>3
<1>5. \A i \in DOMAIN s : s[i].retain => s[i].kind = "word" /\ Passed(s[i])
  <2>1. \A j \in DOMAIN t : t[j].retain => t[j].kind = "word" /\ Passed(t[j])
    BY DEF Fits, t
  <2> QED
    BY <1>3, <2>1
<1>6. ~box.replaying => \A i \in DOMAIN s : ~s[i].retain
  <2>1. ~old.replaying => \A j \in DOMAIN t : ~t[j].retain
    BY DEF Fits, t
  <2>2. s = << >> => DOMAIN s = {}
    OBVIOUS
  <2>3. ~box.replaying => s = << >> \/ ~old.replaying
    BY DEF s
  <2> QED
    BY <1>3, <2>1, <2>2, <2>3
<1>7. last # None => Passed(last) /\ Follows(s, last)
  <2>1. last # None => Passed(last) /\ \A j \in DOMAIN t : t[j].retain => Later(t[j], last)
    BY DEF Fits, Follows, t
  <2> QED
    BY <1>3, <2>1 DEF Follows
<1>8. /\ out \in SUBSET Emitted /\ last \in Messages \cup {None}
      /\ Distinct(t) /\ Sorted(t) /\ EventsIn(t) \subseteq Emitted \ out
  BY DEF Fits, t
<1>9. Distinct(s) /\ Sorted(s) /\ EventsIn(s) \subseteq Emitted \ out
  BY <1>3, <1>8
<1> QED
  BY <1>3, <1>4, <1>5, <1>6, <1>7, <1>8, <1>9 DEF Fits, s, t

LEMMA ObserveFits ==
  ASSUME NEW box, NEW out, NEW last, Fits(box, out, last)
  PROVE  /\ Fits(Observe(box), out, last)
         /\ EventsIn(Observe(box).store) \subseteq EventsIn(box.store)
<1> DEFINE seen == Observe(box)
<1>1. box \in Boxes
  BY DEF Fits
<1>2. /\ seen \in Boxes /\ (seen.store = box.store \/ seen.store = << >>)
      /\ (~seen.offline => seen.store = box.store /\ seen.replaying = box.replaying)
      /\ (seen.store # box.store => seen.offline /\ ~seen.replaying)
  BY <1>1, ObserveFacts
<1>3. ~seen.replaying => seen.store = << >> \/ ~box.replaying
  <2>1. CASE Dropout = box.offline
    BY <1>1, <2>1 DEF Observe
  <2>2. CASE Dropout # box.offline /\ Dropout
    BY <1>1, <2>2 DEF Observe, Boxes
  <2>3. CASE Dropout # box.offline /\ ~Dropout
    BY <1>1, <2>3 DEF Observe, Boxes
  <2> QED
    BY <2>1, <2>2, <2>3
<1>4. box.store \in Seq(Messages)
  BY <1>1 DEF Boxes
<1>5. Part(seen.store, box.store)
  BY <1>2, <1>4, Parts
<1> QED
  <2> HIDE DEF seen
  <2>1. Fits(seen, out, last) /\ EventsIn(seen.store) \subseteq EventsIn(box.store)
    BY <1>1, <1>2, <1>3, <1>5, PartFits
  <2> QED
    BY <2>1 DEF seen

(* A message of this moment: a word may be retained, an event is new.      *)
Fresh(m, held, out) ==
  /\ m \in Messages
  /\ m.retain => m.kind = "word" /\ m.run = run /\ m.born = tick
  /\ m.kind = "event" => Id(m) \in Emitted \ (out \cup held)

LEMMA KeepFacts ==
  ASSUME NEW box \in Boxes, NEW m \in Messages, Len(box.store) <= STORE
  PROVE  /\ Keep(box, m) \in Boxes
         /\ \E s \in Seq(Messages) :
              /\ Part(s, box.store) /\ Keep(box, m).store = Append(s, m)
              /\ Len(Append(s, m)) <= STORE
              /\ ~Keep(box, m).forgotten => s = box.store /\ ~box.forgotten
         /\ Keep(box, m).offline = box.offline /\ Keep(box, m).returned = box.returned
         /\ Keep(box, m).replaying = box.replaying /\ Keep(box, m).replayed = box.replayed
<1> DEFINE t == box.store
<1>1. t \in Seq(Messages) /\ Len(t) \in Nat /\ STORE \in Nat \ {0} /\ Len(t) <= STORE
  BY MqttAssumption DEF Boxes
<1>2. CASE Len(t) = STORE
  <2> DEFINE s == Tail(t)
  <2>1. t # << >>
    BY <1>1, <1>2
  <2>2. s \in Seq(Messages) /\ Part(s, t) /\ Len(s) = Len(t) - 1
    BY <1>1, <2>1, Parts, HeadTailProperties
  <2>3. Keep(box, m) = [box EXCEPT !.store = Append(s, m), !.forgotten = TRUE]
    BY <1>2 DEF Keep
  <2> HIDE DEF s
  <2>4. Append(s, m) \in Seq(Messages) /\ Len(Append(s, m)) <= STORE
    BY <1>1, <1>2, <2>2
  <2>5. Keep(box, m) \in Boxes /\ Keep(box, m).store = Append(s, m)
        /\ Keep(box, m).forgotten = TRUE
    BY <2>3, <2>4 DEF Boxes
  <2> QED
    BY <2>2, <2>3, <2>4, <2>5 DEF Boxes
<1>3. CASE Len(t) # STORE
  <2>1. Keep(box, m) = [box EXCEPT !.store = Append(t, m)]
    BY <1>3 DEF Keep
  <2>2. Append(t, m) \in Seq(Messages) /\ Len(Append(t, m)) <= STORE /\ Part(t, t)
    BY <1>1, <1>3, Parts
  <2>3. Keep(box, m) \in Boxes /\ Keep(box, m).store = Append(t, m)
    BY <2>1, <2>2 DEF Boxes
  <2> QED
    BY <1>1, <2>1, <2>2, <2>3 DEF Boxes
<1> QED
  BY <1>2, <1>3

LEMMA KeepFits ==
  ASSUME NEW box, NEW out, NEW last, Fits(box, out, last), NEW m, run \in Nat, tick \in Nat,
         Fresh(m, EventsIn(box.store), out), m.retain => box.replaying
  PROVE  /\ Fits(Keep(box, m), out, last)
         /\ EventsIn(Keep(box, m).store)
              \subseteq EventsIn(box.store) \cup (IF m.kind = "event" THEN {Id(m)} ELSE {})
<1> DEFINE kept == Keep(box, m)
<1>1. box \in Boxes /\ m \in Messages /\ Len(box.store) <= STORE
  BY DEF Fits, Fresh
<1>2. PICK s \in Seq(Messages) :
        /\ Part(s, box.store) /\ kept.store = Append(s, m) /\ Len(Append(s, m)) <= STORE
  BY <1>1, KeepFacts
<1>3. kept \in Boxes /\ kept.replaying = box.replaying
  BY <1>1, KeepFacts
<1> DEFINE t == Append(s, m)
           smaller == [box EXCEPT !.store = s]
<1>4. /\ t \in Seq(Messages) /\ DOMAIN t = DOMAIN s \cup {Len(s) + 1}
      /\ t[Len(s) + 1] = m /\ \A i \in DOMAIN s : t[i] = s[i]
      /\ EventsIn(t) = EventsIn(s) \cup (IF m.kind = "event" THEN {Id(m)} ELSE {})
      /\ Distinct(s) /\ (m.kind = "event" => Id(m) \notin EventsIn(s)) => Distinct(t)
      /\ Sorted(s) /\ (m.retain => \A i \in DOMAIN s : s[i].retain => Later(m, s[i]))
           => Sorted(t)
  BY <1>1, AppendKeeps
<1>5. smaller \in Boxes /\ smaller.store = s /\ smaller.replaying = box.replaying
  BY <1>1 DEF Boxes
<1>6. Fits(smaller, out, last) /\ EventsIn(s) \subseteq EventsIn(box.store)
  <2> HIDE DEF smaller
  <2>1. Part(smaller.store, box.store)
    BY <1>2, <1>5
  <2>2. ~smaller.replaying => smaller.store = << >> \/ ~box.replaying
    BY <1>5
  <2> QED
    BY <1>1, <1>5, <2>1, <2>2, PartFits
<1>7. /\ Distinct(s) /\ EventsIn(s) \subseteq Emitted \ out /\ Sorted(s)
      /\ out \in SUBSET Emitted /\ last \in Messages \cup {None}
      /\ \A i \in DOMAIN s : s[i].retain => s[i].kind = "word" /\ Passed(s[i])
      /\ ~box.replaying => \A i \in DOMAIN s : ~s[i].retain
      /\ last # None => Passed(last) /\ Follows(s, last)
  <2> HIDE DEF smaller
  <2> QED
    BY <1>5, <1>6 DEF Fits
<1> HIDE DEF t, smaller, kept
<1>8. \A x : x \in Messages /\ Passed(x) /\ m.retain => Later(m, x)
  BY <1>1 DEF Fresh, Passed, Later, Messages
<1>9. Passed(m) \/ ~m.retain
  BY <1>1 DEF Fresh, Passed, Messages
<1>10. \A i \in DOMAIN s : s[i] \in Messages
  BY <1>2
<1>11. Distinct(t)
  BY <1>4, <1>6, <1>7 DEF Fresh
<1>12. Sorted(t)
  BY <1>4, <1>7, <1>8, <1>10
<1>13. \A i \in DOMAIN t : t[i].retain => t[i].kind = "word" /\ Passed(t[i])
  BY <1>4, <1>7, <1>9 DEF Fresh
<1>14. ~box.replaying => \A i \in DOMAIN t : ~t[i].retain
  BY <1>4, <1>7
<1>15. last # None => Passed(last) /\ Follows(t, last)
  <2> SUFFICES ASSUME last # None PROVE Passed(last) /\ Follows(t, last)
    OBVIOUS
  <2>1. last \in Messages /\ Passed(last) /\ Follows(s, last)
    BY <1>7
  <2>2. m.retain => Later(m, last)
    BY <1>8, <2>1
  <2> QED
    BY <1>4, <2>1, <2>2 DEF Follows
<1>16. EventsIn(t) \subseteq Emitted \ out
  BY <1>4, <1>7 DEF Fresh
<1>17. kept.store = t /\ Len(t) <= STORE
  BY <1>2 DEF t
<1>18. Fits(kept, out, last)
  BY <1>3, <1>7, <1>11, <1>12, <1>13, <1>14, <1>15, <1>16, <1>17 DEF Fits
<1> QED
  BY <1>4, <1>6, <1>17, <1>18 DEF kept

(* The broker after nothing, and after one message.                        *)
LEMMA Nothing ==
  ASSUME NEW last
  PROVE  EventsIn(<< >>) = {} /\ Newest(<< >>, last) = last
<1>1. << >> \in Seq(Messages) /\ DOMAIN << >> = {}
  OBVIOUS
<1>2. EventsIn(<< >>) = {}
  BY <1>1, EventsInIs
<1>3. Newest(<< >>, last) = last
  BY <1>1, NewestIs
<1> QED
  BY <1>2, <1>3

LEMMA One ==
  ASSUME NEW m \in Messages, NEW last
  PROVE  /\ EventsIn(<<m>>) = IF m.kind = "event" THEN {Id(m)} ELSE {}
         /\ Newest(<<m>>, last) = IF m.retain THEN m ELSE last
<1> DEFINE s == <<m>>
<1>1. s \in Seq(Messages) /\ DOMAIN s = {1} /\ s[1] = m
  OBVIOUS
<1> HIDE DEF s
<1>2. EventsIn(s) = IF m.kind = "event" THEN {Id(m)} ELSE {}
  BY <1>1, EventsInIs
<1>3. Newest(s, last) = IF m.retain THEN m ELSE last
  BY <1>1, NewestIs
<1> QED
  BY <1>2, <1>3 DEF s

LEMMA SendFits ==
  ASSUME NEW box, NEW out, NEW last, Fits(box, out, last), NEW m, NEW ok \in BOOLEAN,
         run \in Nat, tick \in Nat, Fresh(m, EventsIn(box.store), out)
  PROVE  LET sent == Send(box, m, ok)
         IN  /\ Fits(sent.box, out \cup EventsIn(sent.out), Newest(sent.out, last))
             /\ EventsIn(sent.box.store) \cup EventsIn(sent.out)
                  \subseteq EventsIn(box.store) \cup (IF m.kind = "event" THEN {Id(m)} ELSE {})
<1> DEFINE sent == Send(box, m, ok)
           seen == Observe(box)
           new == IF m.kind = "event" THEN {Id(m)} ELSE {}
<1>1. Fits(seen, out, last) /\ EventsIn(seen.store) \subseteq EventsIn(box.store)
  BY ObserveFits
<1>2. Fresh(m, EventsIn(seen.store), out) /\ m \in Messages
  BY <1>1 DEF Fresh
<1>3. seen \in Boxes
  BY <1>1 DEF Fits
<1>4. CASE seen.offline
  <2> DEFINE n == [m EXCEPT !.retain = FALSE]
             kept == Keep(seen, n)
  <2>1. n \in Messages /\ n.kind = m.kind /\ Id(n) = Id(m) /\ n.retain = FALSE
    BY <1>2 DEF Messages, Id
  <2>2. sent.box = kept /\ sent.out = << >>
    BY <1>4 DEF Send
  <2> HIDE DEF n, sent, seen
  <2>3. Fresh(n, EventsIn(seen.store), out)
    BY <1>2, <2>1 DEF Fresh
  <2>4. /\ Fits(kept, out, last)
        /\ EventsIn(kept.store)
             \subseteq EventsIn(seen.store) \cup (IF n.kind = "event" THEN {Id(n)} ELSE {})
    BY <1>1, <2>1, <2>3, KeepFits
  <2>5. EventsIn(sent.out) = {} /\ Newest(sent.out, last) = last
    BY <2>2, Nothing
  <2> HIDE DEF kept
  <2>6. EventsIn(kept.store) \subseteq EventsIn(box.store) \cup new
    BY <1>1, <2>1, <2>4
  <2>7. out \cup EventsIn(sent.out) = out
    BY <2>5
  <2> QED
    BY <2>2, <2>4, <2>5, <2>6, <2>7 DEF sent
<1>5. CASE ~seen.offline /\ seen.replaying
  <2> DEFINE kept == Keep(seen, m)
  <2>2. sent.box = kept /\ sent.out = << >>
    BY <1>5 DEF Send
  <2> HIDE DEF sent, seen
  <2>4. /\ Fits(kept, out, last)
        /\ EventsIn(kept.store)
             \subseteq EventsIn(seen.store) \cup (IF m.kind = "event" THEN {Id(m)} ELSE {})
    BY <1>1, <1>2, <1>5, KeepFits
  <2>5. EventsIn(sent.out) = {} /\ Newest(sent.out, last) = last
    BY <2>2, Nothing
  <2> HIDE DEF kept
  <2>6. EventsIn(kept.store) \subseteq EventsIn(box.store) \cup new
    BY <1>1, <2>4
  <2>7. out \cup EventsIn(sent.out) = out
    BY <2>5
  <2> QED
    BY <2>2, <2>4, <2>5, <2>6, <2>7 DEF sent
<1>6. CASE ~seen.offline /\ ~seen.replaying
  <2>1. sent.box = seen /\ sent.out = IF ok THEN <<m>> ELSE << >>
    BY <1>6 DEF Send
  <2> HIDE DEF sent, seen
  <2>2. CASE ~ok
    <3>1. EventsIn(sent.out) = {} /\ Newest(sent.out, last) = last
      BY <2>1, <2>2, Nothing
    <3>2. out \cup EventsIn(sent.out) = out
      BY <3>1
    <3> QED
      BY <1>1, <2>1, <3>1, <3>2 DEF sent
  <2>3. CASE ok
    <3> DEFINE after == IF m.retain THEN m ELSE last
    <3>1. EventsIn(sent.out) = new /\ Newest(sent.out, last) = after
      BY <1>2, <2>1, <2>3, One
    <3>2. new \subseteq Emitted \ (out \cup EventsIn(seen.store))
      BY <1>2 DEF Fresh
    <3>3. after \in Messages \cup {None} /\ (m.retain => Passed(m))
      BY <1>1, <1>2 DEF Fits, Fresh, Passed, Messages
    <3>4. after # None => Passed(after) /\ Follows(seen.store, after)
      BY <1>1, <1>6, <3>3 DEF Fits, Follows
    <3> HIDE DEF new, after
    <3>5. Fits(seen, out \cup new, after)
      BY <1>1, <3>2, <3>3, <3>4 DEF Fits
    <3> QED
      BY <1>1, <2>1, <3>1, <3>5 DEF sent, new
  <2> QED
    BY <2>2, <2>3
<1> QED
  BY <1>4, <1>5, <1>6

LEMMA ReplayFits ==
  ASSUME NEW box, NEW out, NEW last, Fits(box, out, last), NEW b \in Boxes,
         NEW n \in 0..Len(box.store), NEW k \in {n, n + 1}, k <= Len(box.store),
         b.store = SubSeq(box.store, k + 1, Len(box.store)),
         ~b.replaying => b.store = << >>
  PROVE  LET front == SubSeq(box.store, 1, n)
         IN  /\ Fits(b, out \cup EventsIn(front), Newest(front, last))
             /\ EventsIn(b.store) \cup EventsIn(front) \subseteq EventsIn(box.store)
<1> DEFINE t == box.store
           s == b.store
           front == SubSeq(t, 1, n)
<1>1. t \in Seq(Messages) /\ Len(t) \in Nat /\ DOMAIN t = 1..Len(t) /\ box \in Boxes
  BY DEF Fits, Boxes
<1>2. k \in 0..Len(t) /\ n \in Nat /\ n <= k /\ n <= Len(t) /\ k \in Nat
  BY <1>1
<1>3. /\ s \in Seq(Messages) /\ Part(s, t) /\ Len(s) = Len(t) - k
      /\ \A i \in DOMAIN s : s[i] = t[i + k]
  BY <1>1, <1>2, Parts
<1>4. /\ front \in Seq(Messages) /\ DOMAIN front = 1..n
      /\ \A i \in 1..n : front[i] = t[i]
  <2>1. \A i \in 1..n : t[i] \in Messages
    BY <1>1, <1>2
  <2>2. /\ front \in Seq(Messages) /\ Len(front) = IF 1 <= n THEN n - 1 + 1 ELSE 0
        /\ \A i \in 1..(n - 1 + 1) : front[i] = t[1 + i - 1]
    BY <1>2, <2>1, SubSeqProperties
  <2> HIDE DEF front
  <2>3. n - 1 + 1 = n /\ Len(front) = n
    BY <1>2, <2>2
  <2>4. DOMAIN front = 1..n
    BY <2>2, <2>3
  <2>5. \A i \in 1..n : front[i] = t[i]
    BY <1>2, <2>2, <2>3
  <2> QED
    BY <2>2, <2>4, <2>5
<1>5. b.store = << >> \/ ~box.replaying \/ b.replaying
  OBVIOUS
<1>6. Fits(b, out, last) /\ EventsIn(s) \subseteq EventsIn(t)
  <2>1. ~b.replaying => b.store = << >> \/ ~box.replaying
    OBVIOUS
  <2>2. Part(b.store, box.store)
    BY <1>3
  <2> QED
    BY <1>1, <2>1, <2>2, PartFits
<1> HIDE DEF s, t, front
<1>7. EventsIn(front) \subseteq EventsIn(t)
  <2> SUFFICES ASSUME NEW e \in EventsIn(front) PROVE e \in EventsIn(t)
    OBVIOUS
  <2>1. PICK i \in DOMAIN front : front[i].kind = "event" /\ e = Id(front[i])
    BY EventsInIs
  <2>2. i \in DOMAIN t /\ t[i] = front[i]
    BY <1>1, <1>2, <1>4
  <2> QED
    BY <2>1, <2>2, EventsInIs
<1>8. EventsIn(s) \cap EventsIn(front) = {}
  <2> SUFFICES ASSUME NEW e, e \in EventsIn(s), e \in EventsIn(front) PROVE FALSE
    OBVIOUS
  <2>1. PICK i \in DOMAIN front : front[i].kind = "event" /\ e = Id(front[i])
    BY EventsInIs
  <2>2. PICK j \in DOMAIN s : s[j].kind = "event" /\ e = Id(s[j])
    BY EventsInIs
  <2>3. i \in DOMAIN t /\ t[i] = front[i] /\ j + k \in DOMAIN t /\ s[j] = t[j + k]
    BY <1>1, <1>2, <1>3, <1>4
  <2>4. i # j + k
    BY <1>1, <1>2, <1>3, <1>4
  <2>5. Distinct(t)
    BY DEF Fits, t
  <2> QED
    BY <2>1, <2>2, <2>3, <2>4, <2>5 DEF Distinct
<1> DEFINE after == Newest(front, last)
<1>9. /\ after \in Messages \cup {None}
      /\ after # None => Passed(after) /\ Follows(s, after)
  <2>1. CASE after = last
    BY <1>6, <2>1 DEF Fits, s
  <2>2. CASE \E i \in DOMAIN front : after = front[i] /\ front[i].retain
    <3>1. PICK i \in DOMAIN front : after = front[i] /\ front[i].retain
      BY <2>2
    <3>2. i \in DOMAIN t /\ after = t[i] /\ t[i].retain /\ t[i] \in Messages
      BY <1>1, <1>2, <1>4, <3>1
    <3>3. Passed(t[i]) /\ Sorted(t)
      BY <3>2 DEF Fits, t
    <3>4. Follows(s, t[i])
      <4> SUFFICES ASSUME NEW j \in DOMAIN s, s[j].retain PROVE Later(s[j], t[i])
        BY DEF Follows
      <4>1. j + k \in DOMAIN t /\ s[j] = t[j + k] /\ i < j + k
        BY <1>1, <1>2, <1>3, <1>4
      <4> QED
        BY <3>2, <3>3, <4>1 DEF Sorted
    <3> QED
      BY <3>2, <3>3, <3>4
  <2> QED
    BY <1>4, <2>1, <2>2, NewestIs
<1> HIDE DEF after
<1>10. Fits(b, out \cup EventsIn(front), after)
  <2>1. out \cup EventsIn(front) \in SUBSET Emitted
    BY <1>7 DEF Fits, t
  <2>2. EventsIn(s) \subseteq Emitted \ (out \cup EventsIn(front))
    BY <1>6, <1>8 DEF Fits, s
  <2> QED
    BY <1>6, <1>9, <2>1, <2>2 DEF Fits, s
<1> QED
  BY <1>6, <1>7, <1>10 DEF after, front, s, t

-----------------------------------------------------------------------------
(* The invariant, action by action.                                        *)

LEMMA StoriesAre ==
  ASSUME NEW i \in 1..Len(Stories)
  PROVE  Stories[i].start \in Int /\ Len(Stories) \in Nat
<1> DEFINE S == [start : Int, dropouts : SUBSET (Nat \X Nat), bursts : SUBSET Bursts]
<1>1. Stories \in Seq(S)
  BY MqttAssumption, Zenon
<1> HIDE DEF S
<1>2. Stories[i] \in S /\ Len(Stories) \in Nat
  BY <1>1
<1> QED
  BY <1>2 DEF S

LEMMA Running ==
  ASSUME Types
  PROVE  run \in Nat /\ tick \in Nat /\ count \in Nat /\ Now \in Int
<1>1. story.start \in Int
  BY StoriesAre DEF Types, story
<1> QED
  BY <1>1 DEF Types, Now

LEMMA InitKeeps == MqttInit => IInv
<1> SUFFICES ASSUME MqttInit PROVE IInv
  OBVIOUS
<1>1. Stories # << >> /\ Stories \in Seq([start : Int, dropouts : SUBSET (Nat \X Nat), bursts : SUBSET Bursts])
  BY MqttAssumption
<1>2. 1 \in 1..Len(Stories)
  BY <1>1
<1>3. << >> \in Seq(Messages) /\ DOMAIN << >> = {} /\ Len(<< >>) = 0
  OBVIOUS
<1>4. Types
  <2>1. run \in 1..Len(Stories) /\ batches \in Seq(Messages)
    BY <1>2, <1>3 DEF MqttInit
  <2>2. publishedOn \in 0..connections /\ connections \in Nat
    BY DEF MqttInit
  <2> QED
    BY <2>1, <2>2 DEF MqttInit, Types
<1>5. EventsIn(<< >>) = {}
  BY Nothing
<1>6. STORE \in Nat \ {0} /\ EVENT_BACKLOG \in Nat \ {0}
  BY MqttAssumption, SurfacesAssumption
<1>7. outbox \in Boxes /\ outbox.store = << >>
  BY <1>3 DEF MqttInit, Boxes
<1>8. Fits(outbox, delivered, retained)
  BY <1>3, <1>5, <1>6, <1>7 DEF MqttInit, Fits, Distinct, Sorted
<1>9. Channel
  BY <1>3, <1>5, <1>6, <1>7 DEF MqttInit, Channel, Distinct
<1> QED
  BY <1>4, <1>8, <1>9 DEF IInv

(* The plant goes on: what is known of the outbox and the broker stays.    *)
LEMMA FitsGrows ==
  ASSUME Fits(outbox, delivered, retained), UNCHANGED <<outbox, delivered>>,
         retained' \in {retained, None},
         Emitted \subseteq Emitted', \A m \in Messages : Passed(m) => Passed(m)'
  PROVE  Fits(outbox, delivered, retained)'
<1> DEFINE s == outbox.store
<1>1. s \in Seq(Messages) /\ \A i \in DOMAIN s : s[i] \in Messages
  BY DEF Fits, Boxes
<1>2. \A i \in DOMAIN s : s[i].retain => s[i].kind = "word" /\ Passed(s[i])'
  BY <1>1 DEF Fits
<1>3. retained' # None => Passed(retained)' /\ Follows(s, retained')
  <2>1. CASE retained' = None
    BY <2>1
  <2>2. CASE retained' # None
    <3>1. retained' = retained /\ retained \in Messages /\ Passed(retained) /\ Follows(s, retained)
      BY <2>2 DEF Fits
    <3>2. Passed(retained)'
      BY <3>1 DEF Passed
    <3> QED
      BY <3>1, <3>2
  <2> QED
    BY <2>1, <2>2
<1>4. s' = s
  OBVIOUS
<1>5. /\ outbox \in Boxes /\ Len(s) <= STORE
      /\ delivered \in SUBSET Emitted' /\ retained' \in Messages \cup {None}
      /\ Distinct(s) /\ EventsIn(s) \subseteq Emitted' \ delivered
      /\ ~outbox.replaying => \A i \in DOMAIN s : ~s[i].retain
      /\ Sorted(s)
  BY DEF Fits
<1> QED
  BY <1>2, <1>3, <1>5 DEF Fits, Passed, Follows

LEMMA LoadScenarioKeeps == IInv /\ LoadScenario => IInv'
<1> SUFFICES ASSUME IInv, LoadScenario PROVE IInv'
  OBVIOUS
<1>1. run \in 1..Len(Stories) /\ run < Len(Stories) /\ run' = run + 1 /\ count' = 0 /\ tick' = 0
  BY DEF IInv, Types, LoadScenario
<1>2. Len(Stories) \in Nat /\ run \in Nat /\ run' \in 1..Len(Stories)
  BY <1>1, StoriesAre
<1>3. Types'
  BY <1>1, <1>2 DEF IInv, Types, LoadScenario
<1>4. count \in Nat /\ Emitted \subseteq Emitted'
  BY <1>1, <1>2 DEF IInv, Types, Emitted
<1>5. \A m \in Messages : Passed(m) => Passed(m)'
  BY <1>1, <1>2 DEF Passed, Messages
<1>6. Fits(outbox, delivered, retained)'
  <2>1. Fits(outbox, delivered, retained) /\ UNCHANGED <<outbox, delivered>> /\ retained' = retained
    BY DEF IInv, LoadScenario
  <2> QED
    BY <1>4, <1>5, <2>1, FitsGrows
<1>7. Channel'
  BY <1>4 DEF IInv, Channel, LoadScenario
<1> QED
  BY <1>3, <1>6, <1>7 DEF IInv

LEMMA ReconnectKeeps == IInv /\ Reconnect => IInv'
<1> SUFFICES ASSUME IInv, Reconnect PROVE IInv'
  OBVIOUS
<1>1. Types'
  <2>1. connections \in Nat /\ connections' = connections + 1 /\ publishedOn \in 0..connections
    BY DEF IInv, Types, Reconnect
  <2>2. publishedOn' \in 0..connections' /\ connections' \in Nat
    BY <2>1 DEF Reconnect
  <2> QED
    BY <2>2 DEF IInv, Types, Reconnect, feed
<1>2. Emitted' = Emitted /\ \A m \in Messages : Passed(m) => Passed(m)'
  BY DEF Emitted, Passed, Reconnect, feed
<1>3. Fits(outbox, delivered, retained)'
  <2>1. Fits(outbox, delivered, retained) /\ UNCHANGED <<outbox, delivered>> /\ retained' = None
    BY DEF IInv, Reconnect
  <2> QED
    BY <1>2, <2>1, FitsGrows
<1>4. Channel'
  BY <1>2 DEF IInv, Channel, Reconnect, feed
<1> QED
  BY <1>1, <1>3, <1>4 DEF IInv

(* An event more in the channel, the oldest one gone if it was full.       *)
LEMMA TickKeeps == IInv /\ Tick => IInv'
<1> SUFFICES ASSUME IInv, Tick PROVE IInv'
  OBVIOUS
<1>1. /\ run \in Nat /\ tick \in Nat /\ count \in Nat /\ word \in {0, 1}
      /\ batches \in Seq(Messages) /\ Len(batches) \in Nat /\ lagged \in BOOLEAN
      /\ EVENT_BACKLOG \in Nat \ {0} /\ Len(batches) <= EVENT_BACKLOG
  BY Running, SurfacesAssumption DEF IInv, Types, Channel
<1>2. /\ tick' = tick + 1 /\ run' = run
      /\ UNCHANGED <<pc, lastPub, lastWord, connections, publishedOn, outbox, refusals,
                     delivered, retained>>
  BY DEF Tick
<1>3. \A m \in Messages : Passed(m) => Passed(m)'
  BY <1>1, <1>2 DEF Passed, Messages
<1>4. CASE UNCHANGED <<word, count, batches, lagged>>
  <2>1. Types'
    BY <1>1, <1>2, <1>4 DEF IInv, Types
  <2>2. Emitted' = Emitted
    BY <1>2, <1>4 DEF Emitted
  <2>3. Fits(outbox, delivered, retained)'
    BY <1>2, <1>3, <2>2, FitsGrows DEF IInv
  <2>4. Channel'
    BY <1>2, <1>4, <2>2 DEF IInv, Channel
  <2> QED
    BY <2>1, <2>3, <2>4 DEF IInv
<1>5. CASE ~UNCHANGED <<word, count, batches, lagged>>
  <2> DEFINE m == [Message("event", count', FALSE) EXCEPT !.born = tick']
             sent == Append(batches, m)
  <2>1. /\ word' = 1 - word /\ count' = count + 1
        /\ batches' = IF Len(sent) > EVENT_BACKLOG THEN Tail(sent) ELSE sent
        /\ lagged' = (lagged \/ Len(sent) > EVENT_BACKLOG)
    BY <1>5 DEF Tick
  <2>2. /\ m \in Messages /\ m.kind = "event" /\ ~m.retain
        /\ Id(m) = <<run, count + 1>>
    <3>1. m = [kind |-> "event", value |-> count + 1, run |-> run, born |-> tick + 1,
               retain |-> FALSE]
      <4> DEFINE r == [kind |-> "event", value |-> count', run |-> run, born |-> tick,
                       retain |-> FALSE]
      <4>1. Message("event", count', FALSE) = r
        BY Zenon DEF Message
      <4>2. m = [r EXCEPT !.born = tick']
        BY <4>1, Zenon
      <4>3. m = [kind |-> "event", value |-> count', run |-> run, born |-> tick',
                 retain |-> FALSE]
        <5> HIDE DEF m
        <5> QED
          BY <4>2
      <4> QED
        BY <1>2, <2>1, <4>3, Zenon
    <3>2. count + 1 \in Nat /\ tick + 1 \in Nat
      BY <1>1
    <3> HIDE DEF m
    <3> QED
      BY <1>1, <3>1, <3>2 DEF Messages, Id
  <2> HIDE DEF m
  <2>3. /\ sent \in Seq(Messages) /\ DOMAIN sent = DOMAIN batches \cup {Len(batches) + 1}
        /\ sent[Len(batches) + 1] = m /\ \A i \in DOMAIN batches : sent[i] = batches[i]
        /\ EventsIn(sent) = EventsIn(batches) \cup {Id(m)}
        /\ Distinct(batches) /\ Id(m) \notin EventsIn(batches) => Distinct(sent)
    BY <1>1, <2>2, AppendKeeps
  <2>4. Len(sent) = Len(batches) + 1
    BY <1>1, <2>2
  <2> HIDE DEF sent
  <2>5. Id(m) \notin Emitted /\ Emitted' = Emitted' /\ Emitted \subseteq Emitted' /\ Id(m) \in Emitted'
    BY <1>1, <1>2, <2>1, <2>2 DEF Emitted
  <2>6. /\ EventsIn(batches) \subseteq Emitted /\ EventsIn(outbox.store) \subseteq Emitted
        /\ delivered \subseteq Emitted /\ Distinct(batches)
        /\ EventsIn(batches) \cap (EventsIn(outbox.store) \cup delivered) = {}
        /\ \A i \in DOMAIN batches : batches[i].kind = "event" /\ ~batches[i].retain
    BY DEF IInv, Channel, Fits
  <2>7. /\ Distinct(sent) /\ EventsIn(sent) \subseteq Emitted' \ (EventsIn(outbox.store) \cup delivered)
        /\ \A i \in DOMAIN sent : sent[i].kind = "event" /\ ~sent[i].retain
    BY <2>2, <2>3, <2>5, <2>6
  <2>8. /\ batches' \in Seq(Messages) /\ Part(batches', sent) /\ Len(batches') <= EVENT_BACKLOG
    <3>1. CASE Len(sent) > EVENT_BACKLOG
      <4>1. sent # << >> /\ batches' = Tail(sent)
        BY <1>1, <2>1, <2>3, <2>4, <3>1
      <4>2. Tail(sent) \in Seq(Messages) /\ Part(Tail(sent), sent) /\ Len(Tail(sent)) = Len(sent) - 1
        BY <2>3, <4>1, Parts, HeadTailProperties
      <4> QED
        BY <1>1, <2>4, <4>1, <4>2
    <3>2. CASE ~(Len(sent) > EVENT_BACKLOG)
      BY <1>1, <2>1, <2>3, <2>4, <3>2, Parts
    <3> QED
      BY <3>1, <3>2
  <2>9. /\ \A i \in DOMAIN batches' : \E j \in DOMAIN sent : batches'[i] = sent[j]
        /\ EventsIn(batches') \subseteq EventsIn(sent)
        /\ Distinct(sent) => Distinct(batches')
    BY <2>3, <2>8, PartKeeps
  <2>10. EventsIn(batches)' = EventsIn(batches') /\ Distinct(batches)' = Distinct(batches')
    BY DEF EventsIn, Distinct, Id
  <2>11. Channel'
    <3>1. /\ \A i \in DOMAIN batches' : batches'[i].kind = "event" /\ ~batches'[i].retain
          /\ Distinct(batches')
          /\ EventsIn(batches') \subseteq Emitted' \ (EventsIn(outbox'.store) \cup delivered')
      BY <1>2, <2>7, <2>9
    <3> QED
      BY <2>8, <3>1 DEF Channel
  <2>12. Fits(outbox, delivered, retained)'
    BY <1>2, <1>3, <2>5, FitsGrows DEF IInv
  <2>13. Types'
    <3>1. word' \in {0, 1} /\ count' \in Nat /\ lagged' \in BOOLEAN /\ tick' \in Nat
      BY <1>1, <1>2, <2>1
    <3> QED
      BY <1>2, <2>8, <3>1 DEF IInv, Types
  <2> QED
    BY <2>11, <2>12, <2>13 DEF IInv
<1> QED
  BY <1>4, <1>5

(* A step of the publisher: the plant stands still.                        *)
LEMMA PublisherStep ==
  ASSUME IInv, UNCHANGED <<run, tick, count, batches>>, Types',
         Fits(outbox', delivered', retained'),
         EventsIn(outbox'.store) \cup delivered' \subseteq EventsIn(outbox.store) \cup delivered
  PROVE  IInv'
<1>1. Emitted' = Emitted
  BY DEF Emitted
<1>2. Fits(outbox, delivered, retained)'
  BY <1>1 DEF Fits, Passed
<1>3. Channel'
  BY <1>1 DEF IInv, Channel
<1> QED
  BY <1>2, <1>3 DEF IInv

LEMMA TakeFits ==
  ASSUME IInv, NEW box, Fits(box, delivered, retained),
         EventsIn(box.store) \subseteq EventsIn(outbox.store),
         NEW m, Fresh(m, EventsIn(box.store), delivered), NEW ok \in BOOLEAN,
         Take(Send(box, m, ok))
  PROVE  /\ Fits(outbox', delivered', retained') /\ refusals' \in Nat
         /\ EventsIn(outbox'.store) \cup delivered'
              \subseteq EventsIn(outbox.store) \cup delivered
                        \cup (IF m.kind = "event" THEN {Id(m)} ELSE {})
<1> DEFINE sent == Send(box, m, ok)
           new == IF m.kind = "event" THEN {Id(m)} ELSE {}
<1>1. run \in Nat /\ tick \in Nat
  BY Running DEF IInv
<1>2. /\ Fits(sent.box, delivered \cup EventsIn(sent.out), Newest(sent.out, retained))
      /\ EventsIn(sent.box.store) \cup EventsIn(sent.out) \subseteq EventsIn(box.store) \cup new
  BY <1>1, SendFits
<1> HIDE DEF sent, new
<1>3. /\ outbox' = sent.box /\ delivered' = delivered \cup EventsIn(sent.out)
      /\ retained' = Newest(sent.out, retained)
      /\ IF sent.ok THEN UNCHANGED refusals ELSE Refuse("live")
  BY DEF Take, Receive, sent
<1>4. refusals' \in Nat
  BY <1>3 DEF Refuse, IInv, Types
<1>5. EventsIn(outbox'.store) \cup delivered'
        \subseteq EventsIn(outbox.store) \cup delivered \cup new
  BY <1>2, <1>3
<1> QED
  BY <1>2, <1>3, <1>4, <1>5 DEF new

(* A message that is no event.                                             *)
LEMMA MessageIsFresh ==
  ASSUME Types, NEW kind \in {"point", "word"}, NEW value \in Nat, NEW retain \in BOOLEAN,
         retain => kind = "word", NEW held, NEW out
  PROVE  Fresh(Message(kind, value, retain), held, out) /\ Message(kind, value, retain).kind # "event"
<1> DEFINE m == Message(kind, value, retain)
<1>1. m = [kind |-> kind, value |-> value, run |-> run, born |-> tick, retain |-> retain]
  BY DEF Message
<1> HIDE DEF m
<1>2. run \in Nat /\ tick \in Nat
  BY Running
<1>3. /\ m \in Messages /\ m.kind = kind /\ m.retain = retain /\ m.run = run /\ m.born = tick
      /\ m.kind # "event"
  BY <1>1, <1>2 DEF Messages
<1>4. Fresh(m, held, out)
  BY <1>3 DEF Fresh
<1> QED
  BY <1>3, <1>4 DEF m

LEMMA CadenceKeeps == IInv /\ PublishCadence => IInv'
<1> SUFFICES ASSUME IInv, PublishCadence PROVE IInv'
  OBVIOUS
<1>1. /\ UNCHANGED <<run, tick, word, count, batches, lagged, lastWord, connections,
                     publishedOn, begun>>
      /\ pc' = "changed"
  BY DEF PublishCadence, feed
<1>2. Types /\ Fits(outbox, delivered, retained)
  BY DEF IInv
<1>3. CASE Due
  <2>1. PICK ok \in BOOLEAN : Take(Send(outbox, Message("point", 0, FALSE), ok))
    BY <1>3 DEF PublishCadence
  <2> DEFINE m == Message("point", 0, FALSE)
  <2>2. Fresh(m, EventsIn(outbox.store), delivered) /\ m.kind # "event"
    BY <1>2, MessageIsFresh
  <2> HIDE DEF m
  <2>3. /\ Fits(outbox', delivered', retained') /\ refusals' \in Nat
        /\ EventsIn(outbox'.store) \cup delivered'
             \subseteq EventsIn(outbox.store) \cup delivered
                       \cup (IF m.kind = "event" THEN {Id(m)} ELSE {})
    <3>1. Take(Send(outbox, m, ok))
      BY <2>1 DEF m
    <3> QED
      BY <1>2, <2>2, <3>1, TakeFits
  <2>4. lastPub' = Now /\ Now \in Int
    BY <1>2, <1>3, Running DEF PublishCadence
  <2>5. Types'
    BY <1>1, <1>2, <2>3, <2>4 DEF Types
  <2> QED
    BY <1>1, <2>2, <2>3, <2>5, PublisherStep
<1>4. CASE ~Due
  <2>1. UNCHANGED <<outbox, refusals, lastPub>> /\ Receive(<< >>)
    BY <1>4 DEF PublishCadence
  <2>2. delivered' = delivered /\ retained' = retained
    BY <2>1, Nothing DEF Receive
  <2>3. Types'
    BY <1>1, <1>2, <2>1 DEF Types
  <2> QED
    BY <1>1, <1>2, <2>1, <2>2, <2>3, PublisherStep
<1> QED
  BY <1>3, <1>4

LEMMA ChangedKeeps == IInv /\ PublishChanged => IInv'
<1> SUFFICES ASSUME IInv, PublishChanged PROVE IInv'
  OBVIOUS
<1> DEFINE seen == Observe(outbox)
           box == [seen EXCEPT !.returned = FALSE]
           known == IF Forget(seen) THEN None ELSE lastWord
<1>1. /\ UNCHANGED <<run, tick, word, count, batches, lagged, lastPub, connections, begun>>
      /\ pc' = "idle" /\ publishedOn' = connections
  BY DEF PublishChanged, feed
<1>2. Types /\ Fits(outbox, delivered, retained)
  BY DEF IInv
<1>3. Fits(seen, delivered, retained) /\ EventsIn(seen.store) \subseteq EventsIn(outbox.store)
  BY <1>2, ObserveFits
<1>4. /\ \/ /\ known = word
            /\ outbox' = box /\ lastWord' = known
            /\ Receive(<< >>) /\ UNCHANGED refusals
         \/ \E ok \in BOOLEAN :
              LET sent == Send(box, Message("word", word, TRUE), ok)
              IN  Take(sent) /\ lastWord' = Record(sent, known)
  BY DEF PublishChanged
<1>5. known \in {0, 1, None}
  BY <1>2 DEF Types
<1> HIDE DEF seen, known
<1>6. Fits(box, delivered, retained) /\ box.store = seen.store
  BY <1>3 DEF Fits, Boxes
<1> HIDE DEF box
<1>7. publishedOn' \in 0..connections' /\ connections' \in Nat
  BY <1>1, <1>2 DEF Types
<1>8. CASE /\ outbox' = box /\ lastWord' = known
           /\ Receive(<< >>) /\ UNCHANGED refusals
  <2>1. delivered' = delivered /\ retained' = retained
    BY <1>8, Nothing DEF Receive
  <2>2. Types'
    BY <1>1, <1>2, <1>5, <1>7, <1>8 DEF Types
  <2>3. Fits(outbox', delivered', retained')
        /\ EventsIn(outbox'.store) \subseteq EventsIn(outbox.store)
    BY <1>3, <1>6, <1>8, <2>1
  <2> QED
    BY <1>1, <2>1, <2>2, <2>3, PublisherStep
<1>9. CASE \E ok \in BOOLEAN :
             LET sent == Send(box, Message("word", word, TRUE), ok)
             IN  Take(sent) /\ lastWord' = Record(sent, known)
  <2>1. PICK ok \in BOOLEAN :
          /\ Take(Send(box, Message("word", word, TRUE), ok))
          /\ lastWord' = Record(Send(box, Message("word", word, TRUE), ok), known)
    BY <1>9
  <2> DEFINE m == Message("word", word, TRUE)
  <2>2. Fresh(m, EventsIn(box.store), delivered) /\ m.kind # "event"
    <3>1. word \in Nat
      BY <1>2 DEF Types
    <3> QED
      BY <1>2, <3>1, MessageIsFresh
  <2>3. lastWord' \in {0, 1, None}
    BY <1>2, <1>5, <2>1 DEF Record, Types
  <2> HIDE DEF m
  <2>4. Take(Send(box, m, ok)) /\ EventsIn(box.store) \subseteq EventsIn(outbox.store)
    BY <1>3, <1>6, <2>1 DEF m
  <2>5. /\ Fits(outbox', delivered', retained') /\ refusals' \in Nat
        /\ EventsIn(outbox'.store) \cup delivered'
             \subseteq EventsIn(outbox.store) \cup delivered
                       \cup (IF m.kind = "event" THEN {Id(m)} ELSE {})
    BY <1>6, <2>2, <2>4, TakeFits
  <2>6. Types'
    BY <1>1, <1>2, <1>7, <2>3, <2>5 DEF Types
  <2> QED
    BY <1>1, <2>2, <2>5, <2>6, PublisherStep
<1> QED
  BY <1>4, <1>8, <1>9

LEMMA FallBehindKeeps == IInv /\ FallBehind => IInv'
<1> SUFFICES ASSUME IInv, FallBehind PROVE IInv'
  OBVIOUS
<1>1. Types'
  BY DEF IInv, Types, FallBehind
<1>2. Fits(outbox', delivered', retained')
      /\ EventsIn(outbox'.store) \cup delivered' \subseteq EventsIn(outbox.store) \cup delivered
  BY DEF IInv, FallBehind
<1>3. UNCHANGED <<run, tick, count, batches>>
  BY DEF FallBehind
<1> QED
  BY <1>1, <1>2, <1>3, PublisherStep

(* The batch leaves the channel and goes the way of every message.         *)
LEMMA EventsKeep == IInv /\ PublishEvents => IInv'
<1> SUFFICES ASSUME IInv, PublishEvents PROVE IInv'
  OBVIOUS
<1>1. /\ UNCHANGED <<run, tick, word, count, lagged, lastPub, lastWord, connections,
                     publishedOn, begun>>
      /\ pc' = "changed" /\ batches # << >> /\ batches' = Tail(batches)
  BY DEF PublishEvents
<1>2. Types /\ Fits(outbox, delivered, retained) /\ Channel
  BY DEF IInv
<1> DEFINE m == Head(batches)
           rest == Tail(batches)
<1>3. PICK ok \in BOOLEAN : Take(Send(outbox, m, ok))
  BY DEF PublishEvents
<1>4. /\ batches \in Seq(Messages) /\ Len(batches) \in Nat /\ DOMAIN batches = 1..Len(batches)
      /\ 1 \in DOMAIN batches /\ m = batches[1] /\ m \in Messages
  BY <1>1, <1>2 DEF Types
<1>5. /\ rest \in Seq(Messages) /\ Part(rest, batches) /\ Len(rest) = Len(batches) - 1
      /\ \A i \in 1..Len(rest) : rest[i] = batches[i + 1]
  BY <1>1, <1>4, Parts, HeadTailProperties
<1> HIDE DEF m, rest
<1>6. /\ \A i \in DOMAIN rest : \E j \in DOMAIN batches : rest[i] = batches[j]
      /\ EventsIn(rest) \subseteq EventsIn(batches) /\ Len(rest) <= Len(batches)
      /\ Distinct(batches) => Distinct(rest)
  BY <1>4, <1>5, PartKeeps
<1>7. m.kind = "event" /\ ~m.retain /\ Id(m) \in EventsIn(batches)
  BY <1>2, <1>4, EventsInIs DEF Channel
<1>8. Id(m) \notin EventsIn(rest)
  <2> SUFFICES ASSUME Id(m) \in EventsIn(rest) PROVE FALSE
    OBVIOUS
  <2>1. PICK i \in DOMAIN rest : rest[i].kind = "event" /\ Id(m) = Id(rest[i])
    BY EventsInIs
  <2>2. i \in 1..Len(rest) /\ i + 1 \in DOMAIN batches /\ rest[i] = batches[i + 1] /\ i + 1 # 1
    BY <1>4, <1>5
  <2>3. Distinct(batches)
    BY <1>2 DEF Channel
  <2> QED
    BY <1>4, <1>7, <2>1, <2>2, <2>3 DEF Distinct
<1>9. Fresh(m, EventsIn(outbox.store), delivered)
  BY <1>2, <1>4, <1>7 DEF Fresh, Channel
<1>10. /\ Fits(outbox', delivered', retained') /\ refusals' \in Nat
       /\ EventsIn(outbox'.store) \cup delivered'
            \subseteq EventsIn(outbox.store) \cup delivered \cup {Id(m)}
  <2>1. /\ Fits(outbox', delivered', retained') /\ refusals' \in Nat
        /\ EventsIn(outbox'.store) \cup delivered'
             \subseteq EventsIn(outbox.store) \cup delivered
                       \cup (IF m.kind = "event" THEN {Id(m)} ELSE {})
    BY <1>2, <1>3, <1>9, TakeFits
  <2> QED
    BY <1>7, <2>1
<1>11. Emitted' = Emitted
  BY <1>1 DEF Emitted
<1>12. Fits(outbox, delivered, retained)'
  BY <1>1, <1>10, <1>11 DEF Fits, Passed
<1>13. batches' = rest
  BY <1>1 DEF rest
<1>14. Channel'
  <2>1. /\ Distinct(rest) /\ Len(rest) <= EVENT_BACKLOG
        /\ \A i \in DOMAIN rest : rest[i].kind = "event" /\ ~rest[i].retain
    <3>1. /\ \A i \in DOMAIN batches : batches[i].kind = "event" /\ ~batches[i].retain
          /\ Distinct(batches) /\ Len(batches) <= EVENT_BACKLOG
      BY <1>2 DEF Channel
    <3>2. EVENT_BACKLOG \in Nat /\ Len(rest) \in Nat
      BY <1>5, SurfacesAssumption
    <3> QED
      BY <1>4, <1>6, <3>1, <3>2
  <2>2. EventsIn(rest) \subseteq Emitted \ (EventsIn(outbox'.store) \cup delivered')
    BY <1>2, <1>6, <1>8, <1>10 DEF Channel
  <2> QED
    BY <1>11, <1>13, <2>1, <2>2 DEF Channel
<1>15. Types'
  BY <1>1, <1>2, <1>5, <1>10, <1>13 DEF Types
<1> QED
  BY <1>12, <1>14, <1>15 DEF IInv

(* The two ways a call of backfill ends.                                   *)
LEMMA ReplayCases ==
  ASSUME NEW box \in Boxes, box.replaying, Replay(box)
  PROVE  \E n \in 0..Len(box.store), k \in Nat :
           /\ k \in {n, n + 1} /\ k <= Len(box.store)
           /\ k # n => "replay" \in Refusals
           /\ Receive(SubSeq(box.store, 1, n))
           /\ outbox' \in Boxes /\ outbox'.store = SubSeq(box.store, k + 1, Len(box.store))
           /\ ~outbox'.replaying => outbox'.store = << >>
           /\ UNCHANGED refusals \/ refusals' = refusals + 1
           /\ outbox'.offline = box.offline /\ outbox'.returned = box.returned
           /\ outbox'.forgotten = box.forgotten
<1> DEFINE store == box.store
<1>1. store \in Seq(Messages) /\ Len(store) \in Nat
  BY DEF Boxes
<1>2. PICK n \in 0..BURST :
        LET drained == Len(store) < BURST /\ n = Len(store)
        IN  /\ n <= Len(store)
            /\ Receive(SubSeq(store, 1, n))
            /\ IF n = BURST \/ drained
               THEN /\ outbox' = [box EXCEPT !.store = SubSeq(store, n + 1, Len(store)),
                                             !.replaying = ~drained]
                    /\ UNCHANGED refusals
               ELSE /\ outbox' = [box EXCEPT !.store = SubSeq(store, n + 2, Len(store))]
                    /\ Refuse("replay")
  BY DEF Replay
<1>3. BURST \in Nat /\ n \in Nat /\ n <= BURST /\ n \in 0..Len(store)
  BY <1>1, <1>2, MqttAssumption
<1> DEFINE drained == Len(store) < BURST /\ n = Len(store)
<1>4. CASE n = BURST \/ drained
  <2> DEFINE s == SubSeq(store, n + 1, Len(store))
  <2>1. s \in Seq(Messages) /\ Len(s) = Len(store) - n
    BY <1>1, <1>3, Parts
  <2>2. outbox' = [box EXCEPT !.store = s, !.replaying = ~drained] /\ UNCHANGED refusals
    BY <1>2, <1>4
  <2>3. drained => s = << >>
    BY <1>1, <2>1
  <2> HIDE DEF s
  <2>4. /\ outbox' \in Boxes /\ outbox'.store = s /\ (~outbox'.replaying => drained)
        /\ outbox'.offline = box.offline /\ outbox'.returned = box.returned
        /\ outbox'.forgotten = box.forgotten
    BY <2>1, <2>2 DEF Boxes
  <2> QED
    BY <1>1, <1>2, <1>3, <2>2, <2>3, <2>4 DEF s
<1>5. CASE ~(n = BURST \/ drained)
  <2> DEFINE s == SubSeq(store, (n + 1) + 1, Len(store))
  <2>1. n + 1 \in 0..Len(store) /\ n + 2 = (n + 1) + 1 /\ n + 1 \in Nat /\ n + 1 # n
    BY <1>1, <1>2, <1>3, <1>5
  <2>2. s \in Seq(Messages)
    BY <1>1, <2>1, Parts
  <2>3. /\ outbox' = [box EXCEPT !.store = s] /\ refusals' = refusals + 1
        /\ "replay" \in Refusals
    BY <1>2, <1>5, <2>1 DEF Refuse
  <2> HIDE DEF s
  <2>4. /\ outbox' \in Boxes /\ outbox'.store = s /\ outbox'.replaying
        /\ outbox'.offline = box.offline /\ outbox'.returned = box.returned
        /\ outbox'.forgotten = box.forgotten
    BY <2>2, <2>3 DEF Boxes
  <2>5. n + 1 <= Len(store) /\ n + 1 \in {n, n + 1}
    BY <1>1, <2>1
  <2> QED
    BY <1>2, <1>3, <2>1, <2>3, <2>4, <2>5 DEF s
<1> QED
  BY <1>4, <1>5

LEMMA FirstBurst ==
  ASSUME NEW due \in SUBSET Bursts, due # {}
  PROVE  (CHOOSE b \in due : \A c \in due : b.index <= c.index) \in Bursts
<1> DEFINE D == {b.index : b \in due}
           R == {ss \in Nat \X Nat : ss[1] < ss[2]}
<1>1. D \subseteq Nat /\ D # {}
  BY DEF Bursts
<1>2. PICK x \in D : \A y \in D : ~ (<<y, x>> \in R)
  <2>1. IsWellFoundedOn(R, Nat)
    BY LessIsWellFounded
  <2> HIDE DEF R, D
  <2> QED
    BY <1>1, <2>1, WFMin
<1>3. PICK b \in due : x = b.index
  BY <1>2
<1>4. \A c \in due : b.index <= c.index
  <2> TAKE c \in due
  <2>1. c.index \in D /\ c.index \in Nat /\ x \in Nat
    BY <1>1, <1>2
  <2>2. ~ (<<c.index, x>> \in R)
    BY <1>2, <2>1
  <2> QED
    BY <1>3, <2>1, <2>2
<1>5. \E e \in due : \A c \in due : e.index <= c.index
  BY <1>4
<1>6. (CHOOSE e \in due : \A c \in due : e.index <= c.index) \in due
  BY <1>5, Zenon
<1> QED
  BY <1>6

LEMMA BurstsAre == Types => BackfillsDue \subseteq Bursts
<1> SUFFICES ASSUME Types PROVE BackfillsDue \subseteq Bursts
  OBVIOUS
<1> DEFINE S == [start : Int, dropouts : SUBSET (Nat \X Nat), bursts : SUBSET Bursts]
<1>1. Stories \in Seq(S) /\ run \in 1..Len(Stories)
  BY MqttAssumption, Zenon DEF Types
<1> HIDE DEF S
<1>2. story \in S
  BY <1>1 DEF story
<1> QED
  BY <1>2 DEF S, BackfillsDue

(* What backfill does: nothing, or one call of a replay.                   *)
LEMMA BackfillCases ==
  ASSUME IInv, Backfill
  PROVE  \/ /\ outbox' = Observe(outbox)
            /\ delivered' = delivered /\ retained' = retained /\ refusals' = refusals
         \/ \E box \in Boxes :
              /\ box.replaying /\ Replay(box) /\ ~Observe(outbox).offline
              /\ box.store = Observe(outbox).store /\ ~box.offline
              /\ box.returned = Observe(outbox).returned
              /\ box.forgotten = Observe(outbox).forgotten
<1> DEFINE seen == Observe(outbox)
           due == {b \in BackfillsDue : b.index \notin seen.replayed}
           burst == CHOOSE b \in due : \A c \in due : b.index <= c.index
           box == [seen EXCEPT !.replayed = @ \cup {burst.index}, !.replaying = TRUE]
<1>1. seen \in Boxes
  <2>1. outbox \in Boxes
    BY DEF IInv, Fits
  <2> QED
    BY <2>1, ObserveFacts
<1>2. due \subseteq Bursts
  BY BurstsAre DEF IInv
<1>3. CASE seen.offline \/ (~seen.replaying /\ due = {})
  <2>1. outbox' = seen /\ Receive(<< >>) /\ UNCHANGED refusals
    BY <1>3 DEF Backfill
  <2>2. delivered' = delivered /\ retained' = retained
    BY <2>1, Nothing DEF Receive
  <2> QED
    BY <2>1, <2>2
<1>4. CASE ~seen.offline /\ seen.replaying
  <2>1. Replay(seen)
    BY <1>4 DEF Backfill
  <2> QED
    BY <1>1, <1>4, <2>1
<1>5. CASE ~seen.offline /\ ~seen.replaying /\ due # {}
  <2>1. Replay(box)
    BY <1>5 DEF Backfill
  <2>2. burst \in Bursts
    <3> HIDE DEF due
    <3> QED
      BY <1>2, <1>5, FirstBurst
  <2> HIDE DEF burst, seen
  <2>3. /\ box \in Boxes /\ box.replaying /\ box.store = seen.store /\ box.offline = seen.offline
        /\ box.returned = seen.returned /\ box.forgotten = seen.forgotten
    BY <1>1, <2>2 DEF Boxes, Bursts
  <2> QED
    BY <1>5, <2>1, <2>3 DEF seen
<1> QED
  BY <1>3, <1>4, <1>5

LEMMA BackfillKeeps == IInv /\ Backfill => IInv'
<1> SUFFICES ASSUME IInv, Backfill PROVE IInv'
  OBVIOUS
<1>1. /\ UNCHANGED <<run, tick, word, count, batches, lagged, lastPub, lastWord, connections,
                     publishedOn>>
      /\ pc' = "cadence"
  BY DEF Backfill, feed
<1>2. Types /\ Fits(outbox, delivered, retained)
  BY DEF IInv
<1> DEFINE seen == Observe(outbox)
<1>3. Fits(seen, delivered, retained) /\ EventsIn(seen.store) \subseteq EventsIn(outbox.store)
  BY <1>2, ObserveFits
<1>4. CASE /\ outbox' = seen
           /\ delivered' = delivered /\ retained' = retained /\ refusals' = refusals
  <2>1. Types'
    BY <1>1, <1>2, <1>4 DEF Types
  <2>2. Fits(outbox', delivered', retained')
        /\ EventsIn(outbox'.store) \subseteq EventsIn(outbox.store)
    BY <1>3, <1>4
  <2> QED
    BY <1>1, <1>4, <2>1, <2>2, PublisherStep
<1>5. CASE \E box \in Boxes :
             /\ box.replaying /\ Replay(box) /\ ~seen.offline
             /\ box.store = seen.store /\ ~box.offline
             /\ box.returned = seen.returned
             /\ box.forgotten = seen.forgotten
  <2>1. PICK box \in Boxes : box.replaying /\ Replay(box) /\ box.store = seen.store
    BY <1>5
  <2>2. PICK n \in 0..Len(box.store), k \in Nat :
           /\ k \in {n, n + 1} /\ k <= Len(box.store)
           /\ Receive(SubSeq(box.store, 1, n))
           /\ outbox' \in Boxes /\ outbox'.store = SubSeq(box.store, k + 1, Len(box.store))
           /\ ~outbox'.replaying => outbox'.store = << >>
           /\ UNCHANGED refusals \/ refusals' = refusals + 1
    BY <2>1, ReplayCases
  <2> HIDE DEF seen
  <2>3. Fits(box, delivered, retained)
    BY <1>3, <2>1 DEF Fits
  <2> DEFINE front == SubSeq(box.store, 1, n)
  <2>4. delivered' = delivered \cup EventsIn(front) /\ retained' = Newest(front, retained)
    BY <2>2 DEF Receive
  <2> DEFINE b == outbox'
  <2>5. /\ Fits(b, delivered \cup EventsIn(front), Newest(front, retained))
        /\ EventsIn(b.store) \cup EventsIn(front) \subseteq EventsIn(box.store)
    <3>1. /\ b \in Boxes /\ n \in 0..Len(box.store) /\ k \in {n, n + 1} /\ k <= Len(box.store)
          /\ b.store = SubSeq(box.store, k + 1, Len(box.store))
          /\ ~b.replaying => b.store = << >>
      BY <2>2
    <3> HIDE DEF b
    <3> QED
      BY <2>3, <3>1, ReplayFits
  <2>6. refusals' \in Nat
    BY <1>2, <2>2 DEF Types
  <2>7. Types'
    BY <1>1, <1>2, <2>6 DEF Types
  <2> HIDE DEF front
  <2>8. Fits(outbox', delivered', retained')
    BY <2>4, <2>5
  <2>9. EventsIn(outbox'.store) \cup delivered' \subseteq EventsIn(outbox.store) \cup delivered
    BY <1>3, <2>1, <2>4, <2>5
  <2> QED
    BY <1>1, <2>7, <2>8, <2>9, PublisherStep
<1> QED
  BY <1>4, <1>5, BackfillCases

LEMMA NextKeeps == IInv /\ [MqttNext]_mqttVars => IInv'
<1> SUFFICES ASSUME IInv, [MqttNext]_mqttVars PROVE IInv'
  OBVIOUS
<1>1. CASE UNCHANGED mqttVars
  BY <1>1 DEF mqttVars, feed, broker, IInv, Types, Fits, Channel, Passed, Emitted
<1> QED
  BY <1>1, TickKeeps, LoadScenarioKeeps, ReconnectKeeps, BackfillKeeps, CadenceKeeps,
     ChangedKeeps, EventsKeep, FallBehindKeeps DEF MqttNext, Publisher

LEMMA Invariance == MqttSpec => []IInv
BY InitKeeps, NextKeeps, PTL DEF MqttSpec

(* Every kernel event publishes at most once, whatever the dropouts, the   *)
(* bursts and the refusals (mqtt/publisher.rs:173, mqtt/tap.rs:126).       *)
THEOREM EventsPublishOnce == MqttSpec => []EachEventOnce
<1>1. IInv => EachEventOnce
  <2> SUFFICES ASSUME IInv PROVE EachEventOnce
    OBVIOUS
  <2> DEFINE s == outbox.store
             W == s \o batches
  <2>1. s \in Seq(Messages) /\ batches \in Seq(Messages)
    BY DEF IInv, Types, Fits, Boxes
  <2>2. /\ Distinct(s) /\ Distinct(batches)
        /\ EventsIn(s) \cap delivered = {}
        /\ EventsIn(batches) \cap (EventsIn(s) \cup delivered) = {}
        /\ Len(s) <= STORE /\ Len(batches) <= EVENT_BACKLOG
    BY DEF IInv, Fits, Channel
  <2>3. /\ DOMAIN W = 1..(Len(s) + Len(batches)) /\ Len(s) \in Nat /\ Len(batches) \in Nat
        /\ DOMAIN s = 1..Len(s) /\ DOMAIN batches = 1..Len(batches)
        /\ \A i \in DOMAIN W :
             W[i] = IF i <= Len(s) THEN s[i] ELSE batches[i - Len(s)]
    BY <2>1
  <2> HIDE DEF s, W
  <2>4. \A i \in DOMAIN W : W[i].kind = "event" =>
          Id(W[i]) \in (IF i <= Len(s) THEN EventsIn(s) ELSE EventsIn(batches))
    <3> SUFFICES ASSUME NEW i \in DOMAIN W, W[i].kind = "event"
                 PROVE  Id(W[i]) \in (IF i <= Len(s) THEN EventsIn(s) ELSE EventsIn(batches))
      OBVIOUS
    <3>1. CASE i <= Len(s)
      <4>1. i \in DOMAIN s /\ W[i] = s[i]
        BY <2>3, <3>1
      <4> QED
        BY <3>1, <4>1, EventsInIs
    <3>2. CASE ~(i <= Len(s))
      <4>1. i - Len(s) \in DOMAIN batches /\ W[i] = batches[i - Len(s)]
        BY <2>3, <3>2
      <4> QED
        BY <3>2, <4>1, EventsInIs
    <3> QED
      BY <3>1, <3>2
  <2>5. ASSUME NEW i \in DOMAIN W, NEW j \in DOMAIN W,
               W[i].kind = "event", W[j].kind = "event", Id(W[i]) = Id(W[j])
        PROVE  i = j
    <3>1. CASE i <= Len(s) /\ j <= Len(s)
      <4>1. i \in DOMAIN s /\ W[i] = s[i] /\ j \in DOMAIN s /\ W[j] = s[j]
        BY <2>3, <3>1
      <4> QED
        BY <2>2, <2>5, <4>1 DEF Distinct
    <3>2. CASE ~(i <= Len(s)) /\ ~(j <= Len(s))
      <4>1. /\ i - Len(s) \in DOMAIN batches /\ W[i] = batches[i - Len(s)]
            /\ j - Len(s) \in DOMAIN batches /\ W[j] = batches[j - Len(s)]
        BY <2>3, <3>2
      <4>2. i - Len(s) = j - Len(s)
        BY <2>2, <2>5, <4>1 DEF Distinct
      <4> QED
        BY <2>3, <4>2
    <3>3. CASE (i <= Len(s)) # (j <= Len(s))
      BY <2>2, <2>4, <2>5, <3>3
    <3> QED
      BY <3>1, <3>2, <3>3
  <2>6. EventsIn(W) \cap delivered = {}
    <3> SUFFICES ASSUME NEW e \in EventsIn(W) PROVE e \notin delivered
      OBVIOUS
    <3>1. PICK i \in DOMAIN W : W[i].kind = "event" /\ e = Id(W[i])
      BY EventsInIs
    <3> QED
      BY <2>2, <2>4, <3>1
  <2>7. Waiting = W
    BY DEF Waiting, W, s
  <2> QED
    BY <2>2, <2>5, <2>6, <2>7 DEF EachEventOnce, Id, s
<1> QED
  BY <1>1, Invariance, PTL

-----------------------------------------------------------------------------
(* The order in which things reach the broker.                             *)

LEMMA SendOrder ==
  ASSUME IInv, NEW box, Fits(box, delivered, retained), NEW m, NEW ok \in BOOLEAN,
         Fresh(m, EventsIn(box.store), delivered), Take(Send(box, m, ok))
  PROVE  /\ box.replaying => delivered' = delivered /\ retained' = retained
         /\ retained # None => Later(retained', retained)
<1> DEFINE sent == Send(box, m, ok)
           seen == Observe(box)
<1>1. delivered' = delivered \cup EventsIn(sent.out) /\ retained' = Newest(sent.out, retained)
  BY DEF Take, Receive
<1>2. /\ run \in Nat /\ tick \in Nat /\ m \in Messages /\ box \in Boxes
      /\ retained # None => retained \in Messages /\ Passed(retained)
  BY Running DEF IInv, Fits, Fresh
<1>3. retained # None => Later(retained, retained)
  BY <1>2 DEF Later, Messages
<1>4. CASE seen.offline \/ seen.replaying
  <2>1. sent.out = << >>
    BY <1>4 DEF Send
  <2>2. delivered' = delivered /\ retained' = retained
    BY <1>1, <2>1, Nothing
  <2> QED
    BY <1>3, <2>2
<1>5. CASE ~seen.offline /\ ~seen.replaying
  <2>1. sent.out = IF ok THEN <<m>> ELSE << >>
    BY <1>5 DEF Send
  <2> HIDE DEF sent
  <2>2. ~box.replaying
    <3> HIDE DEF seen
    <3> QED
      BY <1>2, <1>5, ObserveFacts DEF seen
  <2>3. retained' = retained \/ (m.retain /\ retained' = m)
    <3>1. Newest(<<m>>, retained) = IF m.retain THEN m ELSE retained
      BY <1>2, One
    <3>2. Newest(<< >>, retained) = retained
      BY Nothing
    <3> QED
      BY <1>1, <2>1, <3>1, <3>2
  <2>4. m.retain /\ retained # None => Later(m, retained)
    BY <1>2 DEF Fresh, Passed, Later, Messages
  <2> QED
    BY <1>3, <2>2, <2>3, <2>4
<1> QED
  BY <1>4, <1>5

(* The step BrokerKeepsOrder asks for.                                     *)
Orderly ==
  /\ outbox.replaying =>
       /\ delivered' \subseteq delivered \cup EventsIn(outbox.store)
       /\ retained' \in {None, retained} \cup ToSet(outbox.store)
  /\ retained # None /\ retained' # None => Later(retained', retained)

LEMMA StillOrderly ==
  ASSUME IInv, delivered' = delivered, retained' \in {None, retained}
  PROVE  Orderly
<1>1. retained # None => retained \in Messages
  BY DEF IInv, Fits
<1>2. retained # None => Later(retained, retained)
  BY <1>1 DEF Later, Messages
<1> QED
  BY <1>2 DEF Orderly

LEMMA ChangedOrderly == IInv /\ PublishChanged => Orderly
<1> SUFFICES ASSUME IInv, PublishChanged PROVE Orderly
  OBVIOUS
<1> DEFINE seen == Observe(outbox)
           box == [seen EXCEPT !.returned = FALSE]
           known == IF Forget(seen) THEN None ELSE lastWord
<1>1. Types /\ Fits(outbox, delivered, retained) /\ outbox \in Boxes
  BY DEF IInv, Fits
<1>2. Fits(seen, delivered, retained)
  BY <1>1, ObserveFits
<1>3. \/ Receive(<< >>)
      \/ \E ok \in BOOLEAN : Take(Send(box, Message("word", word, TRUE), ok))
  BY DEF PublishChanged
<1>4. /\ seen \in Boxes /\ seen.offline = Dropout
      /\ ~seen.offline => seen.replaying = outbox.replaying
  <2> HIDE DEF seen
  <2> QED
    BY <1>1, ObserveFacts DEF seen
<1> HIDE DEF seen
<1>5. /\ Fits(box, delivered, retained) /\ box \in Boxes /\ box.replaying = seen.replaying
      /\ box.offline = Dropout
  BY <1>2, <1>4 DEF Fits, Boxes
<1>6. Observe(box) = box
  BY <1>5 DEF Observe
<1> HIDE DEF box
<1>7. CASE Receive(<< >>)
  BY <1>7, Nothing, StillOrderly DEF Receive
<1>8. CASE \E ok \in BOOLEAN : Take(Send(box, Message("word", word, TRUE), ok))
  <2> DEFINE m == Message("word", word, TRUE)
  <2>1. PICK ok \in BOOLEAN : Take(Send(box, m, ok))
    BY <1>8
  <2>2. Fresh(m, EventsIn(box.store), delivered)
    <3>1. word \in Nat
      BY <1>1 DEF Types
    <3> QED
      BY <1>1, <3>1, MessageIsFresh
  <2> HIDE DEF m
  <2>3. /\ box.replaying => delivered' = delivered /\ retained' = retained
        /\ retained # None => Later(retained', retained)
    BY <1>5, <2>1, <2>2, SendOrder
  <2>4. CASE box.offline
    <3>1. Send(box, m, ok).out = << >>
      BY <1>6, <2>4 DEF Send
    <3>2. delivered' = delivered /\ retained' = retained
      BY <2>1, <3>1, Nothing DEF Take, Receive
    <3> QED
      BY <3>2, StillOrderly
  <2>5. CASE ~box.offline
    <3>1. outbox.replaying => delivered' = delivered /\ retained' = retained
      BY <1>4, <1>5, <2>3, <2>5
    <3> QED
      BY <2>3, <3>1 DEF Orderly
  <2> QED
    BY <2>4, <2>5
<1> QED
  BY <1>3, <1>7, <1>8

LEMMA SentOrderly ==
  ASSUME IInv, NEW m, Fresh(m, EventsIn(outbox.store), delivered),
         \E ok \in BOOLEAN : Take(Send(outbox, m, ok))
  PROVE  Orderly
<1>1. PICK ok \in BOOLEAN : Take(Send(outbox, m, ok))
  OBVIOUS
<1>2. /\ outbox.replaying => delivered' = delivered /\ retained' = retained
      /\ retained # None => Later(retained', retained)
  BY <1>1, SendOrder DEF IInv
<1> QED
  BY <1>2 DEF Orderly

LEMMA BackfillOrderly == IInv /\ Backfill => Orderly
<1> SUFFICES ASSUME IInv, Backfill PROVE Orderly
  OBVIOUS
<1> DEFINE seen == Observe(outbox)
<1>1. CASE delivered' = delivered /\ retained' = retained
  BY <1>1, StillOrderly
<1>2. CASE \E box \in Boxes : box.replaying /\ Replay(box) /\ ~seen.offline /\ box.store = seen.store
  <2>1. PICK box \in Boxes : box.replaying /\ Replay(box) /\ ~seen.offline /\ box.store = seen.store
    BY <1>2
  <2>2. outbox \in Boxes /\ Fits(outbox, delivered, retained)
    BY DEF IInv, Fits
  <2>3. seen.store = outbox.store
    <3> HIDE DEF seen
    <3> QED
      BY <2>1, <2>2, ObserveFacts DEF seen
  <2> HIDE DEF seen
  <2> DEFINE store == outbox.store
  <2>4. PICK n \in 0..Len(store) : Receive(SubSeq(store, 1, n))
    BY <2>1, <2>3, ReplayCases
  <2> DEFINE front == SubSeq(store, 1, n)
  <2>5. store \in Seq(Messages) /\ Len(store) \in Nat /\ n \in Nat /\ n <= Len(store)
    BY <2>2, <2>4 DEF Boxes
  <2>6. /\ front \in Seq(Messages) /\ DOMAIN front = 1..n /\ \A i \in 1..n : front[i] = store[i]
    <3>1. \A i \in 1..n : store[i] \in Messages
      BY <2>5
    <3>2. /\ front \in Seq(Messages) /\ Len(front) = IF 1 <= n THEN n - 1 + 1 ELSE 0
          /\ \A i \in 1..(n - 1 + 1) : front[i] = store[1 + i - 1]
      BY <2>5, <3>1, SubSeqProperties
    <3> HIDE DEF front, store
    <3>3. n - 1 + 1 = n /\ Len(front) = n
      BY <2>5, <3>2
    <3>4. \A i \in 1..n : 1 + i - 1 = i
      OBVIOUS
    <3> QED
      BY <3>2, <3>3, <3>4
  <2>7. delivered' = delivered \cup EventsIn(front) /\ retained' = Newest(front, retained)
    BY <2>4 DEF Receive
  <2> HIDE DEF front, store
  <2>8. \A i \in DOMAIN front : i \in DOMAIN store /\ front[i] = store[i]
    BY <2>5, <2>6
  <2>9. EventsIn(front) \subseteq EventsIn(store)
    <3> SUFFICES ASSUME NEW e \in EventsIn(front) PROVE e \in EventsIn(store)
      OBVIOUS
    <3>1. PICK i \in DOMAIN front : front[i].kind = "event" /\ e = Id(front[i])
      BY EventsInIs
    <3> QED
      BY <2>8, <3>1, EventsInIs
  <2>10. retained' = retained \/ \E i \in DOMAIN store : retained' = store[i] /\ store[i].retain
    BY <2>6, <2>7, <2>8, NewestIs
  <2>11. retained' \in {retained} \cup ToSet(store)
    BY <2>10 DEF ToSet
  <2>12. retained # None /\ retained' # None => Later(retained', retained)
    <3>1. CASE retained' = retained
      BY <2>2, <3>1 DEF Fits, Later, Messages
    <3>2. CASE \E i \in DOMAIN store : retained' = store[i] /\ store[i].retain
      BY <2>2, <3>2 DEF Fits, Follows, store
    <3> QED
      BY <2>10, <3>1, <3>2
  <2> QED
    BY <2>7, <2>9, <2>11, <2>12 DEF Orderly, store
<1> QED
  BY <1>1, <1>2, BackfillCases

(* A replay drains what was stored ahead of anything live, and no replay,  *)
(* however late, puts an old word over a newer one (mqtt/tap.rs:134).      *)
THEOREM SubscribersSeeOrder == MqttSpec => BrokerKeepsOrder
<1>1. IInv /\ [MqttNext]_mqttVars => [Orderly]_mqttVars
  <2> SUFFICES ASSUME IInv, MqttNext PROVE Orderly
    OBVIOUS
  <2>1. CASE Tick \/ LoadScenario \/ Reconnect \/ FallBehind
    BY <2>1, StillOrderly DEF Tick, LoadScenario, Reconnect, FallBehind
  <2>2. CASE PublishCadence
    <3>1. CASE Due
      <4>1. \E ok \in BOOLEAN : Take(Send(outbox, Message("point", 0, FALSE), ok))
        BY <2>2, <3>1 DEF PublishCadence
      <4>2. Fresh(Message("point", 0, FALSE), EventsIn(outbox.store), delivered)
        BY MessageIsFresh DEF IInv
      <4> DEFINE m == Message("point", 0, FALSE)
      <4>3. Fresh(m, EventsIn(outbox.store), delivered)
            /\ \E ok \in BOOLEAN : Take(Send(outbox, m, ok))
        BY <4>1, <4>2
      <4> HIDE DEF m
      <4> QED
        BY <4>3, SentOrderly
    <3>2. CASE ~Due
      BY <2>2, <3>2, Nothing, StillOrderly DEF PublishCadence, Receive
    <3> QED
      BY <3>1, <3>2
  <2>3. CASE PublishEvents
    <3> DEFINE m == Head(batches)
    <3>1. \E ok \in BOOLEAN : Take(Send(outbox, m, ok))
      BY <2>3 DEF PublishEvents
    <3>2. batches # << >> /\ batches \in Seq(Messages)
      BY <2>3 DEF PublishEvents, IInv, Types
    <3>3. 1 \in DOMAIN batches /\ m = batches[1] /\ m \in Messages
      BY <3>2
    <3> HIDE DEF m
    <3>4. m.kind = "event" /\ ~m.retain /\ Id(m) \in EventsIn(batches)
      BY <3>3, EventsInIs DEF IInv, Channel
    <3>5. Fresh(m, EventsIn(outbox.store), delivered)
      BY <3>3, <3>4 DEF IInv, Channel, Fresh
    <3> QED
      BY <3>1, <3>5, SentOrderly
  <2> QED
    BY <2>1, <2>2, <2>3, BackfillOrderly, ChangedOrderly DEF MqttNext, Publisher
<1>2. MqttSpec => [][Orderly]_mqttVars
  BY <1>1, Invariance, PTL DEF MqttSpec
<1>3. Orderly => /\ outbox.replaying =>
                      /\ delivered' \subseteq delivered \cup EventsIn(outbox.store)
                      /\ retained' \in {None, retained} \cup ToSet(outbox.store)
                 /\ retained # None /\ retained' # None => Later(retained', retained)
  BY DEF Orderly
<1> QED
  BY <1>2, <1>3, PTL DEF BrokerKeepsOrder

-----------------------------------------------------------------------------
(* The cadence of the points.                                              *)

(* The clock keeps to its bound, and the last publication is a date the    *)
(* plant in force has passed, or one an earlier plant could show.          *)
DatesArePast ==
  /\ tick <= MaxTick
  /\ lastPub # None => \/ lastPub \in story.start..Now
                       \/ \E i \in 1..(run - 1) : lastPub \in Dates(i)

LEMMA DatesStayPast ==
  ASSUME IInv, IInv', DatesArePast, [MqttNext]_mqttVars
  PROVE  DatesArePast'
<1>1. /\ run \in 1..Len(Stories) /\ tick \in Nat /\ MaxTick \in Nat /\ Len(Stories) \in Nat
      /\ lastPub \in Int \cup {None} /\ run' \in 1..Len(Stories) /\ tick' \in Nat
      /\ \A i \in 1..Len(Stories) : Stories[i].start \in Int
      /\ None \notin Int
  <2>1. run \in 1..Len(Stories) /\ run' \in 1..Len(Stories)
    BY DEF IInv, Types
  <2> QED
    BY <2>1, StoriesAre, SurfacesAssumption, MqttAssumption DEF IInv, Types
<1>2. /\ Now = Stories[run].start + tick /\ Now' = Stories[run'].start + tick'
      /\ story = Stories[run] /\ story' = Stories[run']
  BY DEF Now, story
<1>3. CASE Tick
  <2>1. tick < MaxTick /\ tick' = tick + 1 /\ run' = run /\ lastPub' = lastPub
    BY <1>3 DEF Tick
  <2>2. story' = story /\ story.start \in Int
    BY <1>1, <1>2, <2>1
  <2>3. Now' = Now + 1 /\ Now \in Int
    <3> DEFINE s == Stories[run].start
    <3>1. s \in Int /\ Now = s + tick /\ Now' = s + (tick + 1)
      BY <1>1, <1>2, <2>1
    <3> HIDE DEF s
    <3> QED
      BY <1>1, <3>1
  <2>4. tick' <= MaxTick
    BY <1>1, <2>1
  <2>5. lastPub \in story.start..Now => lastPub' \in story'.start..Now'
    BY <1>1, <2>1, <2>2, <2>3
  <2>6. ASSUME NEW i \in 1..(run - 1), lastPub \in Dates(i)
        PROVE  i \in 1..(run' - 1) /\ lastPub' \in Dates(i)'
    BY <2>1, <2>6 DEF Dates
  <2> QED
    BY <2>1, <2>4, <2>5, <2>6 DEF DatesArePast
<1>4. CASE LoadScenario
  <2>1. run < Len(Stories) /\ run' = run + 1 /\ tick' = 0 /\ lastPub' = lastPub
    BY <1>4 DEF LoadScenario
  <2>2. ASSUME lastPub # None
        PROVE  \E i \in 1..(run' - 1) : lastPub \in Dates(i)
    <3>1. CASE lastPub \in story.start..Now
      <4>1. lastPub \in Dates(run)
        BY <1>1, <1>2, <3>1 DEF DatesArePast, Dates
      <4> QED
        BY <1>1, <2>1, <4>1
    <3>2. CASE \E i \in 1..(run - 1) : lastPub \in Dates(i)
      BY <1>1, <2>1, <3>2
    <3> QED
      BY <2>2, <3>1, <3>2 DEF DatesArePast
  <2>3. tick' <= MaxTick
    BY <1>1, <2>1
  <2> QED
    BY <2>1, <2>2, <2>3 DEF DatesArePast, Dates
<1>5. CASE PublishCadence
  <2>1. UNCHANGED <<run, tick>> /\ (lastPub' = lastPub \/ lastPub' = Now)
    BY <1>5 DEF PublishCadence, feed
  <2>2. Now' = Now /\ story' = story
    BY <1>2, <2>1
  <2>3. CASE lastPub' = lastPub
    BY <2>1, <2>2, <2>3 DEF DatesArePast, Dates
  <2>4. CASE lastPub' = Now
    <3>1. lastPub' \in story'.start..Now'
      BY <1>1, <1>2, <2>1, <2>2, <2>4
    <3> QED
      BY <2>1, <3>1 DEF DatesArePast
  <2> QED
    BY <2>1, <2>3, <2>4
<1>6. CASE UNCHANGED <<run, tick, lastPub>>
  <2>1. Now' = Now /\ story' = story
    BY <1>2, <1>6
  <2> QED
    BY <1>6, <2>1 DEF DatesArePast, Dates
<1> QED
  BY <1>3, <1>4, <1>5, <1>6
     DEF MqttNext, Publisher, Reconnect, Backfill, PublishChanged, PublishEvents, FallBehind,
         mqttVars, feed

(* The points of a class go out whenever their period has passed, unless   *)
(* a load has set the clock back behind the last publication, to a date    *)
(* the plant before it had reached (mqtt/publisher.rs:93, 111-115,         *)
(* mqtt.rs:51): whatever the scenarios and the dates they start at.        *)
THEOREM SilenceComesOfALoad == MqttSpec => OnlyALoadSilences
<1>1. MqttInit => DatesArePast
  BY SurfacesAssumption DEF MqttInit, DatesArePast
<1>2. MqttSpec => []DatesArePast
  <2>1. IInv /\ IInv' /\ DatesArePast /\ [MqttNext]_mqttVars => DatesArePast'
    BY DatesStayPast
  <2> QED
    BY <1>1, <2>1, Invariance, PTL DEF MqttSpec
<1>3. ASSUME IInv, DatesArePast, MqttNext, pc = "cadence", pc' = "changed"
      PROVE  /\ lastPub' # None /\ Now - lastPub' < Period
             /\ lastPub' > Now => \E i \in 1..(run - 1) : lastPub' \in Dates(i)
  <2>1. PublishCadence
    BY <1>3 DEF MqttNext, Publisher, Tick, LoadScenario, Reconnect, Backfill, PublishChanged,
                PublishEvents, FallBehind, feed
  <2>2. /\ Now \in Int /\ Period \in Nat \ {0} /\ lastPub \in Int \cup {None}
        /\ None \notin Int /\ story.start \in Int
    BY <1>3, Running, MqttAssumption, StoriesAre DEF IInv, Types, story
  <2>3. CASE Due
    BY <2>1, <2>2, <2>3 DEF PublishCadence
  <2>4. CASE ~Due
    <3>1. lastPub' = lastPub /\ lastPub # None /\ ~(Now - lastPub >= Period)
      BY <2>1, <2>4 DEF PublishCadence, Due
    <3>2. \/ lastPub \in story.start..Now
          \/ \E i \in 1..(run - 1) : lastPub \in Dates(i)
      BY <1>3, <3>1 DEF DatesArePast
    <3> QED
      BY <2>2, <3>1, <3>2
  <2> QED
    BY <2>3, <2>4
<1>4. IInv /\ DatesArePast /\ [MqttNext]_mqttVars
        => [pc = "cadence" /\ pc' = "changed" =>
              /\ lastPub' # None /\ Now - lastPub' < Period
              /\ lastPub' > Now => \E i \in 1..(run - 1) : lastPub' \in Dates(i)]_mqttVars
  BY <1>3
<1> QED
  BY <1>2, <1>4, Invariance, PTL DEF MqttSpec, OnlyALoadSilences

-----------------------------------------------------------------------------
(* What the publisher remembers of the word.                               *)

LEMMA NewestAppend ==
  ASSUME NEW s \in Seq(Messages), NEW m \in Messages, NEW r
  PROVE  Newest(Append(s, m), r) = IF m.retain THEN m ELSE Newest(s, r)
<1> DEFINE t == Append(s, m)
<1>1. /\ t \in Seq(Messages) /\ DOMAIN t = DOMAIN s \cup {Len(s) + 1}
      /\ t[Len(s) + 1] = m /\ \A i \in DOMAIN s : t[i] = s[i]
  BY AppendKeeps
<1>2. Len(s) \in Nat /\ DOMAIN s = 1..Len(s)
  OBVIOUS
<1> HIDE DEF t
<1>3. CASE m.retain
  <2>1. PICK i \in DOMAIN t : /\ Newest(t, r) = t[i]
                              /\ \A j \in DOMAIN t : t[j].retain => j <= i
    BY <1>1, <1>3, NewestIs
  <2>2. Len(s) + 1 <= i
    BY <1>1, <1>3, <2>1
  <2>3. i = Len(s) + 1
    BY <1>1, <1>2, <2>1, <2>2
  <2> QED
    BY <1>1, <1>3, <2>1, <2>3 DEF t
<1>4. CASE ~m.retain
  <2>1. \/ (\A i \in DOMAIN s : ~s[i].retain) /\ Newest(s, r) = r
        \/ \E i \in DOMAIN s : /\ s[i].retain /\ Newest(s, r) = s[i]
                               /\ \A j \in DOMAIN s : s[j].retain => j <= i
    BY NewestIs
  <2>2. \/ (\A i \in DOMAIN t : ~t[i].retain) /\ Newest(t, r) = r
        \/ \E i \in DOMAIN t : /\ t[i].retain /\ Newest(t, r) = t[i]
                               /\ \A j \in DOMAIN t : t[j].retain => j <= i
    BY <1>1, NewestIs
  <2>3. CASE \A i \in DOMAIN s : ~s[i].retain
    <3>1. \A i \in DOMAIN t : ~t[i].retain
      BY <1>1, <1>4, <2>3
    <3> QED
      BY <1>4, <2>1, <2>2, <2>3, <3>1 DEF t
  <2>4. CASE \E i \in DOMAIN s : s[i].retain
    <3>1. PICK i \in DOMAIN s : /\ s[i].retain /\ Newest(s, r) = s[i]
                                /\ \A j \in DOMAIN s : s[j].retain => j <= i
      BY <2>1, <2>4
    <3>2. i \in DOMAIN t /\ t[i] = s[i]
      BY <1>1
    <3>3. PICK k \in DOMAIN t : /\ t[k].retain /\ Newest(t, r) = t[k]
                                /\ \A j \in DOMAIN t : t[j].retain => j <= k
      BY <2>2, <3>1, <3>2
    <3>4. k \in DOMAIN s
      BY <1>1, <1>4, <3>3
    <3>5. k <= i /\ i <= k
      BY <1>1, <3>1, <3>2, <3>3, <3>4
    <3>6. k = i
      BY <1>2, <3>4, <3>5
    <3> QED
      BY <1>4, <3>1, <3>2, <3>3, <3>6 DEF t
  <2> QED
    BY <2>3, <2>4
<1> QED
  BY <1>3, <1>4

LEMMA NewestSplits ==
  ASSUME NEW s \in Seq(Messages), NEW n \in 0..Len(s), NEW r
  PROVE  Newest(SubSeq(s, n + 1, Len(s)), Newest(SubSeq(s, 1, n), r)) = Newest(s, r)
<1> DEFINE a == SubSeq(s, 1, n)
           b == SubSeq(s, n + 1, Len(s))
<1>1. Len(s) \in Nat /\ n \in Nat /\ n <= Len(s) /\ DOMAIN s = 1..Len(s)
  OBVIOUS
<1>2. /\ a \in Seq(Messages) /\ DOMAIN a = 1..n /\ \A i \in 1..n : a[i] = s[i]
  <2>1. \A i \in 1..n : s[i] \in Messages
    BY <1>1
  <2>2. /\ a \in Seq(Messages) /\ Len(a) = IF 1 <= n THEN n - 1 + 1 ELSE 0
        /\ \A i \in 1..(n - 1 + 1) : a[i] = s[1 + i - 1]
    BY <1>1, <2>1, SubSeqProperties
  <2> HIDE DEF a
  <2>3. n - 1 + 1 = n /\ Len(a) = n
    BY <1>1, <2>2
  <2>4. \A i \in 1..n : 1 + i - 1 = i
    OBVIOUS
  <2> QED
    BY <2>2, <2>3, <2>4
<1>3. /\ b \in Seq(Messages) /\ Len(b) = Len(s) - n
      /\ \A i \in DOMAIN b : b[i] = s[i + n]
  BY Parts
<1> HIDE DEF a, b
<1>4. DOMAIN b = 1..(Len(s) - n)
  BY <1>3
<1> DEFINE q == Newest(a, r)
<1>5. \/ (\A i \in DOMAIN b : ~b[i].retain) /\ Newest(b, q) = q
      \/ \E i \in DOMAIN b : /\ b[i].retain /\ Newest(b, q) = b[i]
                             /\ \A j \in DOMAIN b : b[j].retain => j <= i
  BY <1>3, NewestIs
<1>6. \/ (\A i \in DOMAIN a : ~a[i].retain) /\ q = r
      \/ \E i \in DOMAIN a : /\ a[i].retain /\ q = a[i]
                             /\ \A j \in DOMAIN a : a[j].retain => j <= i
  BY <1>2, NewestIs
<1>7. \/ (\A i \in DOMAIN s : ~s[i].retain) /\ Newest(s, r) = r
      \/ \E i \in DOMAIN s : /\ s[i].retain /\ Newest(s, r) = s[i]
                             /\ \A j \in DOMAIN s : s[j].retain => j <= i
  BY NewestIs
<1> HIDE DEF q
<1>8. \A i \in DOMAIN s : \/ i \in DOMAIN a /\ s[i] = a[i]
                          \/ i - n \in DOMAIN b /\ s[i] = b[i - n] /\ i > n
  <2> TAKE i \in DOMAIN s
  <2>1. CASE i <= n
    BY <1>1, <1>2, <2>1
  <2>2. CASE i > n
    <3>1. i - n \in DOMAIN b /\ (i - n) + n = i
      BY <1>1, <1>4, <2>2
    <3> QED
      BY <1>3, <2>2, <3>1
  <2> QED
    BY <1>1, <2>1, <2>2
<1>9. \A i \in DOMAIN b : i + n \in DOMAIN s /\ i + n > n /\ b[i] = s[i + n]
  BY <1>1, <1>3, <1>4
<1>10. \A i \in DOMAIN a : i \in DOMAIN s /\ i <= n /\ a[i] = s[i]
  BY <1>1, <1>2
<1>11. CASE \E i \in DOMAIN b : b[i].retain
  <2>1. PICK i \in DOMAIN b : /\ b[i].retain /\ Newest(b, q) = b[i]
                              /\ \A j \in DOMAIN b : b[j].retain => j <= i
    BY <1>5, <1>11
  <2>2. PICK k \in DOMAIN s : /\ s[k].retain /\ Newest(s, r) = s[k]
                              /\ \A j \in DOMAIN s : s[j].retain => j <= k
    BY <1>7, <1>9, <2>1
  <2>3. i + n <= k
    BY <1>9, <2>1, <2>2
  <2>4. i \in Int /\ k \in Int /\ i > 0
    BY <1>1, <1>4
  <2>5. k - n \in DOMAIN b /\ s[k] = b[k - n]
    <3>1. ~(k <= n)
      BY <1>1, <2>3, <2>4
    <3> QED
      BY <1>8, <1>10, <3>1
  <2>6. k - n <= i
    BY <2>1, <2>2, <2>5
  <2>7. k - n = i
    BY <1>1, <2>3, <2>4, <2>6
  <2> QED
    BY <2>1, <2>2, <2>5, <2>7 DEF q, a, b
<1>12. CASE ~(\E i \in DOMAIN b : b[i].retain) /\ \E i \in DOMAIN a : a[i].retain
  <2>1. PICK i \in DOMAIN a : /\ a[i].retain /\ q = a[i]
                              /\ \A j \in DOMAIN a : a[j].retain => j <= i
    BY <1>6, <1>12
  <2>2. PICK k \in DOMAIN s : /\ s[k].retain /\ Newest(s, r) = s[k]
                              /\ \A j \in DOMAIN s : s[j].retain => j <= k
    BY <1>7, <1>10, <2>1
  <2>3. k \in DOMAIN a /\ s[k] = a[k]
    BY <1>8, <1>12, <2>2
  <2>4. k <= i /\ i <= k
    BY <1>10, <2>1, <2>2, <2>3
  <2>5. k = i
    BY <1>1, <1>2, <2>3, <2>4
  <2>6. Newest(b, q) = q
    BY <1>5, <1>12
  <2> QED
    BY <2>1, <2>2, <2>3, <2>5, <2>6 DEF q, a, b
<1>13. CASE ~(\E i \in DOMAIN b : b[i].retain) /\ ~(\E i \in DOMAIN a : a[i].retain)
  <2>1. Newest(b, q) = q /\ q = r
    BY <1>5, <1>6, <1>13
  <2>2. \A i \in DOMAIN s : ~s[i].retain
    BY <1>8, <1>13
  <2>3. Newest(s, r) = r
    BY <1>7, <2>2
  <2> QED
    BY <2>1, <2>3 DEF q, a, b
<1> QED
  BY <1>11, <1>12, <1>13

(* RecordedWordIsOut of an outbox and a broker, for some remembered value. *)
Out(box, last, value) == Newest(box.store, last) # None /\ Newest(box.store, last).value = value
Online(box) == ~box.offline /\ ~box.returned /\ ~box.forgotten

LEMMA RecordedIs ==
  RecordedWordIsOut <=>
    (lastWord # None /\ publishedOn = connections /\ Online(outbox)
       => Out(outbox, retained, lastWord))
BY DEF RecordedWordIsOut, Online, Out

(* A message that is not retained passes by the word at the broker.        *)
LEMMA SendAside ==
  ASSUME NEW box, NEW out, NEW last, Fits(box, out, last), NEW m \in Messages, ~m.retain,
         NEW ok \in BOOLEAN, Online(Send(box, m, ok).box)
  PROVE  /\ Online(box)
         /\ Newest(Send(box, m, ok).box.store, Newest(Send(box, m, ok).out, last))
              = Newest(box.store, last)
<1> DEFINE sent == Send(box, m, ok)
           seen == Observe(box)
<1>1. box \in Boxes /\ Len(box.store) <= STORE /\ box.store \in Seq(Messages)
  BY DEF Fits, Boxes
<1>2. /\ seen \in Boxes
      /\ ~seen.offline /\ ~seen.returned => seen = box
  <2> HIDE DEF seen
  <2> QED
    BY <1>1, ObserveFacts DEF seen
<1>3. Len(seen.store) <= STORE
  <2>1. Fits(seen, out, last)
    BY ObserveFits
  <2> QED
    BY <2>1 DEF Fits
<1>4. CASE seen.offline
  <2> DEFINE n == [m EXCEPT !.retain = FALSE]
  <2>1. sent.box = Keep(seen, n)
    BY <1>4 DEF Send
  <2>2. n \in Messages
    BY DEF Messages
  <2> HIDE DEF n, seen
  <2>3. Keep(seen, n).offline = seen.offline
    BY <1>2, <1>3, <2>2, KeepFacts
  <2> QED
    BY <1>4, <2>1, <2>3 DEF Online
<1>5. CASE ~seen.offline /\ seen.replaying
  <2>1. sent.box = Keep(seen, m) /\ sent.out = << >>
    BY <1>5 DEF Send
  <2> HIDE DEF seen
  <2>2. PICK s \in Seq(Messages) :
          /\ Keep(seen, m).store = Append(s, m)
          /\ ~Keep(seen, m).forgotten => s = seen.store /\ ~seen.forgotten
    BY <1>2, <1>3, KeepFacts
  <2>3. Keep(seen, m).offline = seen.offline /\ Keep(seen, m).returned = seen.returned
    BY <1>2, <1>3, KeepFacts
  <2>4. seen = box /\ s = box.store /\ ~box.forgotten
    BY <1>2, <1>5, <2>1, <2>2, <2>3 DEF Online
  <2>5. sent.box.store = Append(box.store, m) /\ Newest(sent.out, last) = last
    BY <2>1, <2>2, <2>4, Nothing
  <2>6. Newest(Append(box.store, m), last) = Newest(box.store, last)
    BY <1>1, NewestAppend
  <2>7. Online(box)
    BY <2>1, <2>3, <2>4 DEF Online
  <2> QED
    BY <2>5, <2>6, <2>7
<1>6. CASE ~seen.offline /\ ~seen.replaying
  <2>1. sent.box = seen /\ sent.out = IF ok THEN <<m>> ELSE << >>
    BY <1>6 DEF Send
  <2>2. seen = box /\ Online(box)
    BY <1>2, <2>1 DEF Online
  <2>3. Newest(sent.out, last) = last
    BY <2>1, Nothing, One
  <2> QED
    BY <2>1, <2>2, <2>3
<1> QED
  BY <1>4, <1>5, <1>6

(* A word that the outbox took is the newest one.                          *)
LEMMA SendOut ==
  ASSUME NEW box, NEW out, NEW last, Fits(box, out, last), NEW m \in Messages, m.retain,
         None \notin Messages, NEW ok \in BOOLEAN, Online(Send(box, m, ok).box)
  PROVE  IF Send(box, m, ok).ok
         THEN Out(Send(box, m, ok).box, Newest(Send(box, m, ok).out, last), m.value)
         ELSE Send(box, m, ok).box = Observe(box) /\ Send(box, m, ok).out = << >>
<1> DEFINE sent == Send(box, m, ok)
           seen == Observe(box)
<1>1. Fits(seen, out, last)
  BY ObserveFits
<1>2. seen \in Boxes /\ Len(seen.store) <= STORE /\ seen.store \in Seq(Messages)
  BY <1>1 DEF Fits, Boxes
<1>3. CASE seen.offline
  <2> DEFINE n == [m EXCEPT !.retain = FALSE]
  <2>1. sent.box = Keep(seen, n)
    BY <1>3 DEF Send
  <2>2. n \in Messages
    BY DEF Messages
  <2> HIDE DEF n, seen
  <2>3. Keep(seen, n).offline = seen.offline
    BY <1>2, <2>2, KeepFacts
  <2> QED
    BY <1>3, <2>1, <2>3 DEF Online
<1>4. CASE ~seen.offline /\ seen.replaying
  <2>1. sent.box = Keep(seen, m) /\ sent.out = << >> /\ sent.ok = TRUE
    BY <1>4 DEF Send
  <2> HIDE DEF seen
  <2>2. PICK s \in Seq(Messages) : Keep(seen, m).store = Append(s, m)
    BY <1>2, KeepFacts
  <2>3. Newest(Append(s, m), Newest(sent.out, last)) = m
    BY NewestAppend
  <2> QED
    BY <2>1, <2>2, <2>3 DEF Out
<1>5. CASE ~seen.offline /\ ~seen.replaying
  <2>1. sent.box = seen /\ sent.out = (IF ok THEN <<m>> ELSE << >>) /\ sent.ok = ok
    BY <1>5 DEF Send
  <2> HIDE DEF seen
  <2>2. \A i \in DOMAIN seen.store : ~seen.store[i].retain
    BY <1>1, <1>5 DEF Fits
  <2>3. CASE ok
    <3>1. Newest(sent.out, last) = m
      BY <2>1, <2>3, One
    <3>2. Newest(seen.store, m) = m
      BY <1>2, <2>2, NewestIs
    <3> QED
      BY <2>1, <2>3, <3>1, <3>2 DEF Out
  <2>4. CASE ~ok
    BY <2>1, <2>4 DEF seen
  <2> QED
    BY <2>3, <2>4
<1> QED
  BY <1>3, <1>4, <1>5

LEMMA AsideRecorded ==
  ASSUME IInv, RecordedWordIsOut, NEW m \in Messages, ~m.retain, NEW ok \in BOOLEAN,
         Take(Send(outbox, m, ok)), UNCHANGED <<lastWord, connections, publishedOn>>
  PROVE  RecordedWordIsOut'
<1> DEFINE sent == Send(outbox, m, ok)
<1>1. outbox' = sent.box /\ retained' = Newest(sent.out, retained)
  BY DEF Take, Receive
<1>2. RecordedWordIsOut' <=>
        (lastWord' # None /\ publishedOn' = connections' /\ Online(outbox')
           => Out(outbox', retained', lastWord'))
  BY DEF RecordedWordIsOut, Online, Out
<1>3. Online(outbox') => /\ Online(outbox)
                         /\ Newest(outbox'.store, retained') = Newest(outbox.store, retained)
  BY <1>1, SendAside DEF IInv
<1> QED
  BY <1>2, <1>3, RecordedIs DEF Out

LEMMA BackfillRecorded ==
  ASSUME IInv, RecordedWordIsOut, Backfill, "replay" \notin Refusals
  PROVE  RecordedWordIsOut'
<1> DEFINE seen == Observe(outbox)
<1>1. UNCHANGED <<lastWord, connections, publishedOn>>
  BY DEF Backfill
<1>2. RecordedWordIsOut' <=>
        (lastWord' # None /\ publishedOn' = connections' /\ Online(outbox')
           => Out(outbox', retained', lastWord'))
  BY DEF RecordedWordIsOut, Online, Out
<1>3. outbox \in Boxes
  BY DEF IInv, Fits
<1>4. ~seen.offline /\ ~seen.returned => seen = outbox
  BY <1>3, ObserveFacts
<1>5. Online(outbox') => /\ Online(outbox)
                         /\ Newest(outbox'.store, retained') = Newest(outbox.store, retained)
  <2> HIDE DEF seen
  <2>1. CASE outbox' = seen /\ retained' = retained
    BY <1>4, <2>1 DEF Online
  <2>2. CASE \E box \in Boxes :
              /\ box.replaying /\ Replay(box) /\ ~seen.offline
              /\ box.store = seen.store /\ ~box.offline
              /\ box.returned = seen.returned
              /\ box.forgotten = seen.forgotten
    <3>1. PICK box \in Boxes :
              /\ box.replaying /\ Replay(box) /\ ~seen.offline
              /\ box.store = seen.store /\ ~box.offline
              /\ box.returned = seen.returned
              /\ box.forgotten = seen.forgotten
      BY <2>2
    <3>2. PICK n \in 0..Len(box.store), k \in Nat :
             /\ k \in {n, n + 1} /\ k <= Len(box.store)
             /\ k # n => "replay" \in Refusals
             /\ Receive(SubSeq(box.store, 1, n))
             /\ outbox' \in Boxes /\ outbox'.store = SubSeq(box.store, k + 1, Len(box.store))
             /\ outbox'.offline = box.offline /\ outbox'.returned = box.returned
             /\ outbox'.forgotten = box.forgotten
      BY <3>1, ReplayCases
    <3>3. k = n
      BY <3>2
    <3>4. box.store \in Seq(Messages)
      BY DEF Boxes
    <3>5. retained' = Newest(SubSeq(box.store, 1, n), retained)
      BY <3>2 DEF Receive
    <3>6. Newest(outbox'.store, retained') = Newest(box.store, retained)
      BY <3>2, <3>3, <3>4, <3>5, NewestSplits
    <3>7. Online(outbox') => seen = outbox /\ Online(outbox)
      BY <1>4, <3>1, <3>2 DEF Online
    <3> QED
      BY <3>1, <3>6, <3>7
  <2> QED
    BY <2>1, <2>2, BackfillCases DEF seen
<1> QED
  BY <1>1, <1>2, <1>5, RecordedIs DEF Out

LEMMA ChangedRecorded ==
  ASSUME IInv, RecordedWordIsOut, PublishChanged
  PROVE  RecordedWordIsOut'
<1> DEFINE seen == Observe(outbox)
           box == [seen EXCEPT !.returned = FALSE]
           known == IF Forget(seen) THEN None ELSE lastWord
           m == Message("word", word, TRUE)
<1>1. publishedOn' = connections /\ connections' = connections
  BY DEF PublishChanged
<1>2. RecordedWordIsOut' <=>
        (lastWord' # None /\ publishedOn' = connections' /\ Online(outbox')
           => Out(outbox', retained', lastWord'))
  BY DEF RecordedWordIsOut, Online, Out
<1>3. /\ Types /\ Fits(outbox, delivered, retained) /\ outbox \in Boxes
      /\ None \notin Messages /\ word \in Nat /\ word # None
  BY MqttAssumption DEF IInv, Fits, Types
<1>4. /\ seen \in Boxes /\ seen.offline = Dropout
      /\ ~seen.offline /\ ~seen.returned => seen = outbox
  BY <1>3, ObserveFacts
<1>5. Fits(seen, delivered, retained)
  BY <1>3, ObserveFits
<1>6. known # None => known = lastWord /\ connections = publishedOn /\ ~seen.returned
  BY DEF Forget
<1>7. \/ /\ known = word
         /\ outbox' = box /\ lastWord' = known
         /\ Receive(<< >>)
      \/ \E ok \in BOOLEAN : Take(Send(box, m, ok)) /\ lastWord' = Record(Send(box, m, ok), known)
  BY DEF PublishChanged
<1> HIDE DEF seen
<1>8. /\ box \in Boxes /\ box.offline = Dropout /\ box.store = seen.store
      /\ box.offline = seen.offline /\ box.forgotten = seen.forgotten
      /\ ~seen.returned => box = seen
      /\ Fits(box, delivered, retained)
  BY <1>4, <1>5 DEF Boxes, Fits
<1> HIDE DEF box, known
<1>9. Observe(box) = box
  BY <1>8 DEF Observe
<1>10. ASSUME outbox' = box, retained' = retained, lastWord' = known
       PROVE  RecordedWordIsOut'
  <2> SUFFICES ASSUME known # None, Online(outbox')
               PROVE  Out(outbox', retained', lastWord')
    BY <1>2, <1>10
  <2>1. box = outbox
    BY <1>4, <1>6, <1>8, <1>10 DEF Online
  <2>2. Out(outbox, retained, lastWord)
    BY <1>6, <1>10, <2>1, RecordedIs
  <2> QED
    BY <1>6, <1>10, <2>1, <2>2
<1>11. CASE known = word /\ outbox' = box /\ lastWord' = known /\ Receive(<< >>)
  <2>1. retained' = retained
    BY <1>11, Nothing DEF Receive
  <2> QED
    BY <1>10, <1>11, <2>1
<1>12. CASE \E ok \in BOOLEAN :
              Take(Send(box, m, ok)) /\ lastWord' = Record(Send(box, m, ok), known)
  <2>1. PICK ok \in BOOLEAN :
          Take(Send(box, m, ok)) /\ lastWord' = Record(Send(box, m, ok), known)
    BY <1>12
  <2> DEFINE sent == Send(box, m, ok)
  <2>2. outbox' = sent.box /\ retained' = Newest(sent.out, retained)
    BY <2>1 DEF Take, Receive
  <2>3. m \in Messages /\ m.retain /\ m.value = word
    <3>1. m = [kind |-> "word", value |-> word, run |-> run, born |-> tick, retain |-> TRUE]
      BY DEF Message
    <3>2. run \in Nat /\ tick \in Nat
      BY <1>3, Running
    <3> HIDE DEF m
    <3> QED
      BY <1>3, <3>1, <3>2 DEF Messages
  <2>4. lastWord' = IF sent.ok THEN word ELSE known
    BY <2>1 DEF Record
  <2> HIDE DEF m
  <2>5. Online(sent.box) =>
          IF sent.ok THEN Out(sent.box, Newest(sent.out, retained), m.value)
          ELSE sent.box = Observe(box) /\ sent.out = << >>
    BY <1>3, <1>8, <2>3, SendOut
  <2> HIDE DEF sent
  <2>6. CASE sent.ok
    BY <1>2, <2>2, <2>3, <2>4, <2>5, <2>6
  <2>7. CASE ~sent.ok /\ Online(sent.box)
    <3>1. outbox' = box /\ retained' = retained
      BY <1>9, <2>2, <2>5, <2>7, Nothing
    <3> QED
      BY <1>10, <2>4, <2>7, <3>1
  <2>8. CASE ~Online(sent.box)
    BY <1>2, <2>2, <2>8
  <2> QED
    BY <2>6, <2>7, <2>8
<1> QED
  BY <1>7, <1>11, <1>12

(* What is recorded as published is what a late subscriber finds, or will  *)
(* find once the store has drained, unless the client refuses a message of *)
(* a replay, which is a finding (mqtt/publisher.rs:140, mqtt/tap.rs:160).  *)
THEOREM RecordedWordsAreOut ==
  ASSUME "replay" \notin Refusals
  PROVE  MqttSpec => []RecordedWordIsOut
<1>1. MqttInit => RecordedWordIsOut
  BY DEF MqttInit, RecordedWordIsOut
<1>2. ASSUME IInv, RecordedWordIsOut, [MqttNext]_mqttVars PROVE RecordedWordIsOut'
  <2>1. CASE UNCHANGED <<outbox, retained, lastWord, connections, publishedOn>>
    BY <1>2, <2>1 DEF RecordedWordIsOut
  <2>2. CASE Reconnect
    <3>1. publishedOn' # connections'
      BY <1>2, <2>2 DEF IInv, Types, Reconnect
    <3> QED
      BY <3>1 DEF RecordedWordIsOut
  <2>3. CASE PublishCadence
    <3>1. UNCHANGED <<lastWord, connections, publishedOn>>
      BY <2>3 DEF PublishCadence
    <3>2. CASE Due
      <4> DEFINE m == Message("point", 0, FALSE)
      <4>1. PICK ok \in BOOLEAN : Take(Send(outbox, m, ok))
        BY <2>3, <3>2 DEF PublishCadence
      <4>2. Fresh(m, {}, {}) /\ ~m.retain
        <5>1. Fresh(m, {}, {})
          BY <1>2, MessageIsFresh DEF IInv
        <5> QED
          BY <5>1 DEF Message
      <4> HIDE DEF m
      <4> QED
        BY <1>2, <3>1, <4>1, <4>2, AsideRecorded DEF Fresh
    <3>3. CASE ~Due
      <4>1. outbox' = outbox /\ retained' = retained
        BY <2>3, <3>3, Nothing DEF PublishCadence, Receive
      <4> QED
        BY <2>1, <3>1, <4>1
    <3> QED
      BY <3>2, <3>3
  <2>4. CASE PublishEvents
    <3> DEFINE m == Head(batches)
    <3>1. PICK ok \in BOOLEAN : Take(Send(outbox, m, ok))
      BY <2>4 DEF PublishEvents
    <3>2. UNCHANGED <<lastWord, connections, publishedOn>> /\ batches # << >>
          /\ batches \in Seq(Messages)
      BY <1>2, <2>4 DEF PublishEvents, IInv, Types
    <3>3. 1 \in DOMAIN batches /\ m = batches[1] /\ m \in Messages
      BY <3>2
    <3> HIDE DEF m
    <3>4. ~m.retain
      BY <1>2, <3>3 DEF IInv, Channel
    <3> QED
      BY <1>2, <3>1, <3>2, <3>3, <3>4, AsideRecorded
  <2>5. CASE Tick \/ LoadScenario \/ FallBehind
    BY <2>1, <2>5 DEF Tick, LoadScenario, FallBehind
  <2> QED
    BY <1>2, <2>1, <2>2, <2>3, <2>4, <2>5, BackfillRecorded, ChangedRecorded
       DEF MqttNext, Publisher, mqttVars, broker
<1> QED
  BY <1>1, <1>2, Invariance, PTL DEF MqttSpec
=============================================================================
