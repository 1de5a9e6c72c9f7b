---------------------------- MODULE JournalProofs ----------------------------
(***************************************************************************)
(* The kernel's event stream, proved for every shape of the plant: a       *)
(* reader of the batches knows the tree, the log reads cause before        *)
(* effect, what a reset answers is what it did, and the alarm view shows   *)
(* what is there.                                                          *)
(***************************************************************************)
EXTENDS PlantProofs, AlarmView, SequenceFacts, SequenceTheorems

(* What a reader who was never contradicted knows.                         *)
Knows(w, p) == [word |-> w, pcs |-> p, honest |-> TRUE]

Bits == UNION {ToSet(Layout(n)) : n \in Nodes}
WordMaps == {w \in [Nodes -> SUBSET Bits] : \A n \in Nodes : w[n] \subseteq ToSet(Layout(n))}
PcsMaps == [Blocks -> PcsOpState]

AlarmEvents == [kind : {"raised", "cleared"}, node : Nodes, bit : Bits]
PcsEvents == [kind : {"pcs"}, block : Blocks, from : PcsOpState, to : PcsOpState]
Marks == [kind : {"applied"}, action : FaultNames, node : Nodes \cup Containers]

LEMMA EventKinds ==
  /\ Events = AlarmEvents \cup PcsEvents \cup Marks
  /\ \A S \in SUBSET Events : Seq(S) \subseteq Seq(Events)
BY DEF Events, AlarmEvents, PcsEvents, Marks, Bits

-----------------------------------------------------------------------------
(* What HearFrom computes.                                                 *)

Hears(f, h, events, n) ==
  f = [i \in 0..n |-> IF i = 0 THEN h ELSE Hear(f[i - 1], events[i])]

LEMMA HearingExists ==
  ASSUME NEW h, NEW events
  PROVE  \A n \in Nat : \E f : Hears(f, h, events, n)
<1> DEFINE S == {n \in Nat : \E f : Hears(f, h, events, n)}
<1>1. 0 \in S
  <2>1. Hears([i \in 0..0 |-> h], h, events, 0)
    BY DEF Hears
  <2> QED
    BY <2>1
<1>2. ASSUME NEW n \in Nat, n \in S PROVE n + 1 \in S
  <2>1. PICK f : Hears(f, h, events, n)
    BY <1>2
  <2> DEFINE g == [i \in 0..(n + 1) |-> IF i = n + 1 THEN Hear(f[n], events[n + 1]) ELSE f[i]]
  <2>2. \A i \in 0..n : g[i] = f[i]
    OBVIOUS
  <2>3. ASSUME NEW i \in 0..(n + 1)
        PROVE  g[i] = IF i = 0 THEN h ELSE Hear(g[i - 1], events[i])
    <3>1. CASE i = n + 1
      <4>1. g[i] = Hear(f[n], events[i]) /\ i # 0
        BY <3>1
      <4>2. i - 1 = n /\ n \in 0..n /\ g[i - 1] = f[n]
        BY <2>2, <3>1
      <4> HIDE DEF g
      <4> QED
        BY <4>1, <4>2
    <3>2. CASE i # n + 1
      <4>1. i \in 0..n /\ g[i] = f[i] /\ (i # 0 => i - 1 \in 0..n /\ g[i - 1] = f[i - 1])
        BY <2>2, <3>2
      <4>2. f[i] = IF i = 0 THEN h ELSE Hear(f[i - 1], events[i])
        BY <2>1, <4>1 DEF Hears
      <4> HIDE DEF g
      <4> QED
        BY <4>1, <4>2
    <3> QED
      BY <3>1, <3>2
  <2>4. g = [i \in 0..(n + 1) |-> g[i]]
    OBVIOUS
  <2>5. Hears(g, h, events, n + 1)
    <3> HIDE DEF g
    <3> QED
      BY <2>3, <2>4 DEF Hears
  <2> HIDE DEF g
  <2> QED
    BY <2>5
<1>3. Nat \subseteq S
  <2> HIDE DEF S
  <2> QED
    BY <1>1, <1>2, NatSetInduction
<1> QED
  BY <1>3

(* Any run over the events ends where HearFrom does.                       *)
LEMMA HearingIsUnique ==
  ASSUME NEW h, NEW events, Len(events) \in Nat, NEW f, f[0] = h,
         \A i \in 1..Len(events) : f[i] = Hear(f[i - 1], events[i])
  PROVE  HearFrom(h, events) = f[Len(events)]
<1> DEFINE n == Len(events)
           g == CHOOSE k : k = [i \in 0..n |-> IF i = 0 THEN h ELSE Hear(k[i - 1], events[i])]
<1>1. Hears(g, h, events, n)
  <2>1. \E k : k = [i \in 0..n |-> IF i = 0 THEN h ELSE Hear(k[i - 1], events[i])]
    <3>1. PICK k : Hears(k, h, events, n)
      BY HearingExists
    <3> QED
      BY <3>1 DEF Hears
  <2> QED
    BY <2>1 DEF Hears
<1>2. HearFrom(h, events) = g[n]
  BY DEF HearFrom
<1> HIDE DEF g
<1>3. \A i \in 0..n : g[i] = IF i = 0 THEN h ELSE Hear(g[i - 1], events[i])
  BY <1>1 DEF Hears
<1> DEFINE S == {i \in Nat : i <= n => g[i] = f[i]}
<1>4. 0 \in S
  BY <1>3
<1>5. ASSUME NEW i \in Nat, i \in S PROVE i + 1 \in S
  <2> SUFFICES ASSUME i + 1 <= n PROVE g[i + 1] = f[i + 1]
    OBVIOUS
  <2> DEFINE j == i + 1
  <2>1. j \in 0..n /\ j \in 1..n /\ j # 0 /\ j - 1 = i /\ i <= n
    OBVIOUS
  <2>2. g[i] = f[i]
    BY <1>5, <2>1
  <2> HIDE DEF j
  <2>3. g[j] = f[j]
    BY <1>3, <2>1, <2>2
  <2> QED
    BY <2>3 DEF j
<1>6. Nat \subseteq S
  <2> HIDE DEF S
  <2> QED
    BY <1>4, <1>5, NatSetInduction
<1> QED
  BY <1>2, <1>6

LEMMA HearNone == ASSUME NEW h PROVE HearFrom(h, << >>) = h
<1> DEFINE f == [i \in 0..0 |-> h]
<1>1. f[0] = h /\ Len(<< >>) = 0
  OBVIOUS
<1>2. \A i \in 1..0 : f[i] = Hear(f[i - 1], << >>[i])
  OBVIOUS
<1> HIDE DEF f
<1> QED
  BY <1>1, <1>2, HearingIsUnique

LEMMA HearOne == ASSUME NEW h, NEW e PROVE HearFrom(h, <<e>>) = Hear(h, e)
<1> DEFINE f == [i \in 0..1 |-> IF i = 0 THEN h ELSE Hear(h, e)]
<1>1. f[0] = h /\ f[1] = Hear(h, e) /\ Len(<<e>>) = 1
  OBVIOUS
<1>2. \A i \in 1..1 : f[i] = Hear(f[i - 1], <<e>>[i])
  <2>1. \A i \in 1..1 : i = 1 /\ i - 1 = 0
    OBVIOUS
  <2>2. <<e>>[1] = e
    OBVIOUS
  <2> HIDE DEF f
  <2> QED
    BY <1>1, <2>1, <2>2
<1> HIDE DEF f
<1> QED
  BY <1>1, <1>2, HearingIsUnique

(* A reader may stop between two batches.                                  *)
LEMMA HearConcat ==
  ASSUME NEW h, NEW S, NEW a \in Seq(S), NEW b \in Seq(S)
  PROVE  HearFrom(h, a \o b) = HearFrom(HearFrom(h, a), b)
<1> DEFINE m == Len(a)
           n == Len(b)
           ab == a \o b
<1>1. m \in Nat /\ n \in Nat
  OBVIOUS
<1>2. PICK f : Hears(f, h, a, m)
  BY <1>1, HearingExists
<1>3. f[0] = h /\ \A i \in 1..m : f[i] = Hear(f[i - 1], a[i])
  BY <1>1, <1>2 DEF Hears
<1>4. HearFrom(h, a) = f[m]
  BY <1>1, <1>3, HearingIsUnique
<1>5. PICK g : Hears(g, f[m], b, n)
  BY <1>1, HearingExists
<1>6. g[0] = f[m] /\ \A i \in 1..n : g[i] = Hear(g[i - 1], b[i])
  BY <1>1, <1>5 DEF Hears
<1>7. HearFrom(f[m], b) = g[n]
  BY <1>1, <1>6, HearingIsUnique
<1> DEFINE k == [i \in 0..(m + n) |-> IF i <= m THEN f[i] ELSE g[i - m]]
<1>8. Len(ab) = m + n
  BY ConcatFacts
<1>9. k[0] = h
  BY <1>1, <1>3
<1>10. ASSUME NEW i \in 1..(m + n) PROVE k[i] = Hear(k[i - 1], ab[i])
  <2>1. CASE i <= m
    <3>1. ab[i] = a[i] /\ i \in 1..m
      BY <2>1, ConcatFacts
    <3>2. k[i] = f[i] /\ k[i - 1] = f[i - 1]
      BY <1>1, <2>1
    <3> HIDE DEF k, ab
    <3> QED
      BY <1>3, <3>1, <3>2
  <2>2. CASE ~(i <= m)
    <3> DEFINE j == i - m
    <3>1. j \in 1..n /\ i = m + j /\ i - 1 = m + (j - 1) /\ j - 1 \in 0..n
      BY <1>1, <2>2
    <3>2. ab[i] = b[j]
      <4>1. j \in DOMAIN b
        BY <3>1
      <4>2. ab[m + j] = b[j]
        BY <4>1, ConcatFacts
      <4> QED
        BY <3>1, <4>2
    <3>3. k[i] = g[j]
      BY <1>1, <2>2
    <3>4. k[i - 1] = g[j - 1]
      <4>1. CASE j = 1
        <5>1. i - 1 = m /\ m \in 0..(m + n) /\ j - 1 = 0
          BY <1>1, <3>1, <4>1
        <5>2. k[m] = f[m]
          BY <5>1
        <5> HIDE DEF k, j
        <5> QED
          BY <1>6, <5>1, <5>2
      <4>2. CASE j # 1
        <5>1. ~(i - 1 <= m) /\ i - 1 \in 0..(m + n) /\ (i - 1) - m = j - 1
          BY <1>1, <3>1, <4>2
        <5> QED
          BY <5>1
      <4> QED
        BY <4>1, <4>2
    <3> HIDE DEF k, ab, j
    <3> QED
      BY <1>6, <3>1, <3>2, <3>3, <3>4
  <2> QED
    BY <2>1, <2>2
<1>11. k[m + n] = g[n]
  <2>1. CASE n = 0
    BY <1>1, <1>6, <2>1
  <2>2. CASE n # 0
    BY <1>1, <2>2
  <2> QED
    BY <2>1, <2>2
<1> HIDE DEF k, ab
<1>12. HearFrom(h, ab) = k[Len(ab)]
  <2>1. Len(ab) \in Nat /\ \A i \in 1..Len(ab) : k[i] = Hear(k[i - 1], ab[i])
    BY <1>1, <1>8, <1>10
  <2> HIDE DEF m, n
  <2> QED
    BY <1>9, <2>1, HearingIsUnique
<1> QED
  BY <1>4, <1>7, <1>8, <1>11, <1>12 DEF ab

-----------------------------------------------------------------------------
(* Hearing `events', a reader who knew h knows k.                          *)
Leads(h, events, k) == events \in Seq(Events) /\ HearFrom(h, events) = k

LEMMA LeadsNowhere == ASSUME NEW h PROVE Leads(h, << >>, h)
BY HearNone DEF Leads

LEMMA LeadsOn ==
  ASSUME NEW h, NEW k, NEW l, NEW a, NEW b, Leads(h, a, k), Leads(k, b, l)
  PROVE  Leads(h, a \o b, l)
<1>1. a \in Seq(Events) /\ b \in Seq(Events)
  BY DEF Leads
<1>2. a \o b \in Seq(Events)
  BY <1>1
<1>3. HearFrom(h, a \o b) = HearFrom(HearFrom(h, a), b)
  BY <1>1, HearConcat
<1> QED
  BY <1>2, <1>3 DEF Leads

(* A loop over n members, the i-th of which takes the reader from          *)
(* mid[i - 1] to mid[i].                                                   *)
LEMMA LeadsOver ==
  ASSUME NEW n \in Nat \ {0}, NEW seqs, Len(seqs) = n, NEW mid,
         \A i \in 1..n : Leads(mid[i - 1], seqs[i], mid[i])
  PROVE  Leads(mid[0], FlattenSeq(seqs), mid[n])
<1> DEFINE R == {r \in Nat \X Seq(Events) : r[1] \in 1..n /\ Leads(mid[0], r[2], mid[r[1]])}
<1>1. <<1, seqs[1]>> \in R
  <2>1. 1 \in 1..n /\ 1 - 1 = 0
    OBVIOUS
  <2>2. Leads(mid[0], seqs[1], mid[1])
    BY <2>1
  <2> QED
    BY <2>1, <2>2 DEF Leads
<1>2. ASSUME NEW i \in 1..(n - 1), NEW s, <<i, s>> \in R
      PROVE  <<i + 1, s \o seqs[i + 1]>> \in R
  <2> DEFINE j == i + 1
  <2>1. j \in 1..n /\ j \in Nat /\ j - 1 = i
    OBVIOUS
  <2>2. Leads(mid[0], s, mid[i])
    BY <1>2
  <2> HIDE DEF j
  <2>3. Leads(mid[i], seqs[j], mid[j])
    BY <2>1
  <2>4. Leads(mid[0], s \o seqs[j], mid[j])
    BY <2>2, <2>3, LeadsOn
  <2> DEFINE t == s \o seqs[j]
  <2>5. t \in Seq(Events)
    BY <2>4 DEF Leads
  <2>6. Leads(mid[0], t, mid[j])
    BY <2>4
  <2> HIDE DEF t
  <2>7. <<j, t>> \in R
    BY <2>1, <2>5, <2>6
  <2> QED
    BY <2>7 DEF t, j
<1>3. <<n, FlattenSeq(seqs)>> \in R
  <2> HIDE DEF R
  <2> QED
    BY <1>1, <1>2, FlattenLoop
<1> QED
  BY <1>3

-----------------------------------------------------------------------------
(* What each event does to a reader whom it does not contradict.           *)

LEMMA HearApplied ==
  ASSUME NEW h, NEW action, NEW node PROVE Hear(h, Applied(action, node)) = h
BY DEF Hear, Applied

LEMMA LayoutFacts ==
  ASSUME NEW n \in Nodes
  PROVE  /\ Len(Layout(n)) \in Nat \ {0}
         /\ \A i, j \in 1..Len(Layout(n)) : Layout(n)[i] = Layout(n)[j] => i = j
         /\ ToSet(Layout(n)) = {Layout(n)[i] : i \in 1..Len(Layout(n))}
         /\ ToSet(Layout(n)) \subseteq Bits
<1>1. Len(SiteLayout) = 4 /\ Len(BlockLayout) = 5 /\ Len(RackLayout) = 3
  BY DEF SiteLayout, BlockLayout, RackLayout
<1>2. \A i, j \in 1..4 : SiteLayout[i] = SiteLayout[j] => i = j
  BY DEF SiteLayout
<1>3. \A i, j \in 1..5 : BlockLayout[i] = BlockLayout[j] => i = j
  BY DEF BlockLayout
<1>4. \A i, j \in 1..3 : RackLayout[i] = RackLayout[j] => i = j
  BY DEF RackLayout
<1>5. /\ DOMAIN SiteLayout = 1..4 /\ DOMAIN BlockLayout = 1..5 /\ DOMAIN RackLayout = 1..3
  BY DEF SiteLayout, BlockLayout, RackLayout
<1>6. Layout(n) \in {SiteLayout, BlockLayout, RackLayout}
  BY DEF Layout
<1>7. ToSet(Layout(n)) \subseteq Bits
  BY DEF Bits
<1>8. \E k \in {3, 4, 5} :
        /\ Len(Layout(n)) = k /\ DOMAIN Layout(n) = 1..k
        /\ \A i, j \in 1..k : Layout(n)[i] = Layout(n)[j] => i = j
  <2>1. CASE Layout(n) = SiteLayout
    BY <1>1, <1>2, <1>5, <2>1
  <2>2. CASE Layout(n) = BlockLayout
    BY <1>1, <1>3, <1>5, <2>2
  <2>3. CASE Layout(n) = RackLayout
    BY <1>1, <1>4, <1>5, <2>3
  <2> QED
    BY <1>6, <2>1, <2>2, <2>3
<1> QED
  BY <1>7, <1>8 DEF ToSet

(* One bit of a word: the reader learns it, and no other.                  *)
LEMMA TellBit ==
  ASSUME NEW w \in [Nodes -> SUBSET Bits], NEW p, NEW n \in Nodes, NEW bit \in Bits,
         NEW old, NEW new, bit \in w[n] <=> bit \in old
  PROVE  Leads(Knows(w, p), PushChange(n, bit, old, new),
               Knows([w EXCEPT ![n] = (@ \ {bit}) \cup (new \cap {bit})], p))
<1> DEFINE after == [w EXCEPT ![n] = (@ \ {bit}) \cup (new \cap {bit})]
<1>1. CASE bit \in new \ old
  <2>1. after = [w EXCEPT ![n] = @ \cup {bit}]
    BY <1>1
  <2>2. <<Raised(n, bit)>> \in Seq(Events)
    BY EventKinds DEF Raised, AlarmEvents
  <2>3. PushChange(n, bit, old, new) = <<Raised(n, bit)>>
    BY <1>1 DEF PushChange
  <2>4. HearFrom(Knows(w, p), <<Raised(n, bit)>>) = Knows([w EXCEPT ![n] = @ \cup {bit}], p)
    <3>1. bit \notin w[n] /\ DOMAIN w = Nodes
      BY <1>1
    <3>2. HearFrom(Knows(w, p), <<Raised(n, bit)>>) = Hear(Knows(w, p), Raised(n, bit))
      BY HearOne
    <3>3. Hear(Knows(w, p), Raised(n, bit)) = Knows([w EXCEPT ![n] = @ \cup {bit}], p)
      BY <3>1 DEF Hear, Knows, Raised
    <3> QED
      BY <3>2, <3>3
  <2> HIDE DEF after
  <2> QED
    BY <2>1, <2>2, <2>3, <2>4 DEF Leads, after
<1>2. CASE bit \in old \ new
  <2>1. after = [w EXCEPT ![n] = @ \ {bit}]
    BY <1>2
  <2>2. <<Cleared(n, bit)>> \in Seq(Events)
    BY EventKinds DEF Cleared, AlarmEvents
  <2>3. PushChange(n, bit, old, new) = <<Cleared(n, bit)>>
    BY <1>2 DEF PushChange
  <2>4. HearFrom(Knows(w, p), <<Cleared(n, bit)>>) = Knows([w EXCEPT ![n] = @ \ {bit}], p)
    <3>1. bit \in w[n] /\ DOMAIN w = Nodes
      BY <1>2
    <3>2. HearFrom(Knows(w, p), <<Cleared(n, bit)>>) = Hear(Knows(w, p), Cleared(n, bit))
      BY HearOne
    <3>3. Hear(Knows(w, p), Cleared(n, bit)) = Knows([w EXCEPT ![n] = @ \ {bit}], p)
      BY <3>1 DEF Hear, Knows, Cleared
    <3> QED
      BY <3>2, <3>3
  <2> HIDE DEF after
  <2> QED
    BY <2>1, <2>2, <2>3, <2>4 DEF Leads, after
<1>3. CASE bit \in old <=> bit \in new
  <2>1. after = w
    <3>1. (w[n] \ {bit}) \cup (new \cap {bit}) = w[n]
      BY <1>3
    <3> QED
      BY <3>1
  <2>2. PushChange(n, bit, old, new) = << >>
    BY <1>3 DEF PushChange
  <2> HIDE DEF after
  <2> QED
    BY <2>1, <2>2, LeadsNowhere DEF after
<1> QED
  BY <1>1, <1>2, <1>3

(* A word: after i bits the reader has those of the new word, and of the   *)
(* old one the rest.                                                       *)
LEMMA TellWord ==
  ASSUME NEW w \in WordMaps, NEW p, NEW n \in Nodes, NEW new, new \subseteq ToSet(Layout(n))
  PROVE  Leads(Knows(w, p), PushChanges(n, w[n], new), Knows([w EXCEPT ![n] = new], p))
<1>1. DOMAIN w = Nodes /\ w[n] \subseteq ToSet(Layout(n))
  BY DEF WordMaps
<1>2. CASE w[n] = new
  <2>1. PushChanges(n, w[n], new) = << >> /\ [w EXCEPT ![n] = new] = w
    BY <1>1, <1>2 DEF PushChanges, WordMaps
  <2> QED
    BY <2>1, LeadsNowhere
<1>3. CASE w[n] # new
  <2> DEFINE L == Layout(n)
             N == Len(L)
             Mid(i) == {bit \in ToSet(L) : \E j \in 1..N :
                          L[j] = bit /\ bit \in IF j <= i THEN new ELSE w[n]}
             mid == [i \in 0..N |-> Knows([w EXCEPT ![n] = Mid(i)], p)]
             seqs == [i \in 1..N |-> PushChange(n, L[i], w[n], new)]
  <2>1. /\ N \in Nat \ {0} /\ ToSet(L) = {L[i] : i \in 1..N} /\ ToSet(L) \subseteq Bits
        /\ \A i, j \in 1..N : L[i] = L[j] => i = j
    BY LayoutFacts
  <2> HIDE DEF L, N
  <2>2. ASSUME NEW i \in 0..N
        PROVE  \A j \in 1..N : L[j] \in Mid(i) <=> L[j] \in IF j <= i THEN new ELSE w[n]
    BY <2>1
  <2>3. \A i \in 0..N : Mid(i) \subseteq ToSet(L)
    OBVIOUS
  <2>4. Mid(0) = w[n] /\ Mid(N) = new
    <3>1. \A i \in 0..N : 0 <= i /\ (\A j \in 1..N : j <= N /\ ~(j <= 0))
      BY <2>1
    <3>2. 0 \in 0..N /\ N \in 0..N
      BY <2>1
    <3>3. ToSet(L) = ToSet(Layout(n))
      BY DEF L
    <3>4. \A j \in 1..N : (L[j] \in Mid(0) <=> L[j] \in w[n]) /\ (L[j] \in Mid(N) <=> L[j] \in new)
      BY <2>2, <3>1, <3>2
    <3>5. Mid(0) \subseteq ToSet(L) /\ Mid(N) \subseteq ToSet(L)
      BY <2>3, <3>2
    <3> HIDE DEF Mid
    <3>6. \A x \in ToSet(L) : (x \in Mid(0) <=> x \in w[n]) /\ (x \in Mid(N) <=> x \in new)
      BY <2>1, <3>4
    <3>7. w[n] \subseteq ToSet(L) /\ new \subseteq ToSet(L)
      BY <1>1, <3>3
    <3>8. \A x : (x \in Mid(0) <=> x \in w[n]) /\ (x \in Mid(N) <=> x \in new)
      BY <3>5, <3>6, <3>7
    <3> QED
      BY <3>8
  <2>5. ASSUME NEW i \in 1..N PROVE Leads(mid[i - 1], seqs[i], mid[i])
    <3> DEFINE k == i - 1
               v == [w EXCEPT ![n] = Mid(k)]
    <3>1. k \in 0..N /\ i \in 0..N /\ L[i] \in Bits /\ ~(i <= k)
          /\ \A j \in 1..N : j # i => (j <= i <=> j <= k)
      BY <2>1
    <3> HIDE DEF k
    <3>2. Mid(i) = (Mid(k) \ {L[i]}) \cup (new \cap {L[i]})
      <4>1. \A j \in 1..N : L[j] \in Mid(i) <=> L[j] \in (Mid(k) \ {L[i]}) \cup (new \cap {L[i]})
        <5>1. \A j \in 1..N : j # i => L[j] # L[i]
          BY <2>1
        <5>2. \A j \in 1..N : (L[j] \in Mid(i) <=> L[j] \in IF j <= i THEN new ELSE w[n])
                             /\ (L[j] \in Mid(k) <=> L[j] \in IF j <= k THEN new ELSE w[n])
          BY <2>2, <3>1
        <5>3. i <= i
          OBVIOUS
        <5> HIDE DEF Mid
        <5> QED
          BY <3>1, <5>1, <5>2, <5>3
      <4>2. Mid(i) \subseteq ToSet(L) /\ Mid(k) \subseteq ToSet(L) /\ L[i] \in ToSet(L)
        BY <2>1, <2>3, <3>1
      <4> HIDE DEF Mid
      <4> QED
        BY <2>1, <4>1, <4>2
    <3>3. L[i] \in Mid(k) <=> L[i] \in w[n]
      BY <2>2, <3>1
    <3>4. v \in [Nodes -> SUBSET Bits] /\ v[n] = Mid(k)
      <4>1. Mid(k) \in SUBSET Bits
        BY <2>1, <2>3, <3>1
      <4>2. w \in [Nodes -> SUBSET Bits]
        BY DEF WordMaps
      <4> QED
        BY <4>1, <4>2
    <3> HIDE DEF Mid
    <3>5. [v EXCEPT ![n] = (@ \ {L[i]}) \cup (new \cap {L[i]})] = [w EXCEPT ![n] = Mid(i)]
      BY <1>1, <3>2, <3>4
    <3> HIDE DEF v
    <3>6. Leads(Knows(v, p), PushChange(n, L[i], w[n], new), Knows([w EXCEPT ![n] = Mid(i)], p))
      <4>1. L[i] \in v[n] <=> L[i] \in w[n]
        BY <3>3, <3>4
      <4>2. L[i] \in Bits /\ v \in [Nodes -> SUBSET Bits]
        BY <3>1, <3>4
      <4>3. Leads(Knows(v, p), PushChange(n, L[i], w[n], new),
                  Knows([v EXCEPT ![n] = (@ \ {L[i]}) \cup (new \cap {L[i]})], p))
        BY <4>1, <4>2, TellBit
      <4> QED
        BY <3>5, <4>3
    <3>7. mid[k] = Knows(v, p) /\ mid[i] = Knows([w EXCEPT ![n] = Mid(i)], p)
      BY <3>1 DEF v
    <3>8. seqs[i] = PushChange(n, L[i], w[n], new)
      OBVIOUS
    <3> HIDE DEF mid, seqs
    <3> QED
      BY <3>6, <3>7, <3>8 DEF k
  <2>6. Len(seqs) = N
    BY <2>1
  <2>7. PushChanges(n, w[n], new) = FlattenSeq(seqs)
    BY <1>3 DEF PushChanges, L, N
  <2>8. mid[0] = Knows(w, p) /\ mid[N] = Knows([w EXCEPT ![n] = new], p)
    <3>1. 0 \in 0..N /\ N \in 0..N
      BY <2>1
    <3>2. [w EXCEPT ![n] = w[n]] = w
      BY DEF WordMaps
    <3> HIDE DEF Mid
    <3> QED
      BY <2>4, <3>1, <3>2
  <2> HIDE DEF mid, seqs
  <2>9. Leads(mid[0], FlattenSeq(seqs), mid[N])
    BY <2>1, <2>5, <2>6, LeadsOver
  <2> QED
    BY <2>7, <2>8, <2>9
<1> QED
  BY <1>2, <1>3

-----------------------------------------------------------------------------
(* A pass over the plant.  On the way the reader knows the new words of    *)
(* the nodes in D and the new states of the converters in E.               *)
Merge(w, w2, D) == [n \in Nodes |-> IF n \in D THEN w2[n] ELSE w[n]]
MergePcs(p, p2, E) == [b \in Blocks |-> IF b \in E THEN p2[b] ELSE p[b]]
Part(w, w2, p, p2, D, E) == Knows(Merge(w, w2, D), MergePcs(p, p2, E))

LEMMA MergeFacts ==
  ASSUME NEW w \in WordMaps, NEW w2 \in WordMaps, NEW D
  PROVE  /\ Merge(w, w2, D) \in WordMaps
         /\ Merge(w, w2, {}) = w /\ Merge(w, w2, Nodes) = w2 /\ Merge(w, w, D) = w
BY DEF Merge, WordMaps

LEMMA MergePcsFacts ==
  ASSUME NEW p \in PcsMaps, NEW p2 \in PcsMaps, NEW E
  PROVE  /\ MergePcs(p, p2, E) \in PcsMaps
         /\ MergePcs(p, p2, {}) = p /\ MergePcs(p, p2, Blocks) = p2 /\ MergePcs(p, p, E) = p
BY DEF MergePcs, PcsMaps

LEMMA TellNode ==
  ASSUME NEW w \in WordMaps, NEW w2 \in WordMaps, NEW p, NEW p2, NEW D, NEW E,
         NEW n \in Nodes \ D
  PROVE  Leads(Part(w, w2, p, p2, D, E), PushChanges(n, w[n], w2[n]),
               Part(w, w2, p, p2, D \cup {n}, E))
<1> DEFINE v == Merge(w, w2, D)
           q == MergePcs(p, p2, E)
<1>1. v \in WordMaps /\ v[n] = w[n] /\ [v EXCEPT ![n] = w2[n]] = Merge(w, w2, D \cup {n})
  BY MergeFacts DEF Merge, WordMaps
<1>2. w2[n] \subseteq ToSet(Layout(n))
  BY DEF WordMaps
<1> HIDE DEF v, q
<1>3. Leads(Knows(v, q), PushChanges(n, v[n], w2[n]), Knows([v EXCEPT ![n] = w2[n]], q))
  BY <1>1, <1>2, TellWord
<1> QED
  BY <1>1, <1>3 DEF Part, v, q

LEMMA TellPcs ==
  ASSUME NEW w, NEW w2, NEW p \in PcsMaps, NEW p2 \in PcsMaps, NEW D, NEW E,
         NEW b \in Blocks \ E
  PROVE  Leads(Part(w, w2, p, p2, D, E), PushPcs(b, p[b], p2[b]),
               Part(w, w2, p, p2, D, E \cup {b}))
<1> DEFINE v == Merge(w, w2, D)
           q == MergePcs(p, p2, E)
<1>1. q \in PcsMaps /\ q[b] = p[b] /\ [q EXCEPT ![b] = p2[b]] = MergePcs(p, p2, E \cup {b})
  BY MergePcsFacts DEF MergePcs, PcsMaps
<1> HIDE DEF v, q
<1>2. CASE p[b] = p2[b]
  <2>1. PushPcs(b, p[b], p2[b]) = << >> /\ [q EXCEPT ![b] = p2[b]] = q
    BY <1>1, <1>2 DEF PushPcs, PcsMaps
  <2>2. Leads(Knows(v, q), << >>, Knows(v, q))
    BY LeadsNowhere
  <2> QED
    BY <1>1, <2>1, <2>2 DEF Part, v, q
<1>3. CASE p[b] # p2[b]
  <2> DEFINE e == PcsChanged(b, p[b], p2[b])
  <2>1. PushPcs(b, p[b], p2[b]) = <<e>>
    BY <1>3 DEF PushPcs
  <2>2. <<e>> \in Seq(Events)
    <3>1. e \in PcsEvents
      BY DEF PcsChanged, PcsEvents, PcsMaps
    <3> HIDE DEF e
    <3> QED
      BY <3>1, EventKinds
  <2>3. Hear(Knows(v, q), e) = Knows(v, [q EXCEPT ![b] = p2[b]])
    BY <1>1 DEF Hear, Knows, PcsChanged, PcsMaps
  <2>4. HearFrom(Knows(v, q), <<e>>) = Hear(Knows(v, q), e)
    BY HearOne
  <2> HIDE DEF e
  <2>5. Leads(Knows(v, q), <<e>>, Knows(v, MergePcs(p, p2, E \cup {b})))
    BY <1>1, <2>2, <2>3, <2>4 DEF Leads
  <2> QED
    BY <2>1, <2>5 DEF Part, v, q
<1> QED
  BY <1>2, <1>3

-----------------------------------------------------------------------------
(* The racks of a block, in the order of OverRacks.                        *)
RackAt(b, i) == <<b, (i - 1) \div NRacks, (i - 1) % NRacks>>
RacksOf(b) == {r \in Racks : r[1] = b}
TellsRacks(b, w, w2) ==
  FlattenSeq([i \in 1..(NContainers * NRacks) |->
                PushChanges(RackAt(b, i), w[RackAt(b, i)], w2[RackAt(b, i)])])

LEMMA RackOrder ==
  ASSUME NEW b \in Blocks
  PROVE  /\ NContainers * NRacks \in Nat \ {0}
         /\ \A i, j \in 1..(NContainers * NRacks) : RackAt(b, i) = RackAt(b, j) => i = j
         /\ {RackAt(b, i) : i \in 1..(NContainers * NRacks)} = RacksOf(b)
<1> USE PlantAssumption
<1>1. NContainers * NRacks \in Nat \ {0}
  OBVIOUS
<1>2. \A i, j \in 1..(NContainers * NRacks) : RackAt(b, i) = RackAt(b, j) => i = j
  <2> SUFFICES ASSUME NEW i \in 1..(NContainers * NRacks), NEW j \in 1..(NContainers * NRacks),
                      RackAt(b, i) = RackAt(b, j)
               PROVE  i = j
    OBVIOUS
  <2>1. (i - 1) \div NRacks = (j - 1) \div NRacks /\ (i - 1) % NRacks = (j - 1) % NRacks
    BY DEF RackAt
  <2>2. i - 1 \in Nat /\ j - 1 \in Nat
    BY <1>1
  <2>3. /\ i - 1 = NRacks * ((i - 1) \div NRacks) + ((i - 1) % NRacks)
        /\ j - 1 = NRacks * ((j - 1) \div NRacks) + ((j - 1) % NRacks)
    BY <2>2, DivMod
  <2>4. i - 1 = j - 1
    BY <2>1, <2>3
  <2> QED
    BY <2>4
<1>3. ASSUME NEW i \in 1..(NContainers * NRacks) PROVE RackAt(b, i) \in RacksOf(b)
  <2> DEFINE q == (i - 1) \div NRacks
             m == (i - 1) % NRacks
  <2>1. i - 1 \in Nat /\ i - 1 < NContainers * NRacks
    BY <1>1
  <2>2. q \in Nat /\ m \in 0..(NRacks - 1) /\ i - 1 = NRacks * q + m
    BY <2>1, DivMod
  <2> HIDE DEF q, m
  <2>3. q < NContainers
    <3> SUFFICES ASSUME q >= NContainers PROVE FALSE
      BY <2>2
    <3>1. PICK d \in Nat : q = NContainers + d
      <4>1. q - NContainers \in Nat /\ q = NContainers + (q - NContainers)
        BY <2>2
      <4> QED
        BY <4>1
    <3>2. NRacks * q = NContainers * NRacks + NRacks * d /\ NRacks * d >= 0
      BY <3>1
    <3>3. NContainers * NRacks \in Int /\ NRacks * d \in Int /\ NRacks * q \in Int
      BY <2>2
    <3> QED
      BY <2>1, <2>2, <3>2, <3>3
  <2>4. <<b, q, m>> \in Racks
    BY <2>2, <2>3 DEF Racks
  <2> QED
    BY <2>4 DEF RackAt, RacksOf, q, m
<1>4. ASSUME NEW r \in RacksOf(b) PROVE \E i \in 1..(NContainers * NRacks) : r = RackAt(b, i)
  <2>1. PICK c \in 0..(NContainers - 1), k \in 0..(NRacks - 1) : r = <<b, c, k>>
    BY DEF RacksOf, Racks
  <2> DEFINE x == NRacks * c + k
  <2>2. x \in Nat /\ x < NContainers * NRacks
    <3>1. PICK d \in Nat : NContainers = c + 1 + d
      <4>1. NContainers - c - 1 \in Nat /\ NContainers = c + 1 + (NContainers - c - 1)
        OBVIOUS
      <4> QED
        BY <4>1
    <3>2. NContainers * NRacks = NRacks * c + NRacks + d * NRacks /\ d * NRacks >= 0 /\ NRacks * c >= 0
      BY <3>1
    <3>3. NRacks * c \in Int /\ d * NRacks \in Int
      OBVIOUS
    <3> QED
      BY <3>2, <3>3
  <2>3. x \div NRacks = c /\ x % NRacks = k
    OBVIOUS
  <2> HIDE DEF x
  <2>4. x + 1 \in 1..(NContainers * NRacks) /\ (x + 1) - 1 = x
    BY <1>1, <2>2
  <2> QED
    BY <2>1, <2>3, <2>4 DEF RackAt
<1> QED
  BY <1>1, <1>2, <1>3, <1>4

LEMMA NodeKinds ==
  /\ \A b \in Blocks : <<b>> \in Nodes /\ RacksOf(b) \subseteq Racks /\ <<b>> \notin Racks
  /\ Racks \subseteq Nodes
  /\ Site \in Nodes /\ Site \notin Racks /\ \A b \in Blocks : <<b>> # Site
<1>1. \A r \in Racks : Len(r) = 3
  BY DEF Racks
<1>2. \A b \in Blocks : Len(<<b>>) = 1
  OBVIOUS
<1>3. Len(Site) = 0
  BY DEF Site
<1> QED
  BY <1>1, <1>2, <1>3 DEF Nodes, RacksOf

LEMMA TellRacks ==
  ASSUME NEW w \in WordMaps, NEW w2 \in WordMaps, NEW p, NEW p2, NEW D, NEW E,
         NEW b \in Blocks, RacksOf(b) \cap D = {}
  PROVE  Leads(Part(w, w2, p, p2, D, E), TellsRacks(b, w, w2),
               Part(w, w2, p, p2, D \cup RacksOf(b), E))
<1> DEFINE N == NContainers * NRacks
           Seen(i) == D \cup {RackAt(b, j) : j \in 1..i}
           mid == [i \in 0..N |-> Part(w, w2, p, p2, Seen(i), E)]
           seqs == [i \in 1..N |->
                      PushChanges(RackAt(b, i), w[RackAt(b, i)], w2[RackAt(b, i)])]
<1>1. /\ N \in Nat \ {0} /\ {RackAt(b, i) : i \in 1..N} = RacksOf(b)
      /\ \A i, j \in 1..N : RackAt(b, i) = RackAt(b, j) => i = j
  BY RackOrder
<1> HIDE DEF N
<1>2. ASSUME NEW i \in 1..N PROVE Leads(mid[i - 1], seqs[i], mid[i])
  <2> DEFINE k == i - 1
             r == RackAt(b, i)
  <2>1. k \in 0..N /\ i \in 0..N /\ 1..i = 1..k \cup {i} /\ 1..k \subseteq 1..N /\ i \notin 1..k
    BY <1>1
  <2> HIDE DEF k
  <2>2. Seen(i) = Seen(k) \cup {r}
    BY <2>1
  <2>3. r \notin Seen(k) /\ r \in Nodes
    <3>1. r \in RacksOf(b) /\ \A j \in 1..k : r # RackAt(b, j)
      BY <1>1, <2>1
    <3>2. r \in Nodes
      BY <3>1, NodeKinds
    <3>3. r \notin D
      BY <3>1
    <3> HIDE DEF r
    <3> QED
      BY <3>1, <3>2, <3>3
  <2>4. mid[k] = Part(w, w2, p, p2, Seen(k), E) /\ mid[i] = Part(w, w2, p, p2, Seen(i), E)
    BY <2>1
  <2>5. seqs[i] = PushChanges(r, w[r], w2[r])
    OBVIOUS
  <2> HIDE DEF r, Seen, mid, seqs
  <2>6. Leads(Part(w, w2, p, p2, Seen(k), E), PushChanges(r, w[r], w2[r]),
              Part(w, w2, p, p2, Seen(k) \cup {r}, E))
    BY <2>3, TellNode
  <2> QED
    BY <2>2, <2>4, <2>5, <2>6 DEF k
<1>3. Len(seqs) = N /\ TellsRacks(b, w, w2) = FlattenSeq(seqs)
  BY <1>1 DEF TellsRacks, N
<1>4. mid[0] = Part(w, w2, p, p2, D, E) /\ mid[N] = Part(w, w2, p, p2, D \cup RacksOf(b), E)
  <2>1. 0 \in 0..N /\ N \in 0..N /\ 1..0 = {}
    BY <1>1
  <2>2. Seen(0) = D /\ Seen(N) = D \cup RacksOf(b)
    BY <1>1, <2>1
  <2> HIDE DEF Seen
  <2> QED
    BY <2>1, <2>2
<1> HIDE DEF mid, seqs
<1>5. Leads(mid[0], FlattenSeq(seqs), mid[N])
  BY <1>1, <1>2, <1>3, LeadsOver
<1> QED
  BY <1>3, <1>4, <1>5

-----------------------------------------------------------------------------
(* The blocks, in the order of OverBlocks.                                 *)
NodesOf(b) == {<<b>>} \cup RacksOf(b)
TellsBlock(events, b, w, w2, p, p2) ==
  \A D, E : NodesOf(b) \cap D = {} /\ b \notin E =>
    Leads(Part(w, w2, p, p2, D, E), events, Part(w, w2, p, p2, D \cup NodesOf(b), E \cup {b}))

LEMMA TellBlocks ==
  ASSUME NEW w \in WordMaps, NEW w2 \in WordMaps, NEW p \in PcsMaps, NEW p2 \in PcsMaps,
         NEW seqs, Len(seqs) = NBlocks,
         \A b \in Blocks : TellsBlock(seqs[b + 1], b, w, w2, p, p2)
  PROVE  Leads(Knows(w, p), FlattenSeq(seqs), Part(w, w2, p, p2, Nodes \ {Site}, Blocks))
<1> DEFINE D(i) == UNION {NodesOf(b) : b \in 0..(i - 1)}
           E(i) == 0..(i - 1)
           mid == [i \in 0..NBlocks |-> Part(w, w2, p, p2, D(i), E(i))]
<1>1. NBlocks \in Nat \ {0} /\ Blocks = 0..(NBlocks - 1)
  BY PlantAssumption DEF Blocks
<1>2. \A b, c : b # c => NodesOf(b) \cap NodesOf(c) = {}
  <2> SUFFICES ASSUME NEW b, NEW c, NEW n, n \in NodesOf(b), n \in NodesOf(c) PROVE b = c
    OBVIOUS
  <2>1. n[1] = b /\ n[1] = c
    BY DEF NodesOf, RacksOf
  <2> QED
    BY <2>1
<1>3. ASSUME NEW i \in 1..NBlocks PROVE Leads(mid[i - 1], seqs[i], mid[i])
  <2> DEFINE k == i - 1
  <2>1. /\ k \in Blocks /\ k \in 0..NBlocks /\ i \in 0..NBlocks /\ k + 1 = i
        /\ E(i) = E(k) \cup {k} /\ k \notin E(k)
    BY <1>1
  <2> HIDE DEF k
  <2>2. D(i) = D(k) \cup NodesOf(k)
    BY <2>1
  <2>3. NodesOf(k) \cap D(k) = {}
    BY <1>2, <2>1
  <2>4. mid[k] = Part(w, w2, p, p2, D(k), E(k)) /\ mid[i] = Part(w, w2, p, p2, D(i), E(i))
    BY <2>1
  <2>5. TellsBlock(seqs[i], k, w, w2, p, p2)
    BY <2>1
  <2> HIDE DEF D, E, mid
  <2>6. Leads(Part(w, w2, p, p2, D(k), E(k)), seqs[i],
              Part(w, w2, p, p2, D(k) \cup NodesOf(k), E(k) \cup {k}))
    BY <2>1, <2>3, <2>5 DEF TellsBlock
  <2> QED
    BY <2>1, <2>2, <2>4, <2>6 DEF k
<1>4. D(NBlocks) = Nodes \ {Site}
  <2>1. \A r \in Racks : r[1] \in Blocks /\ r \in NodesOf(r[1])
    BY DEF Racks, NodesOf, RacksOf
  <2>2. \A b \in Blocks : NodesOf(b) \subseteq Nodes \ {Site} /\ <<b>> \in NodesOf(b)
    BY NodeKinds DEF NodesOf
  <2>3. Nodes \ {Site} = {<<b>> : b \in Blocks} \cup Racks
    BY NodeKinds DEF Nodes
  <2>4. D(NBlocks) = UNION {NodesOf(b) : b \in Blocks}
    BY <1>1
  <2> HIDE DEF D
  <2> QED
    BY <2>1, <2>2, <2>3, <2>4
<1>5. mid[0] = Knows(w, p)
  <2>1. 0 \in 0..NBlocks /\ D(0) = {} /\ E(0) = {}
    BY <1>1
  <2> HIDE DEF D, E
  <2> QED
    BY <2>1, MergeFacts, MergePcsFacts DEF Part
<1>6. mid[NBlocks] = Part(w, w2, p, p2, Nodes \ {Site}, Blocks)
  <2>1. NBlocks \in 0..NBlocks /\ E(NBlocks) = Blocks
    BY <1>1
  <2> HIDE DEF D, E
  <2> QED
    BY <1>4, <2>1
<1> HIDE DEF mid
<1>7. Leads(mid[0], FlattenSeq(seqs), mid[NBlocks])
  BY <1>1, <1>3, LeadsOver
<1> QED
  BY <1>5, <1>6, <1>7

(* The blocks, then the site: the reader knows it all.                     *)
LEMMA TellTree ==
  ASSUME NEW w \in WordMaps, NEW w2 \in WordMaps, NEW p \in PcsMaps,
         NEW p2 \in PcsMaps, NEW seqs, Len(seqs) = NBlocks,
         \A b \in Blocks : TellsBlock(seqs[b + 1], b, w, w2, p, p2)
  PROVE  /\ Leads(Knows(w, p), FlattenSeq(seqs) \o PushChanges(Site, w[Site], w2[Site]), Knows(w2, p2))
         /\ \A h, said : Leads(h, said, Knows(w, p)) =>
              Leads(h, said \o FlattenSeq(seqs) \o PushChanges(Site, w[Site], w2[Site]), Knows(w2, p2))
<1> DEFINE D == Nodes \ {Site}
           all == FlattenSeq(seqs)
           last == PushChanges(Site, w[Site], w2[Site])
<1>1. Leads(Knows(w, p), all, Part(w, w2, p, p2, D, Blocks))
  BY TellBlocks
<1>2. Leads(Part(w, w2, p, p2, D, Blocks), last, Part(w, w2, p, p2, D \cup {Site}, Blocks))
  <2>1. Site \in Nodes \ D
    BY NodeKinds
  <2> HIDE DEF D
  <2> QED
    BY <2>1, TellNode
<1>3. Part(w, w2, p, p2, D \cup {Site}, Blocks) = Knows(w2, p2)
  <2>1. D \cup {Site} = Nodes
    BY NodeKinds
  <2> HIDE DEF D
  <2> QED
    BY <2>1, MergeFacts, MergePcsFacts DEF Part
<1> HIDE DEF D, all, last
<1>4. Leads(Knows(w, p), all \o last, Knows(w2, p2))
  BY <1>1, <1>2, <1>3, LeadsOn
<1>5. ASSUME NEW h, NEW said, Leads(h, said, Knows(w, p))
      PROVE  Leads(h, said \o all \o last, Knows(w2, p2))
  <2>1. Leads(h, said \o all, Part(w, w2, p, p2, D, Blocks))
    BY <1>1, <1>5, LeadsOn
  <2> QED
    BY <1>2, <1>3, <2>1, LeadsOn
<1> QED
  BY <1>4, <1>5 DEF all, last

-----------------------------------------------------------------------------
(* The words of the tree, as the reader holds them.                        *)
WordsOf(sw, bw, rw) ==
  [n \in Nodes |-> IF n = Site THEN sw ELSE IF Len(n) = 1 THEN bw[n[1]] ELSE rw[n]]

LEMMA NodeLengths ==
  /\ \A b \in Blocks : <<b>> \in Nodes /\ <<b>> # Site /\ Len(<<b>>) = 1 /\ <<b>>[1] = b
  /\ \A r \in Racks : r \in Nodes /\ r # Site /\ Len(r) = 3
BY NodeKinds DEF Racks

LEMMA WordsAre ==
  ASSUME NEW sw, NEW bw, NEW rw, NEW w, w = WordsOf(sw, bw, rw)
  PROVE  /\ w[Site] = sw
         /\ \A b \in Blocks : w[<<b>>] = bw[b]
         /\ \A r \in Racks : w[r] = rw[r]
BY NodeKinds, NodeLengths DEF WordsOf

LEMMA WordsAreWords ==
  ASSUME NEW sw, sw \subseteq ToSet(SiteLayout),
         NEW bw \in [Blocks -> SUBSET ToSet(BlockLayout)],
         NEW rw \in [Racks -> SUBSET ToSet(RackLayout)]
  PROVE  WordsOf(sw, bw, rw) \in WordMaps
<1> DEFINE w == WordsOf(sw, bw, rw)
<1>1. /\ Layout(Site) = SiteLayout
      /\ \A b \in Blocks : Layout(<<b>>) = BlockLayout
      /\ \A r \in Racks : Layout(r) = RackLayout
  BY NodeLengths DEF Layout
<1>2. w = [n \in Nodes |-> w[n]]
  BY DEF WordsOf
<1>3. w = WordsOf(sw, bw, rw)
  OBVIOUS
<1> HIDE DEF w
<1>4. /\ w[Site] = sw
      /\ \A b \in Blocks : w[<<b>>] = bw[b]
      /\ \A r \in Racks : w[r] = rw[r]
  BY <1>3, WordsAre
<1>5. \A n \in Nodes : w[n] \subseteq ToSet(Layout(n))
  BY <1>1, <1>4 DEF Nodes
<1>6. \A n \in Nodes : ToSet(Layout(n)) \subseteq Bits
  BY LayoutFacts
<1> QED
  BY <1>2, <1>3, <1>5, <1>6 DEF WordMaps

(* A tick tells the reader what it makes of the tree.                      *)
LEMMA TickTells ==
  ASSUME ControlTypeOK, ControlTypeOK', NEW h, Leads(h, pending, Knows(Words, pcs))
  PROVE  Leads(h, TickBatch, Knows(Words', pcs'))
<1> DEFINE w == WordsOf(siteWord, blockWord, rackWord)
           w2 == WordsOf(siteWord', blockWord', rackWord')
           seqs == [i \in 1..NBlocks |-> BlockEvents(i - 1)]
<1>1. w = Words /\ w2 = Words'
  BY DEF WordsOf, Words
<1>2. /\ w \in WordMaps /\ w[Site] = siteWord
      /\ \A b \in Blocks : w[<<b>>] = blockWord[b]
      /\ \A r \in Racks : w[r] = rackWord[r]
  <2>1. /\ siteWord \subseteq ToSet(SiteLayout)
        /\ blockWord \in [Blocks -> SUBSET ToSet(BlockLayout)]
        /\ rackWord \in [Racks -> SUBSET ToSet(RackLayout)]
    BY DEF ControlTypeOK
  <2>2. w \in WordMaps
    BY <2>1, WordsAreWords
  <2> QED
    BY <2>2, WordsAre
<1>3. /\ w2 \in WordMaps /\ w2[Site] = siteWord'
      /\ \A b \in Blocks : w2[<<b>>] = blockWord'[b]
      /\ \A r \in Racks : w2[r] = rackWord'[r]
  <2>1. /\ siteWord' \subseteq ToSet(SiteLayout)
        /\ blockWord' \in [Blocks -> SUBSET ToSet(BlockLayout)]
        /\ rackWord' \in [Racks -> SUBSET ToSet(RackLayout)]
    BY DEF ControlTypeOK
  <2>2. w2 \in WordMaps
    BY <2>1, WordsAreWords
  <2> QED
    BY <2>2, WordsAre
<1>4. pcs \in PcsMaps /\ pcs' \in PcsMaps
  BY DEF ControlTypeOK, PcsMaps
<1> HIDE DEF w, w2
<1>5. ASSUME NEW b \in Blocks PROVE TellsBlock(BlockEvents(b), b, w, w2, pcs, pcs')
  <2> SUFFICES ASSUME NEW D, NEW E, NodesOf(b) \cap D = {}, b \notin E
               PROVE  Leads(Part(w, w2, pcs, pcs', D, E), BlockEvents(b),
                            Part(w, w2, pcs, pcs', D \cup NodesOf(b), E \cup {b}))
    BY DEF TellsBlock
  <2> DEFINE D2 == D \cup RacksOf(b)
             racks == OverRacks(b, LAMBDA r : PushChanges(r, rackWord[r], rackWord'[r]))
  <2>1. racks = TellsRacks(b, w, w2)
    <3>1. \A i \in 1..(NContainers * NRacks) : RackAt(b, i) \in Racks
      BY RackOrder, NodeKinds
    <3>2. \A i \in 1..(NContainers * NRacks) :
            PushChanges(RackAt(b, i), rackWord[RackAt(b, i)], rackWord'[RackAt(b, i)])
              = PushChanges(RackAt(b, i), w[RackAt(b, i)], w2[RackAt(b, i)])
      BY <1>2, <1>3, <3>1
    <3> QED
      BY <3>2 DEF OverRacks, TellsRacks, RackAt
  <2>2. RacksOf(b) \cap D = {} /\ <<b>> \in Nodes \ D2 /\ D2 \cup {<<b>>} = D \cup NodesOf(b)
    BY NodeKinds DEF NodesOf
  <2> HIDE DEF D2, racks
  <2>3. Leads(Part(w, w2, pcs, pcs', D, E), racks, Part(w, w2, pcs, pcs', D2, E))
    BY <1>2, <1>3, <2>1, <2>2, TellRacks DEF D2
  <2>4. Leads(Part(w, w2, pcs, pcs', D2, E), PushPcs(b, pcs[b], pcs'[b]),
              Part(w, w2, pcs, pcs', D2, E \cup {b}))
    BY <1>4, TellPcs
  <2>5. Leads(Part(w, w2, pcs, pcs', D2, E \cup {b}), PushChanges(<<b>>, w[<<b>>], w2[<<b>>]),
              Part(w, w2, pcs, pcs', D2 \cup {<<b>>}, E \cup {b}))
    BY <1>2, <1>3, <2>2, TellNode
  <2>6. BlockEvents(b) = racks \o PushPcs(b, pcs[b], pcs'[b])
                           \o PushChanges(<<b>>, w[<<b>>], w2[<<b>>])
    BY <1>2, <1>3 DEF BlockEvents, racks
  <2>7. Leads(Part(w, w2, pcs, pcs', D, E), racks \o PushPcs(b, pcs[b], pcs'[b]),
              Part(w, w2, pcs, pcs', D2, E \cup {b}))
    BY <2>3, <2>4, LeadsOn
  <2>8. Leads(Part(w, w2, pcs, pcs', D, E),
              racks \o PushPcs(b, pcs[b], pcs'[b]) \o PushChanges(<<b>>, w[<<b>>], w2[<<b>>]),
              Part(w, w2, pcs, pcs', D2 \cup {<<b>>}, E \cup {b}))
    BY <2>5, <2>7, LeadsOn
  <2> QED
    BY <2>2, <2>6, <2>8
<1>6. Len(seqs) = NBlocks /\ \A b \in Blocks : TellsBlock(seqs[b + 1], b, w, w2, pcs, pcs')
  <2>1. Len(seqs) = NBlocks
    BY PlantAssumption
  <2>2. ASSUME NEW b \in Blocks PROVE seqs[b + 1] = BlockEvents(b)
    <3>1. b + 1 \in 1..NBlocks /\ (b + 1) - 1 = b
      BY PlantAssumption DEF Blocks
    <3> QED
      BY <3>1
  <2> QED
    BY <1>5, <2>1, <2>2
<1>7. TickBatch = pending \o FlattenSeq(seqs) \o PushChanges(Site, w[Site], w2[Site])
  BY <1>2, <1>3 DEF TickBatch, OverBlocks
<1>8. Leads(h, pending, Knows(w, pcs))
  BY <1>1
<1> HIDE DEF seqs
<1>9. Leads(h, pending \o FlattenSeq(seqs) \o PushChanges(Site, w[Site], w2[Site]), Knows(w2, pcs'))
  BY <1>2, <1>3, <1>4, <1>6, <1>8, TellTree
<1> QED
  BY <1>1, <1>7, <1>9

(* So does a reset, in another order: converter, block word, racks.        *)
LEMMA ResetTells ==
  ASSUME ControlTypeOK, ControlTypeOK', NEW scope \in Nodes, Reset(scope)
  PROVE  Leads(Knows(Words, pcs), ResetEvents(scope), Knows(Words', pcs'))
<1> DEFINE w == WordsOf(siteWord, blockWord, rackWord)
           w2 == WordsOf(siteWord', blockWord', rackWord')
           Reached(b) == PushPcs(b, pcs[b], PcsAfterReset(scope, b))
                           \o ResetChange(scope, <<b>>, blockWord[b])
                           \o OverRacks(b, LAMBDA r : ResetChange(scope, r, rackWord[r]))
           seqs == [i \in 1..NBlocks |-> Reached(i - 1)]
<1>1. w = Words /\ w2 = Words'
  BY DEF WordsOf, Words
<1>2. /\ w \in WordMaps /\ w[Site] = siteWord
      /\ \A b \in Blocks : w[<<b>>] = blockWord[b]
      /\ \A r \in Racks : w[r] = rackWord[r]
  <2>1. /\ siteWord \subseteq ToSet(SiteLayout)
        /\ blockWord \in [Blocks -> SUBSET ToSet(BlockLayout)]
        /\ rackWord \in [Racks -> SUBSET ToSet(RackLayout)]
    BY DEF ControlTypeOK
  <2>2. w \in WordMaps
    BY <2>1, WordsAreWords
  <2> QED
    BY <2>2, WordsAre
<1>3. /\ w2 \in WordMaps /\ w2[Site] = siteWord'
      /\ \A b \in Blocks : w2[<<b>>] = blockWord'[b]
      /\ \A r \in Racks : w2[r] = rackWord'[r]
  <2>1. /\ siteWord' \subseteq ToSet(SiteLayout)
        /\ blockWord' \in [Blocks -> SUBSET ToSet(BlockLayout)]
        /\ rackWord' \in [Racks -> SUBSET ToSet(RackLayout)]
    BY DEF ControlTypeOK
  <2>2. w2 \in WordMaps
    BY <2>1, WordsAreWords
  <2> QED
    BY <2>2, WordsAre
<1>4. pcs \in PcsMaps /\ pcs' \in PcsMaps
  BY DEF ControlTypeOK, PcsMaps
<1>5. /\ \A b \in Blocks : pcs'[b] = PcsAfterReset(scope, b)
      /\ \A b \in Blocks : w2[<<b>>] = AfterReset(scope, <<b>>, blockWord[b])
      /\ \A r \in Racks : w2[r] = AfterReset(scope, r, rackWord[r])
      /\ w2[Site] = AfterReset(scope, Site, siteWord)
  BY <1>3 DEF Reset
<1> HIDE DEF w, w2
<1>6. ASSUME NEW b \in Blocks PROVE TellsBlock(Reached(b), b, w, w2, pcs, pcs')
  <2> SUFFICES ASSUME NEW D, NEW E, NodesOf(b) \cap D = {}, b \notin E
               PROVE  Leads(Part(w, w2, pcs, pcs', D, E), Reached(b),
                            Part(w, w2, pcs, pcs', D \cup NodesOf(b), E \cup {b}))
    BY DEF TellsBlock
  <2> DEFINE D2 == D \cup {<<b>>}
             racks == OverRacks(b, LAMBDA r : ResetChange(scope, r, rackWord[r]))
  <2>1. racks = TellsRacks(b, w, w2)
    <3>1. \A i \in 1..(NContainers * NRacks) : RackAt(b, i) \in Racks
      BY RackOrder, NodeKinds
    <3>2. \A i \in 1..(NContainers * NRacks) :
            ResetChange(scope, RackAt(b, i), rackWord[RackAt(b, i)])
              = PushChanges(RackAt(b, i), w[RackAt(b, i)], w2[RackAt(b, i)])
      BY <1>2, <1>5, <3>1 DEF ResetChange
    <3> QED
      BY <3>2 DEF OverRacks, TellsRacks, RackAt
  <2>2. RacksOf(b) \cap D2 = {} /\ <<b>> \in Nodes \ D /\ D2 \cup RacksOf(b) = D \cup NodesOf(b)
    BY NodeKinds DEF NodesOf
  <2> HIDE DEF racks
  <2>3. Leads(Part(w, w2, pcs, pcs', D, E), PushPcs(b, pcs[b], pcs'[b]),
              Part(w, w2, pcs, pcs', D, E \cup {b}))
    BY <1>4, TellPcs
  <2>4. Leads(Part(w, w2, pcs, pcs', D, E \cup {b}), PushChanges(<<b>>, w[<<b>>], w2[<<b>>]),
              Part(w, w2, pcs, pcs', D2, E \cup {b}))
    BY <1>2, <1>3, <2>2, TellNode
  <2> HIDE DEF D2
  <2>5. Leads(Part(w, w2, pcs, pcs', D2, E \cup {b}), racks,
              Part(w, w2, pcs, pcs', D2 \cup RacksOf(b), E \cup {b}))
    BY <1>2, <1>3, <2>1, <2>2, TellRacks
  <2>6. Reached(b) = PushPcs(b, pcs[b], pcs'[b]) \o PushChanges(<<b>>, w[<<b>>], w2[<<b>>]) \o racks
    BY <1>2, <1>5 DEF ResetChange, racks
  <2>7. Leads(Part(w, w2, pcs, pcs', D, E),
              PushPcs(b, pcs[b], pcs'[b]) \o PushChanges(<<b>>, w[<<b>>], w2[<<b>>]),
              Part(w, w2, pcs, pcs', D2, E \cup {b}))
    BY <2>3, <2>4, LeadsOn
  <2>8. Leads(Part(w, w2, pcs, pcs', D, E),
              PushPcs(b, pcs[b], pcs'[b]) \o PushChanges(<<b>>, w[<<b>>], w2[<<b>>]) \o racks,
              Part(w, w2, pcs, pcs', D2 \cup RacksOf(b), E \cup {b}))
    BY <2>5, <2>7, LeadsOn
  <2> HIDE DEF Reached
  <2> QED
    BY <2>2, <2>6, <2>8
<1>7. ResetEvents(scope) = FlattenSeq(seqs) \o PushChanges(Site, w[Site], w2[Site])
  BY <1>2, <1>5 DEF ResetEvents, OverBlocks, ResetChange
<1> HIDE DEF Reached
<1>8. Len(seqs) = NBlocks /\ \A b \in Blocks : TellsBlock(seqs[b + 1], b, w, w2, pcs, pcs')
  <2>1. Len(seqs) = NBlocks
    BY PlantAssumption
  <2>2. ASSUME NEW b \in Blocks PROVE seqs[b + 1] = Reached(b)
    <3>1. b + 1 \in 1..NBlocks /\ (b + 1) - 1 = b
      BY PlantAssumption DEF Blocks
    <3> QED
      BY <3>1
  <2> QED
    BY <1>6, <2>1, <2>2
<1> HIDE DEF seqs
<1>9. Leads(Knows(w, pcs), FlattenSeq(seqs) \o PushChanges(Site, w[Site], w2[Site]), Knows(w2, pcs'))
  BY <1>2, <1>3, <1>4, <1>8, TellTree
<1> QED
  BY <1>1, <1>7, <1>9

(* A protection trip that is not refused, and the trip of one converter.   *)
ProtectionEvents ==
  <<Raised(Site, "PROTECTION_TRIP")>> \o OverBlocks(LAMBDA b : PushPcs(b, pcs[b], "Fault"))

LEMMA ProtectionTells ==
  ASSUME IInv, IInv', ~TripRefused, siteWord' = siteWord \cup {"PROTECTION_TRIP"},
         pcs' = [b \in Blocks |-> "Fault"], UNCHANGED <<blockWord, rackWord>>
  PROVE  Leads(Knows(Words, pcs), ProtectionEvents, Knows(Words', pcs'))
<1> DEFINE seqs == [i \in 1..NBlocks |-> PushPcs(i - 1, pcs[i - 1], "Fault")]
           w == Words'
           e == Raised(Site, "PROTECTION_TRIP")
<1>1. Words \in [Nodes -> SUBSET Bits] /\ w \in WordMaps
  <2>1. /\ siteWord \subseteq ToSet(SiteLayout)
        /\ blockWord \in [Blocks -> SUBSET ToSet(BlockLayout)]
        /\ rackWord \in [Racks -> SUBSET ToSet(RackLayout)]
        /\ siteWord' \subseteq ToSet(SiteLayout)
    BY DEF IInv, ControlTypeOK
  <2>2. /\ WordsOf(siteWord, blockWord, rackWord) \in WordMaps
        /\ WordsOf(siteWord', blockWord, rackWord) \in WordMaps
    BY <2>1, WordsAreWords
  <2> QED
    BY <2>2 DEF WordsOf, Words, WordMaps
<1>2. pcs \in PcsMaps /\ pcs' \in PcsMaps
  BY DEF IInv, ControlTypeOK, PcsMaps
<1>3. Words[Site] = siteWord /\ w = [Words EXCEPT ![Site] = @ \cup {"PROTECTION_TRIP"}]
  BY NodeKinds DEF Words
<1>4. Leads(Knows(Words, pcs), <<e>>, Knows(w, pcs))
  <2>1. e \in AlarmEvents
    BY NodeKinds, SiteBits DEF Raised, AlarmEvents, Bits, Layout
  <2>2. <<e>> \in Seq(Events)
    BY <2>1, EventKinds
  <2>3. "PROTECTION_TRIP" \notin Words[Site] /\ DOMAIN Words = Nodes
    BY <1>1, <1>3 DEF TripRefused
  <2>4. Hear(Knows(Words, pcs), e) = Knows([Words EXCEPT ![Site] = @ \cup {"PROTECTION_TRIP"}], pcs)
    BY <2>3, NodeKinds DEF Hear, Knows, Raised
  <2>5. HearFrom(Knows(Words, pcs), <<e>>) = Hear(Knows(Words, pcs), e)
    BY HearOne
  <2> HIDE DEF e, w
  <2> QED
    BY <1>3, <2>2, <2>4, <2>5 DEF Leads
<1> HIDE DEF w
<1>5. ASSUME NEW b \in Blocks PROVE TellsBlock(seqs[b + 1], b, w, w, pcs, pcs')
  <2>1. seqs[b + 1] = PushPcs(b, pcs[b], pcs'[b])
    <3>1. b + 1 \in 1..NBlocks /\ (b + 1) - 1 = b
      BY PlantAssumption DEF Blocks
    <3> QED
      BY <3>1
  <2> SUFFICES ASSUME NEW D, NEW E, NodesOf(b) \cap D = {}, b \notin E
               PROVE  Leads(Part(w, w, pcs, pcs', D, E), PushPcs(b, pcs[b], pcs'[b]),
                            Part(w, w, pcs, pcs', D \cup NodesOf(b), E \cup {b}))
    BY <2>1 DEF TellsBlock
  <2>2. Leads(Part(w, w, pcs, pcs', D, E), PushPcs(b, pcs[b], pcs'[b]),
              Part(w, w, pcs, pcs', D, E \cup {b}))
    BY <1>2, TellPcs
  <2>3. Merge(w, w, D) = w /\ Merge(w, w, D \cup NodesOf(b)) = w
    BY <1>1, MergeFacts
  <2> QED
    BY <2>2, <2>3 DEF Part
<1>6. Len(seqs) = NBlocks
  BY PlantAssumption
<1>7. OverBlocks(LAMBDA b : PushPcs(b, pcs[b], "Fault")) = FlattenSeq(seqs)
  BY DEF OverBlocks
<1> HIDE DEF seqs
<1>8. Leads(Knows(w, pcs), FlattenSeq(seqs), Part(w, w, pcs, pcs', Nodes \ {Site}, Blocks))
  BY <1>1, <1>2, <1>5, <1>6, TellBlocks
<1>9. Part(w, w, pcs, pcs', Nodes \ {Site}, Blocks) = Knows(w, pcs')
  BY <1>1, <1>2, MergeFacts, MergePcsFacts DEF Part
<1> HIDE DEF e
<1>10. Leads(Knows(Words, pcs), <<e>> \o FlattenSeq(seqs), Knows(w, pcs'))
  BY <1>4, <1>8, <1>9, LeadsOn
<1> QED
  BY <1>7, <1>10 DEF ProtectionEvents, e, w

LEMMA PcsTripTells ==
  ASSUME ControlTypeOK, NEW b \in Blocks, NEW w, w \in WordMaps
  PROVE  Leads(Knows(w, pcs), PushPcs(b, pcs[b], "Fault"), Knows(w, [pcs EXCEPT ![b] = "Fault"]))
<1> DEFINE p2 == [pcs EXCEPT ![b] = "Fault"]
<1>1. pcs \in PcsMaps /\ p2 \in PcsMaps /\ p2[b] = "Fault" /\ MergePcs(pcs, p2, {b}) = p2
  BY DEF ControlTypeOK, PcsMaps, PcsOpState, MergePcs
<1> HIDE DEF p2
<1>2. Leads(Part(w, w, pcs, p2, {}, {}), PushPcs(b, pcs[b], p2[b]), Part(w, w, pcs, p2, {}, {} \cup {b}))
  BY <1>1, TellPcs
<1>3. Merge(w, w, {}) = w /\ MergePcs(pcs, p2, {}) = pcs
  BY <1>1, MergeFacts, MergePcsFacts
<1>4. {} \cup {b} = {b}
  OBVIOUS
<1>5. Part(w, w, pcs, p2, {}, {}) = Knows(w, pcs) /\ Part(w, w, pcs, p2, {}, {} \cup {b}) = Knows(w, p2)
  BY <1>1, <1>3, <1>4 DEF Part
<1> QED
  BY <1>1, <1>2, <1>5 DEF p2

-----------------------------------------------------------------------------
(* The invariant of the stream: what was handed out and what still waits   *)
(* tell a reader the tree as it is, and what was handed out is a tree.     *)
Told == Leads(heard, pending, Knows(Words, pcs))
HeardIsATree == \E w \in WordMaps, p \in PcsMaps : heard = Knows(w, p)

LEMMA InitTold == Init => Told /\ HeardIsATree
<1> SUFFICES ASSUME Init PROVE Told /\ HeardIsATree
  OBVIOUS
<1>1. Words = [n \in Nodes |-> {}]
  <2>1. \A n \in Nodes : n = Site \/ (\E b \in Blocks : n = <<b>>) \/ n \in Racks
    BY DEF Nodes
  <2>2. Words = WordsOf(siteWord, blockWord, rackWord)
    BY DEF Words, WordsOf
  <2>3. /\ Words[Site] = siteWord
        /\ \A b \in Blocks : Words[<<b>>] = blockWord[b]
        /\ \A r \in Racks : Words[r] = rackWord[r]
    BY <2>2, WordsAre
  <2>4. \A n \in Nodes : Words[n] = {}
    BY <2>1, <2>3 DEF Init
  <2> QED
    BY <2>4 DEF Words
<1>2. heard = Knows(Words, pcs) /\ pending = << >>
  BY <1>1 DEF Init, Knows
<1>3. Words \in WordMaps /\ pcs \in PcsMaps
  BY <1>1 DEF Init, WordMaps, PcsMaps, PcsOpState
<1> QED
  BY <1>2, <1>3, LeadsNowhere DEF Told, HeardIsATree

(* The door appends to the mailbox what it did to the tree.                *)
LEMMA DoorTells ==
  ASSUME Told, heard' = heard, NEW events, pending' = pending \o events,
         Leads(Knows(Words, pcs), events, Knows(Words', pcs'))
  PROVE  Told'
<1>1. Leads(heard, pending \o events, Knows(Words', pcs'))
  BY LeadsOn DEF Told
<1> QED
  BY <1>1 DEF Told

LEMMA MarkSaysNothing ==
  ASSUME NEW h, NEW action \in Faults, NEW node \in Nodes \cup Containers
  PROVE  Leads(h, <<Applied(action, node)>>, h)
<1> DEFINE e == Applied(action, node)
<1>1. e \in Events
  BY EventKinds, PlantAssumption DEF Applied, Marks
<1>2. Hear(h, e) = h
  BY HearApplied
<1> HIDE DEF e
<1>3. <<e>> \in Seq(Events) /\ HearFrom(h, <<e>>) = Hear(h, e)
  BY <1>1, HearOne
<1> QED
  BY <1>2, <1>3 DEF Leads, e

LEMMA ApplyTells ==
  ASSUME Told, heard' = heard, NEW action, NEW node \in Nodes \cup Containers,
         NEW events, Apply(action, node, events),
         Leads(Knows(Words, pcs), events, Knows(Words', pcs'))
  PROVE  Told'
<1> DEFINE mark == <<Applied(action, node)>>
<1>1. Leads(Knows(Words, pcs), mark, Knows(Words, pcs))
  BY MarkSaysNothing DEF Apply
<1>2. pending' = pending \o mark \o events
  BY DEF Apply
<1> HIDE DEF mark
<1>3. Leads(heard, pending \o mark, Knows(Words, pcs))
  BY <1>1, LeadsOn DEF Told
<1>4. Leads(heard, pending \o mark \o events, Knows(Words', pcs'))
  BY <1>3, LeadsOn
<1> QED
  BY <1>2, <1>4 DEF Told

LEMMA MarkTells ==
  ASSUME Told, heard' = heard, NEW action, NEW node \in Nodes \cup Containers,
         Apply(action, node, << >>), UNCHANGED <<pcs, siteWord, blockWord, rackWord>>
  PROVE  Told'
<1>1. Words' = Words
  BY DEF Words
<1>2. Leads(Knows(Words, pcs), << >>, Knows(Words', pcs'))
  BY <1>1, LeadsNowhere
<1> QED
  BY <1>2, ApplyTells

LEMMA WordsTyped == ControlTypeOK => Words \in WordMaps /\ pcs \in PcsMaps
<1> SUFFICES ASSUME ControlTypeOK PROVE Words \in WordMaps /\ pcs \in PcsMaps
  OBVIOUS
<1>1. WordsOf(siteWord, blockWord, rackWord) \in WordMaps
  BY WordsAreWords DEF ControlTypeOK
<1> QED
  BY <1>1 DEF WordsOf, Words, ControlTypeOK, PcsMaps

LEMMA TickKeepsTold ==
  ASSUME IInv, IInv', Told, Tick PROVE Told' /\ HeardIsATree'
<1>1. Leads(heard, TickBatch, Knows(Words', pcs'))
  BY TickTells DEF IInv, Told
<1>2. heard' = Knows(Words', pcs') /\ pending' = << >>
  BY <1>1 DEF Tick, HearAll, Leads
<1>3. Words' \in WordMaps /\ pcs' \in PcsMaps
  <2>1. WordsOf(siteWord', blockWord', rackWord') \in WordMaps
    BY WordsAreWords DEF IInv, ControlTypeOK
  <2> QED
    BY <2>1 DEF WordsOf, Words, IInv, ControlTypeOK, PcsMaps
<1>4. Leads(heard', << >>, Knows(Words', pcs'))
  BY <1>2, LeadsNowhere
<1> QED
  BY <1>2, <1>3, <1>4 DEF Told, HeardIsATree

LEMMA NextKeepsTold ==
  ASSUME IInv, IInv', Told, HeardIsATree, [Next]_vars PROVE Told' /\ HeardIsATree'
<1>1. CASE Tick
  BY <1>1, TickKeepsTold
<1>2. ASSUME UNCHANGED heard PROVE HeardIsATree'
  BY <1>2 DEF HeardIsATree
<1>3. ASSUME UNCHANGED <<pcs, siteWord, blockWord, rackWord, pending, heard>>
      PROVE  Told'
  <2>1. Words' = Words
    BY <1>3 DEF Words
  <2> QED
    BY <1>3, <2>1 DEF Told
<1>4. ASSUME NEW p \in Setpoints, SetExternalSetpoint(p) PROVE Told' /\ UNCHANGED heard
  BY <1>3, <1>4 DEF SetExternalSetpoint
<1>5. CASE ClearExternalSetpoint
  BY <1>2, <1>3, <1>5 DEF ClearExternalSetpoint
<1>6. ASSUME NEW c \in Containers, NEW failed \in BOOLEAN, ApplyHvac(c, failed)
      PROVE  Told' /\ UNCHANGED heard
  <2> QED
    BY <1>6, MarkTells DEF ApplyHvac, Door
<1>7. ASSUME NEW r \in Racks, NEW on \in BOOLEAN, ApplyRack(r, on)
      PROVE  Told' /\ UNCHANGED heard
  <2>1. r \in Nodes \cup Containers
    BY NodeLengths
  <2> QED
    BY <1>7, <2>1, MarkTells DEF ApplyRack, Door
<1>8. ASSUME NEW b \in Blocks, NEW m \in BlockMode, ApplyMode(b, m)
      PROVE  Told' /\ UNCHANGED heard
  <2>1. <<b>> \in Nodes \cup Containers
    BY NodeLengths
  <2> QED
    BY <1>8, <2>1, MarkTells DEF ApplyMode, Door
<1>9. ASSUME NEW b \in Blocks, ApplyPcsTrip(b) PROVE Told' /\ UNCHANGED heard
  <2>1. /\ UNCHANGED <<heard, siteWord, blockWord, rackWord>>
        /\ pcs' = [pcs EXCEPT ![b] = "Fault"]
        /\ Apply("trip", <<b>>, PushPcs(b, pcs[b], "Fault"))
    BY <1>9 DEF ApplyPcsTrip, Door
  <2>2. Words' = Words /\ Words \in WordMaps
    BY <2>1, WordsTyped DEF Words, IInv
  <2>3. Leads(Knows(Words, pcs), PushPcs(b, pcs[b], "Fault"), Knows(Words', pcs'))
    BY <2>1, <2>2, PcsTripTells DEF IInv
  <2>4. <<b>> \in Nodes \cup Containers
    BY NodeLengths
  <2> QED
    BY <2>1, <2>3, <2>4, ApplyTells
<1>10. CASE ApplyProtectionTrip
  <2>1. UNCHANGED <<heard, blockWord, rackWord>>
    BY <1>10 DEF ApplyProtectionTrip, Door
  <2>2. Site \in Nodes \cup Containers
    BY NodeKinds
  <2>3. CASE TripRefused
    BY <1>2, <1>10, <2>1, <2>2, <2>3, MarkTells DEF ApplyProtectionTrip
  <2>4. CASE ~TripRefused
    <3>1. /\ siteWord' = siteWord \cup {"PROTECTION_TRIP"}
          /\ pcs' = [b \in Blocks |-> "Fault"]
          /\ Apply("protection_trip", Site, ProtectionEvents)
      BY <1>10, <2>4 DEF ApplyProtectionTrip, ProtectionEvents
    <3>2. Leads(Knows(Words, pcs), ProtectionEvents, Knows(Words', pcs'))
      BY <2>1, <2>4, <3>1, ProtectionTells
    <3> QED
      BY <1>2, <2>1, <2>2, <3>1, <3>2, ApplyTells
  <2> QED
    BY <2>3, <2>4
<1>11. ASSUME NEW r \in Racks, ApplySelfDischarge(r) PROVE Told' /\ UNCHANGED heard
  <2>1. r \in Nodes \cup Containers
    BY NodeLengths
  <2> QED
    BY <1>11, <2>1, MarkTells DEF ApplySelfDischarge, Door, tree
<1>12. ASSUME NEW scope \in Nodes, HmiReset(scope) \/ ApplyReset(scope)
       PROVE  Told' /\ UNCHANGED heard
  <2>1. Reset(scope) /\ UNCHANGED heard
    BY <1>12 DEF HmiReset, ApplyReset, Reset, Door
  <2>2. Leads(Knows(Words, pcs), ResetEvents(scope), Knows(Words', pcs'))
    BY <2>1, ResetTells DEF IInv
  <2>3. CASE HmiReset(scope)
    BY <2>1, <2>2, <2>3, DoorTells DEF HmiReset
  <2>4. CASE ApplyReset(scope)
    <3> QED
      BY <2>1, <2>2, <2>4, ApplyTells DEF ApplyReset
  <2> QED
    BY <1>12, <2>1, <2>3, <2>4
<1>13. CASE UNCHANGED vars
  BY <1>2, <1>3, <1>13 DEF vars, tree
<1> QED
  BY <1>1, <1>2, <1>4, <1>5, <1>6, <1>7, <1>8, <1>9, <1>10, <1>11, <1>12, <1>13 DEF Next

LEMMA StreamInductive == Spec => [](IInv /\ Told /\ HeardIsATree)
<1> DEFINE J == IInv /\ Told /\ HeardIsATree
<1>1. Init => J
  BY InitIInv, InitTold
<1>2. J /\ [Next]_vars => J'
  BY NextKeepsIInv, NextKeepsTold
<1> QED
  BY <1>1, <1>2, PTL DEF Spec

(* Whoever folds the batches, and what still waits in the mailbox, knows   *)
(* every alarm word and every converter of the tree, and was never         *)
(* contradicted: the five places that write the tree say all they do.      *)
THEOREM StreamTellsAll == Spec => []JournalTellsAll
<1>1. Told => JournalTellsAll
  BY DEF Told, Leads, JournalTellsAll, HearAll, Knows
<1> QED
  BY <1>1, StreamInductive, PTL

(* Every variable of the plant holds a value of its type, the mailbox and  *)
(* the reader's books among them.                                          *)
THEOREM PlantTypes == Spec => []TypeOK
<1>1. IInv /\ Told /\ HeardIsATree => TypeOK
  <2> SUFFICES ASSUME IInv, Told, HeardIsATree PROVE TypeOK
    OBVIOUS
  <2>1. \A i \in DOMAIN pending : pending[i] \in Events
    BY DEF Told, Leads
  <2>2. /\ heard.pcs \in [Blocks -> PcsOpState]
        /\ \A n \in Nodes : heard.word[n] \subseteq ToSet(Layout(n))
    BY DEF HeardIsATree, Knows, WordMaps, PcsMaps
  <2> QED
    BY <2>1, <2>2 DEF IInv, TypeOK
<1> QED
  BY <1>1, StreamInductive, PTL

-----------------------------------------------------------------------------
(* A reset that says nothing did nothing.  The words and converters are    *)
(* the reader's; the breaker closes only with a latched bit to clear.      *)
LEMMA SilentResetDoesNothing ==
  ASSUME IInv, IInv', NEW scope \in Nodes, Reset(scope), ResetEvents(scope) = << >>
  PROVE  UNCHANGED tree
<1>1. Leads(Knows(Words, pcs), << >>, Knows(Words', pcs'))
  BY ResetTells DEF IInv
<1>2. Words' = Words /\ pcs' = pcs
  <2>1. Knows(Words, pcs) = Knows(Words', pcs')
    BY <1>1, HearNone DEF Leads
  <2> QED
    BY <2>1 DEF Knows
<1>3. UNCHANGED <<siteWord, blockWord, rackWord>>
  <2>1. Words = WordsOf(siteWord, blockWord, rackWord) /\ Words' = WordsOf(siteWord', blockWord', rackWord')
    BY DEF Words, WordsOf
  <2>2. /\ Words[Site] = siteWord
        /\ \A b \in Blocks : Words[<<b>>] = blockWord[b]
        /\ \A r \in Racks : Words[r] = rackWord[r]
    BY <2>1, WordsAre
  <2>3. /\ Words'[Site] = siteWord'
        /\ \A b \in Blocks : Words'[<<b>>] = blockWord'[b]
        /\ \A r \in Racks : Words'[r] = rackWord'[r]
    BY <2>1, WordsAre
  <2>4. /\ blockWord \in [Blocks -> SUBSET ToSet(BlockLayout)]
        /\ blockWord' \in [Blocks -> SUBSET ToSet(BlockLayout)]
        /\ rackWord \in [Racks -> SUBSET ToSet(RackLayout)]
        /\ rackWord' \in [Racks -> SUBSET ToSet(RackLayout)]
    BY DEF IInv, ControlTypeOK
  <2>5. /\ \A b \in Blocks : blockWord'[b] = blockWord[b]
        /\ \A r \in Racks : rackWord'[r] = rackWord[r]
    BY <1>2, <2>2, <2>3
  <2>6. blockWord' = blockWord
    BY <2>4, <2>5
  <2>7. rackWord' = rackWord
    BY <2>4, <2>5
  <2> QED
    BY <1>2, <2>2, <2>3, <2>6, <2>7
<1>4. ~Recloses(scope)
  <2> SUFFICES ASSUME Recloses(scope) PROVE FALSE
    OBVIOUS
  <2>1. scope = Site /\ "PROTECTION_TRIP" \in siteWord
    BY DEF Recloses, IInv, TripLatch
  <2>2. siteWord = AfterReset(scope, Site, siteWord)
    BY <1>3 DEF Reset
  <2> QED
    BY <2>1, <2>2, SiteScope, SiteBits DEF AfterReset
<1> QED
  BY <1>2, <1>3, <1>4 DEF Reset, tree

(* A flattened sequence of nothings is nothing.                            *)
LEMMA NothingFlattened ==
  ASSUME NEW n \in Nat \ {0}, NEW seqs, Len(seqs) = n, \A i \in 1..n : seqs[i] = << >>
  PROVE  FlattenSeq(seqs) = << >>
<1> DEFINE R == {r \in Nat \X {<< >>} : TRUE}
<1>1. <<1, seqs[1]>> \in R
  OBVIOUS
<1>2. ASSUME NEW i \in 1..(n - 1), NEW s, <<i, s>> \in R
      PROVE  <<i + 1, s \o seqs[i + 1]>> \in R
  <2> DEFINE j == i + 1
  <2>1. j \in 1..n /\ j \in Nat
    OBVIOUS
  <2> HIDE DEF j
  <2>2. s = << >> /\ seqs[j] = << >>
    BY <1>2, <2>1
  <2>3. s \o seqs[j] = << >>
    BY <2>2
  <2> QED
    BY <2>1, <2>3 DEF j
<1>3. <<n, FlattenSeq(seqs)>> \in R
  <2> HIDE DEF R
  <2> QED
    BY <1>1, <1>2, FlattenLoop
<1> QED
  BY <1>3

(* A reset that did nothing says nothing.                                  *)
LEMMA IdleResetIsSilent ==
  ASSUME ControlTypeOK, NEW scope \in Nodes, Reset(scope), UNCHANGED tree
  PROVE  ResetEvents(scope) = << >>
<1>1. /\ \A b \in Blocks : PcsAfterReset(scope, b) = pcs[b]
      /\ \A b \in Blocks : AfterReset(scope, <<b>>, blockWord[b]) = blockWord[b]
      /\ \A r \in Racks : AfterReset(scope, r, rackWord[r]) = rackWord[r]
      /\ AfterReset(scope, Site, siteWord) = siteWord
  <2>1. /\ pcs = [b \in Blocks |-> PcsAfterReset(scope, b)]
        /\ blockWord = [b \in Blocks |-> AfterReset(scope, <<b>>, blockWord[b])]
        /\ rackWord = [r \in Racks |-> AfterReset(scope, r, rackWord[r])]
        /\ siteWord = AfterReset(scope, Site, siteWord)
    BY DEF Reset, tree
  <2> HIDE DEF PcsAfterReset, AfterReset
  <2> QED
    BY <2>1
<1> DEFINE Reached(b) == PushPcs(b, pcs[b], PcsAfterReset(scope, b))
                           \o ResetChange(scope, <<b>>, blockWord[b])
                           \o OverRacks(b, LAMBDA r : ResetChange(scope, r, rackWord[r]))
           seqs == [i \in 1..NBlocks |-> Reached(i - 1)]
<1>2. ASSUME NEW b \in Blocks PROVE Reached(b) = << >>
  <2> DEFINE N == NContainers * NRacks
             at == [i \in 1..N |-> ResetChange(scope, RackAt(b, i), rackWord[RackAt(b, i)])]
  <2>1. N \in Nat \ {0} /\ \A i \in 1..N : RackAt(b, i) \in Racks
    BY RackOrder, NodeKinds
  <2>2. \A i \in 1..N : at[i] = << >>
    BY <1>1, <2>1 DEF ResetChange, PushChanges
  <2>3. Len(at) = N /\ OverRacks(b, LAMBDA r : ResetChange(scope, r, rackWord[r])) = FlattenSeq(at)
    BY <2>1 DEF OverRacks, RackAt
  <2> HIDE DEF at, N
  <2>4. OverRacks(b, LAMBDA r : ResetChange(scope, r, rackWord[r])) = << >>
    BY <2>1, <2>2, <2>3, NothingFlattened
  <2>5. ResetChange(scope, <<b>>, blockWord[b]) = << >> /\ PushPcs(b, pcs[b], PcsAfterReset(scope, b)) = << >>
    BY <1>1 DEF ResetChange, PushChanges, PushPcs
  <2> QED
    BY <2>4, <2>5
<1>3. NBlocks \in Nat \ {0} /\ Len(seqs) = NBlocks /\ \A i \in 1..NBlocks : i - 1 \in Blocks
  BY PlantAssumption DEF Blocks
<1>4. OverBlocks(Reached) = FlattenSeq(seqs)
  BY DEF OverBlocks
<1> HIDE DEF Reached
<1>5. \A i \in 1..NBlocks : seqs[i] = << >>
  BY <1>2, <1>3
<1> HIDE DEF seqs
<1>6. FlattenSeq(seqs) = << >>
  BY <1>3, <1>5, NothingFlattened
<1>7. ResetChange(scope, Site, siteWord) = << >>
  BY <1>1 DEF ResetChange, PushChanges
<1>8. ResetEvents(scope) = FlattenSeq(seqs) \o ResetChange(scope, Site, siteWord)
  BY <1>4 DEF ResetEvents, Reached
<1> QED
  BY <1>6, <1>7, <1>8

(* The answer of a reset is true: it says "the plant changed" exactly when *)
(* the plant did.                                                          *)
THEOREM ResetAnswersTruthfully == Spec => ReplyIsTruthful
<1>1. IInv /\ [Next]_vars =>
        [\A scope \in Nodes : ApplyReset(scope) => (ResetReply(scope) <=> tree' # tree)]_vars
  <2> SUFFICES ASSUME IInv, [Next]_vars, NEW scope \in Nodes, ApplyReset(scope)
               PROVE  ResetReply(scope) <=> tree' # tree
    OBVIOUS
  <2>1. IInv' /\ Reset(scope)
    BY NextKeepsIInv DEF ApplyReset
  <2>2. ResetEvents(scope) = << >> => tree' = tree
    BY <2>1, SilentResetDoesNothing
  <2>3. tree' = tree => ResetEvents(scope) = << >>
    BY <2>1, IdleResetIsSilent DEF IInv
  <2> QED
    BY <2>2, <2>3 DEF ResetReply
<1> QED
  BY <1>1, Inductive, PTL DEF Spec, ReplyIsTruthful

-----------------------------------------------------------------------------
(* The block word never reports a fault its converter has left: a trip     *)
(* only adds faults, and a reset takes both out together.                  *)
FaultIsRead == \A b \in Blocks : "PCS_FAULT" \in blockWord[b] => pcs[b] = "Fault"

LEMMA NextKeepsFaultIsRead == IInv /\ FaultIsRead /\ [Next]_vars => FaultIsRead'
<1> SUFFICES ASSUME IInv, FaultIsRead, [Next]_vars PROVE FaultIsRead'
  OBVIOUS
<1>1. CASE Tick
  <2>1. PICK out \in [Blocks -> Outcomes] :
          blockWord' = [b \in Blocks |-> EvaluateBlock(b, out[b], pcs'[b])]
    BY <1>1 DEF Tick, Control
  <2> QED
    BY <2>1 DEF FaultIsRead, EvaluateBlock, WithBit
<1>2. ASSUME NEW b \in Blocks, ApplyPcsTrip(b) PROVE FaultIsRead'
  BY <1>2 DEF ApplyPcsTrip, FaultIsRead, IInv, ControlTypeOK
<1>3. CASE ApplyProtectionTrip
  BY <1>3 DEF ApplyProtectionTrip, FaultIsRead, IInv, ControlTypeOK
<1>4. ASSUME NEW scope \in Nodes, Reset(scope) PROVE FaultIsRead'
  <2> SUFFICES ASSUME NEW b \in Blocks, "PCS_FAULT" \in blockWord'[b] PROVE pcs'[b] = "Fault"
    BY DEF FaultIsRead
  <2>1. blockWord'[b] = AfterReset(scope, <<b>>, blockWord[b]) /\ pcs'[b] = PcsAfterReset(scope, b)
    BY <1>4 DEF Reset
  <2>2. "PCS_FAULT" \in TripBits
    BY DEF TripBits
  <2>3. ~Covers(scope, <<b>>) /\ "PCS_FAULT" \in blockWord[b]
    BY <2>1, <2>2 DEF AfterReset
  <2> QED
    BY <2>1, <2>3 DEF PcsAfterReset, FaultIsRead
<1>5. CASE UNCHANGED <<blockWord, pcs>>
  BY <1>5 DEF FaultIsRead
<1>6. Tick \/ ApplyProtectionTrip \/ (\E b \in Blocks : ApplyPcsTrip(b))
        \/ (\E scope \in Nodes : Reset(scope)) \/ UNCHANGED <<blockWord, pcs>>
  BY DEF Next, SetExternalSetpoint, ClearExternalSetpoint, ApplyHvac, ApplyRack,
         ApplyMode, ApplySelfDischarge, HmiReset, ApplyReset, vars, tree
<1> QED
  BY <1>1, <1>2, <1>3, <1>4, <1>5, <1>6

LEMMA LatchInductive == Spec => [](IInv /\ Told /\ HeardIsATree /\ FaultIsRead)
<1>1. Init => FaultIsRead
  BY DEF Init, FaultIsRead
<1> QED
  BY <1>1, StreamInductive, NextKeepsFaultIsRead, PTL DEF Spec

(* An action of the door makes the mailbox longer; a reset does, unless it *)
(* says nothing.                                                           *)
LEMMA MailboxGrows ==
  ASSUME Told, NEW events, events \in Seq(Events)
  PROVE  /\ Len(pending \o events) <= Len(pending) => events = << >>
         /\ \A action, node : Apply(action, node, events) => ~(Len(pending') <= Len(pending))
<1>1. pending \in Seq(Events)
  BY DEF Told, Leads
<1>2. Len(pending \o events) <= Len(pending) => events = << >>
  <2>1. Len(pending \o events) = Len(pending) + Len(events) /\ Len(pending) \in Nat /\ Len(events) \in Nat
    BY <1>1
  <2>2. Len(events) = 0 => events = << >>
    OBVIOUS
  <2> QED
    BY <2>1, <2>2
<1>3. ASSUME NEW action, NEW node, Apply(action, node, events)
      PROVE  ~(Len(pending') <= Len(pending))
  <2> DEFINE e == Applied(action, node)
             T == Events \cup {e}
             longer == pending \o <<e>>
  <2>1. pending \in Seq(T) /\ e \in T /\ events \in Seq(T) /\ Len(pending) \in Nat
    BY <1>1
  <2> HIDE DEF e, T
  <2>2. longer \in Seq(T) /\ Len(longer) = Len(pending) + 1
    BY <2>1
  <2> HIDE DEF longer
  <2>3. Len(longer \o events) = Len(longer) + Len(events) /\ Len(events) \in Nat
    BY <2>1, <2>2
  <2> QED
    BY <1>3, <2>1, <2>2, <2>3 DEF Apply, e, longer
<1> QED
  BY <1>2, <1>3

(* What the tick may do to a latched bit.                                  *)
LEMMA TickKeepsLatches ==
  ASSUME IInv, FaultIsRead, Tick
  PROVE  /\ \A n \in Nodes : Words[n] \cap TripBits \subseteq Words'[n]
         /\ \A b \in Blocks : pcs[b] = "Fault" => pcs'[b] = "Fault"
<1>1. PICK target \in Targets, heat \in [Racks -> RackLevels], short \in MissLevels,
           out \in [Blocks -> Outcomes] : Control(target, heat, short, out)
  BY DEF Tick
<1>2. \A b \in Blocks : pcs[b] = "Fault" => pcs'[b] = "Fault"
  BY <1>1 DEF Control, Finalize
<1>3. siteWord \cap TripBits \subseteq siteWord'
  <2>1. siteWord \cap TripBits \subseteq {"PROTECTION_TRIP"}
    BY DEF IInv, ControlTypeOK, TripBits, SiteLayout, ToSet
  <2>2. siteWord \cap {"PROTECTION_TRIP"} \subseteq siteWord'
    BY <1>1 DEF Control, EvaluateSite
  <2> QED
    BY <2>1, <2>2
<1>4. ASSUME NEW b \in Blocks PROVE blockWord[b] \cap TripBits \subseteq blockWord'[b]
  <2>1. blockWord[b] \cap TripBits \subseteq {"PCS_FAULT"}
    <3>1. blockWord[b] \subseteq ToSet(BlockLayout)
      BY DEF IInv, ControlTypeOK
    <3>2. ToSet(BlockLayout) \cap TripBits \subseteq {"PCS_FAULT"}
      BY DEF TripBits, BlockLayout, ToSet
    <3> QED
      BY <3>1, <3>2
  <2>2. "PCS_FAULT" \in blockWord[b] => pcs'[b] = "Fault"
    BY <1>2 DEF FaultIsRead
  <2>3. pcs'[b] = "Fault" => "PCS_FAULT" \in blockWord'[b]
    BY <1>1 DEF Control, EvaluateBlock, WithBit
  <2> QED
    BY <2>1, <2>2, <2>3
<1>5. ASSUME NEW r \in Racks PROVE rackWord[r] \cap TripBits \subseteq rackWord'[r]
  <2>1. rackWord[r] \cap TripBits \subseteq {"OVER_TEMP_TRIP"}
    <3>1. rackWord[r] \subseteq ToSet(RackLayout)
      BY DEF IInv, ControlTypeOK
    <3>2. ToSet(RackLayout) \cap TripBits \subseteq {"OVER_TEMP_TRIP"}
      BY DEF TripBits, RackLayout, ToSet
    <3> QED
      BY <3>1, <3>2
  <2>2. "OVER_TEMP_TRIP" \in rackWord[r] => "OVER_TEMP_TRIP" \in rackWord'[r]
    BY <1>1 DEF Control, EvaluateRack, WithBit
  <2> QED
    BY <2>1, <2>2
<1>6. /\ Words[Site] = siteWord /\ Words'[Site] = siteWord'
      /\ \A b \in Blocks : Words[<<b>>] = blockWord[b] /\ Words'[<<b>>] = blockWord'[b]
      /\ \A r \in Racks : Words[r] = rackWord[r] /\ Words'[r] = rackWord'[r]
  <2>1. Words = WordsOf(siteWord, blockWord, rackWord) /\ Words' = WordsOf(siteWord', blockWord', rackWord')
    BY DEF Words, WordsOf
  <2> QED
    BY <2>1, WordsAre
<1>7. \A n \in Nodes : Words[n] \cap TripBits \subseteq Words'[n]
  BY <1>3, <1>4, <1>5, <1>6 DEF Nodes
<1> QED
  BY <1>2, <1>7

(* A latched bit goes out, and a PCS leaves its fault, only in a step of   *)
(* the door that leaves word of it in the mailbox: no tick does it, however *)
(* cold the rack has become, and no silent step of the operator.           *)
THEOREM LatchesHold == Spec => LatchesOutliveTicks
<1>1. IInv /\ Told /\ HeardIsATree /\ FaultIsRead /\ [Next]_vars =>
        [Len(pending') <= Len(pending) =>
           /\ \A n \in Nodes : Words[n] \cap TripBits \subseteq Words'[n]
           /\ \A b \in Blocks : pcs[b] = "Fault" => pcs'[b] = "Fault"]_vars
  <2> SUFFICES ASSUME IInv, Told, HeardIsATree, FaultIsRead, [Next]_vars,
                      Len(pending') <= Len(pending)
               PROVE  /\ \A n \in Nodes : Words[n] \cap TripBits \subseteq Words'[n]
                      /\ \A b \in Blocks : pcs[b] = "Fault" => pcs'[b] = "Fault"
    OBVIOUS
  <2> DEFINE Kept == /\ \A n \in Nodes : Words[n] \cap TripBits \subseteq Words'[n]
                     /\ \A b \in Blocks : pcs[b] = "Fault" => pcs'[b] = "Fault"
  <2>1. CASE Tick
    BY <2>1, TickKeepsLatches
  <2>2. ASSUME UNCHANGED <<pcs, siteWord, blockWord, rackWord>> PROVE Kept
    <3>1. Words' = Words /\ pcs' = pcs
      BY <2>2 DEF Words
    <3> QED
      BY <3>1
  <2>3. ASSUME NEW b \in Blocks, ApplyPcsTrip(b) PROVE Kept
    <3>1. Words' = Words
      BY <2>3 DEF ApplyPcsTrip, Words
    <3>2. \A c \in Blocks : pcs[c] = "Fault" => pcs'[c] = "Fault"
      BY <2>3 DEF ApplyPcsTrip, IInv, ControlTypeOK
    <3> QED
      BY <3>1, <3>2
  <2>4. CASE ApplyProtectionTrip
    <3>1. UNCHANGED <<blockWord, rackWord>> /\ siteWord \subseteq siteWord'
      BY <2>4 DEF ApplyProtectionTrip
    <3>2. \A n \in Nodes : Words[n] \subseteq Words'[n]
      BY <3>1 DEF Words
    <3>3. \A b \in Blocks : pcs[b] = "Fault" => pcs'[b] = "Fault"
      BY <2>4 DEF ApplyProtectionTrip
    <3> QED
      BY <3>2, <3>3
  <2>5. ASSUME NEW scope \in Nodes, HmiReset(scope) \/ ApplyReset(scope) PROVE Kept
    <3>1. Reset(scope) /\ IInv'
      BY <2>5, NextKeepsIInv DEF HmiReset, ApplyReset
    <3>2. ResetEvents(scope) \in Seq(Events)
      BY <3>1, ResetTells DEF Leads, IInv
    <3>3. HmiReset(scope) /\ ResetEvents(scope) = << >>
      BY <2>5, <3>2, MailboxGrows DEF HmiReset, ApplyReset
    <3>4. UNCHANGED tree
      BY <3>1, <3>3, SilentResetDoesNothing
    <3> QED
      BY <2>2, <3>4 DEF tree
  <2>6. UNCHANGED <<pcs, siteWord, blockWord, rackWord>>
          \/ Tick \/ ApplyProtectionTrip \/ (\E b \in Blocks : ApplyPcsTrip(b))
          \/ (\E scope \in Nodes : HmiReset(scope) \/ ApplyReset(scope))
    BY DEF Next, SetExternalSetpoint, ClearExternalSetpoint, ApplyHvac, ApplyRack,
           ApplyMode, ApplySelfDischarge, vars, tree
  <2> QED
    BY <2>1, <2>2, <2>3, <2>4, <2>5, <2>6
<1> QED
  BY <1>1, LatchInductive, PTL DEF Spec, LatchesOutliveTicks

-----------------------------------------------------------------------------
(* The tree at rest.                                                       *)
LEMMA TickSettles == ASSUME IInv, IInv', Tick PROVE SettledTree'
<1>1. PICK target \in Targets, heat \in [Racks -> RackLevels], short \in MissLevels,
           out \in [Blocks -> Outcomes] : Control(target, heat, short, out)
  BY DEF Tick
<1>2. UNCHANGED <<breaker, mode>> /\ breaker \in {"Open", "Closed"}
  BY DEF Tick, IInv, ControlTypeOK
<1>3. ASSUME NEW b \in Blocks
      PROVE  /\ Possible(b, target # 0 /\ Dispatchable(b, released', pcs), out[b])
             /\ pcs'[b] = Finalize(pcs[b], out[b].run)
             /\ blockWord'[b] = EvaluateBlock(b, out[b], pcs'[b])
             /\ out[b] \in Outcomes
             /\ Dispatchable(b, released', pcs) => Dispatchable(b, released, pcs)'
  <2>1. /\ Possible(b, target # 0 /\ Dispatchable(b, released', pcs), out[b])
        /\ pcs'[b] = Finalize(pcs[b], out[b].run)
        /\ blockWord'[b] = EvaluateBlock(b, out[b], pcs'[b])
        /\ out[b] \in Outcomes
    BY <1>1 DEF Control
  <2>2. Dispatchable(b, released', pcs) => Dispatchable(b, released, pcs)'
    BY <1>2, <2>1 DEF Dispatchable, Finalize
  <2> QED
    BY <2>1, <2>2
<1>4. ASSUME NEW b \in Blocks, pcs'[b] = "Run" PROVE Dispatchable(b, released, pcs)'
  <2>1. out[b].run
    BY <1>3, <1>4 DEF Finalize
  <2> QED
    BY <1>3, <2>1 DEF Possible
<1>5. ASSUME NEW b \in Blocks, "SETPOINT_NOT_MET" \in blockWord'[b] PROVE Dispatchable(b, released, pcs)'
  <2>1. out[b].miss > 0 \/ MissTimer(b, out[b].miss) >= Deadband
    BY <1>3, <1>5 DEF EvaluateBlock, WithBit
  <2>2. out[b].miss # 0
    BY <2>1, PlantAssumption DEF MissTimer
  <2> QED
    BY <1>3, <2>2 DEF Possible
<1>6. ASSUME released' < NBlocks PROVE "PARTIAL_AVAILABILITY" \in siteWord'
  <2>1. released' \in Blocks
    BY <1>6, PlantAssumption DEF IInv, ControlTypeOK, Blocks
  <2>2. ~Dispatchable(released', released', pcs')
    BY <2>1 DEF Dispatchable, Blocks
  <2>3. \E b \in Blocks : ~Dispatchable(b, released', pcs')
    BY <2>1, <2>2
  <2> QED
    BY <1>1, <2>3 DEF Control, EvaluateSite, WithBit
<1>7. \A b \in Blocks : pcs'[b] = "Fault" <=> "PCS_FAULT" \in blockWord'[b]
  BY <1>3 DEF EvaluateBlock, WithBit
<1>8. breaker' = "Open" <=> "HV_BREAKER_OPEN" \in siteWord'
  BY <1>1, <1>2 DEF Control, EvaluateSite, WithBit
<1> QED
  BY <1>4, <1>5, <1>6, <1>7, <1>8 DEF SettledTree

LEMMA NextKeepsSettled ==
  ASSUME IInv, IInv', Told, SettledTree, [Next]_vars PROVE SettledTree'
<1>1. CASE Tick
  BY <1>1, TickSettles
<1>2. ASSUME UNCHANGED <<tree, pending>> PROVE SettledTree'
  BY <1>2 DEF tree, SettledTree, Dispatchable
<1>3. ASSUME UNCHANGED <<breaker, released, mode, pcs, siteWord, blockWord, pending>>
      PROVE  SettledTree'
  BY <1>3 DEF SettledTree, Dispatchable
<1>4. pending \in Seq(Events)
  BY DEF Told, Leads
<1>5. ASSUME NEW action, NEW node, NEW events \in Seq(Events), Apply(action, node, events)
      PROVE  SettledTree'
  <2>1. ~(Len(pending') <= Len(pending))
    BY <1>5, MailboxGrows
  <2>2. pending' # << >>
    <3>1. Len(<< >>) <= Len(pending)
      BY <1>4
    <3> QED
      BY <2>1, <3>1
  <2> QED
    BY <2>2 DEF SettledTree
<1>6. ASSUME NEW scope \in Nodes, HmiReset(scope) \/ ApplyReset(scope) PROVE SettledTree'
  <2>1. Reset(scope) /\ ResetEvents(scope) \in Seq(Events)
    BY <1>6, ResetTells DEF HmiReset, ApplyReset, Leads, IInv
  <2>2. CASE ApplyReset(scope)
    BY <1>5, <2>1, <2>2 DEF ApplyReset
  <2>3. CASE HmiReset(scope)
    <3>1. pending' = pending \o ResetEvents(scope)
      BY <2>3 DEF HmiReset
    <3>2. CASE pending' # << >>
      BY <3>2 DEF SettledTree
    <3>3. CASE pending' = << >>
      <4>1. pending = << >> /\ ResetEvents(scope) = << >>
        BY <1>4, <2>1, <3>1, <3>3, ConcatFacts
      <4>2. UNCHANGED tree
        BY <2>1, <4>1, SilentResetDoesNothing
      <4> QED
        BY <1>2, <3>3, <4>1, <4>2
    <3> QED
      BY <3>2, <3>3
  <2> QED
    BY <1>6, <2>2, <2>3
<1>7. << >> \in Seq(Events)
  OBVIOUS
<1>8. ASSUME NEW b \in Blocks, ApplyPcsTrip(b) PROVE SettledTree'
  <2>1. PushPcs(b, pcs[b], "Fault") \in Seq(Events)
    BY WordsTyped, PcsTripTells DEF Leads, IInv
  <2> QED
    BY <1>5, <1>8, <2>1 DEF ApplyPcsTrip
<1>9. CASE ApplyProtectionTrip
  <2>1. CASE TripRefused
    BY <1>5, <1>7, <1>9, <2>1 DEF ApplyProtectionTrip
  <2>2. CASE ~TripRefused
    <3>1. /\ siteWord' = siteWord \cup {"PROTECTION_TRIP"}
          /\ pcs' = [b \in Blocks |-> "Fault"] /\ UNCHANGED <<blockWord, rackWord>>
          /\ Apply("protection_trip", Site, ProtectionEvents)
      BY <1>9, <2>2 DEF ApplyProtectionTrip, ProtectionEvents
    <3>2. ProtectionEvents \in Seq(Events)
      BY <2>2, <3>1, ProtectionTells DEF Leads
    <3> QED
      BY <1>5, <3>1, <3>2
  <2> QED
    BY <2>1, <2>2
<1>10. CASE \E c \in Containers, failed \in BOOLEAN : ApplyHvac(c, failed)
  BY <1>5, <1>7, <1>10 DEF ApplyHvac
<1>11. CASE \E r \in Racks, on \in BOOLEAN : ApplyRack(r, on)
  BY <1>5, <1>7, <1>11 DEF ApplyRack
<1>12. CASE \E b \in Blocks, m \in BlockMode : ApplyMode(b, m)
  BY <1>5, <1>7, <1>12 DEF ApplyMode
<1>13. CASE \E r \in Racks : ApplySelfDischarge(r)
  BY <1>5, <1>7, <1>13 DEF ApplySelfDischarge
<1>14. CASE (\E p \in Setpoints : SetExternalSetpoint(p)) \/ ClearExternalSetpoint \/ UNCHANGED vars
  BY <1>3, <1>14 DEF SetExternalSetpoint, ClearExternalSetpoint, vars, tree
<1> QED
  BY <1>1, <1>6, <1>8, <1>9, <1>10, <1>11, <1>12, <1>13, <1>14 DEF Next

(* Whenever no event waits, allocation, availability and alarms agree: what *)
(* runs may run, what is blamed was asked, what is held back is reported.   *)
THEOREM TreeSettles == Spec => []SettledTree
<1>1. Init => SettledTree
  BY PlantAssumption DEF Init, SettledTree
<1>2. IInv /\ Told /\ HeardIsATree /\ SettledTree /\ [Next]_vars => SettledTree'
  BY NextKeepsIInv, NextKeepsSettled
<1> QED
  BY <1>1, <1>2, StreamInductive, PTL DEF Spec

-----------------------------------------------------------------------------
(* The order of the log.  An effect is what an action leaves behind its    *)
(* mark; it is quiet when it is not the fault of a converter.              *)
CauseFirstIn(s) ==
  \A i \in DOMAIN s :
    s[i].kind = "pcs" /\ s[i].to = "Fault" =>
      \E j \in 1..(i - 1) :
        /\ s[j].kind = "applied"
        /\ s[j].action \in {"trip", "protection_trip"}
        /\ \A k \in (j + 1)..i : s[k].kind # "applied"

Effects == AlarmEvents \cup PcsEvents
QuietEffects == AlarmEvents \cup {e \in PcsEvents : e.to # "Fault"}
Quiet == QuietEffects \cup Marks

LEMMA ChangesAreAlarms ==
  ASSUME NEW n \in Nodes, NEW old, NEW new
  PROVE  PushChanges(n, old, new) \in Seq(AlarmEvents)
<1> DEFINE N == Len(Layout(n))
           seqs == [i \in 1..N |-> PushChange(n, Layout(n)[i], old, new)]
<1>1. N \in Nat \ {0} /\ \A i \in 1..N : Layout(n)[i] \in Bits
  BY LayoutFacts
<1>2. ASSUME NEW bit \in Bits PROVE PushChange(n, bit, old, new) \in Seq(AlarmEvents)
  <2> DEFINE r == Raised(n, bit)
             c == Cleared(n, bit)
  <2>1. r \in AlarmEvents /\ c \in AlarmEvents
    BY DEF Raised, Cleared, AlarmEvents
  <2> HIDE DEF r, c
  <2>2. <<r>> \in Seq(AlarmEvents) /\ <<c>> \in Seq(AlarmEvents) /\ << >> \in Seq(AlarmEvents)
    BY <2>1
  <2> QED
    BY <2>2 DEF PushChange, r, c
<1> HIDE DEF N
<1>3. seqs \in Seq(Seq(AlarmEvents)) /\ seqs # << >>
  <2>1. seqs \in [1..N -> Seq(AlarmEvents)]
    BY <1>1, <1>2
  <2>2. seqs \in Seq(Seq(AlarmEvents)) /\ Len(seqs) = N
    BY <1>1, <2>1
  <2> QED
    BY <1>1, <2>2
<1> HIDE DEF seqs
<1>4. FlattenSeq(seqs) \in Seq(AlarmEvents)
  BY <1>3, FlattenFacts
<1>5. << >> \in Seq(AlarmEvents)
  OBVIOUS
<1> QED
  BY <1>4, <1>5 DEF PushChanges, seqs, N

(* A loop over the blocks, or over the racks of one, keeps to the events   *)
(* of its body.                                                            *)
LEMMA LoopKeepsTo ==
  ASSUME NEW S, NEW n \in Nat \ {0}, NEW seqs \in [1..n -> Seq(S)]
  PROVE  FlattenSeq(seqs) \in Seq(S)
<1>1. seqs \in Seq(Seq(S)) /\ Len(seqs) = n
  OBVIOUS
<1>2. seqs # << >>
  BY <1>1
<1> QED
  BY <1>1, <1>2, FlattenFacts

LEMMA ProtectionLeavesEffects ==
  ASSUME ControlTypeOK PROVE ProtectionEvents \in Seq(Effects)
<1> DEFINE seqs == [i \in 1..NBlocks |-> PushPcs(i - 1, pcs[i - 1], "Fault")]
           e == Raised(Site, "PROTECTION_TRIP")
<1>1. e \in Effects
  BY NodeKinds, SiteBits DEF Raised, AlarmEvents, Bits, Layout, Effects
<1>2. ASSUME NEW b \in Blocks PROVE PushPcs(b, pcs[b], "Fault") \in Seq(Effects)
  <2> DEFINE c == PcsChanged(b, pcs[b], "Fault")
  <2>1. c \in Effects
    BY DEF PcsChanged, PcsEvents, Effects, ControlTypeOK, PcsOpState
  <2> HIDE DEF c
  <2>2. <<c>> \in Seq(Effects) /\ << >> \in Seq(Effects)
    BY <2>1
  <2> QED
    BY <2>2 DEF PushPcs, c
<1>3. NBlocks \in Nat \ {0} /\ \A i \in 1..NBlocks : i - 1 \in Blocks
  BY PlantAssumption DEF Blocks
<1>4. seqs \in [1..NBlocks -> Seq(Effects)]
  BY <1>2, <1>3
<1>5. OverBlocks(LAMBDA b : PushPcs(b, pcs[b], "Fault")) = FlattenSeq(seqs)
  BY DEF OverBlocks
<1> HIDE DEF seqs, e
<1>6. FlattenSeq(seqs) \in Seq(Effects)
  BY <1>3, <1>4, LoopKeepsTo
<1>7. <<e>> \in Seq(Effects)
  BY <1>1
<1>8. <<e>> \o FlattenSeq(seqs) \in Seq(Effects)
  BY <1>6, <1>7
<1> QED
  BY <1>5, <1>8 DEF ProtectionEvents, e

LEMMA ResetIsQuiet ==
  ASSUME ControlTypeOK, NEW scope \in Nodes PROVE ResetEvents(scope) \in Seq(QuietEffects)
<1> DEFINE Reached(b) == PushPcs(b, pcs[b], PcsAfterReset(scope, b))
                           \o ResetChange(scope, <<b>>, blockWord[b])
                           \o OverRacks(b, LAMBDA r : ResetChange(scope, r, rackWord[r]))
           seqs == [i \in 1..NBlocks |-> Reached(i - 1)]
<1>1. \A n \in Nodes : \A word : ResetChange(scope, n, word) \in Seq(QuietEffects)
  <2>1. \A n \in Nodes : \A word : ResetChange(scope, n, word) \in Seq(AlarmEvents)
    BY ChangesAreAlarms DEF ResetChange
  <2>2. AlarmEvents \subseteq QuietEffects
    BY DEF QuietEffects
  <2> QED
    BY <2>1, <2>2
<1>2. ASSUME NEW b \in Blocks PROVE Reached(b) \in Seq(QuietEffects)
  <2> DEFINE N == NContainers * NRacks
             at == [i \in 1..N |-> ResetChange(scope, RackAt(b, i), rackWord[RackAt(b, i)])]
             racks == OverRacks(b, LAMBDA r : ResetChange(scope, r, rackWord[r]))
  <2>1. N \in Nat \ {0} /\ \A i \in 1..N : RackAt(b, i) \in Nodes
    BY RackOrder, NodeKinds
  <2>2. at \in [1..N -> Seq(QuietEffects)]
    BY <1>1, <2>1
  <2>3. racks = FlattenSeq(at)
    BY DEF OverRacks, RackAt
  <2> HIDE DEF at, N, racks
  <2>4. racks \in Seq(QuietEffects)
    BY <2>1, <2>2, <2>3, LoopKeepsTo
  <2>5. PushPcs(b, pcs[b], PcsAfterReset(scope, b)) \in Seq(QuietEffects)
    <3>1. CASE PcsAfterReset(scope, b) = pcs[b]
      <4>1. PushPcs(b, pcs[b], PcsAfterReset(scope, b)) = << >>
        BY <3>1 DEF PushPcs
      <4> QED
        BY <4>1
    <3>2. CASE PcsAfterReset(scope, b) # pcs[b]
      <4> DEFINE e == PcsChanged(b, "Fault", "Standby")
      <4>1. PushPcs(b, pcs[b], PcsAfterReset(scope, b)) = <<e>>
        BY <3>2 DEF PushPcs, PcsAfterReset
      <4>2. e \in QuietEffects
        BY DEF PcsChanged, PcsEvents, PcsOpState, QuietEffects
      <4> HIDE DEF e
      <4> QED
        BY <4>1, <4>2
    <3> QED
      BY <3>1, <3>2
  <2>6. ResetChange(scope, <<b>>, blockWord[b]) \in Seq(QuietEffects)
    BY <1>1, NodeLengths
  <2> DEFINE x == PushPcs(b, pcs[b], PcsAfterReset(scope, b))
             y == ResetChange(scope, <<b>>, blockWord[b])
  <2>7. Reached(b) = x \o y \o racks
    BY DEF racks
  <2> HIDE DEF x, y, Reached
  <2>8. x \o y \o racks \in Seq(QuietEffects)
    BY <2>4, <2>5, <2>6 DEF x, y
  <2> QED
    BY <2>7, <2>8
<1>3. NBlocks \in Nat \ {0} /\ \A i \in 1..NBlocks : i - 1 \in Blocks
  BY PlantAssumption DEF Blocks
<1>4. OverBlocks(Reached) = FlattenSeq(seqs)
  BY DEF OverBlocks
<1>5. ResetEvents(scope) = FlattenSeq(seqs) \o ResetChange(scope, Site, siteWord)
  BY <1>4 DEF ResetEvents
<1> HIDE DEF Reached
<1>6. seqs \in [1..NBlocks -> Seq(QuietEffects)]
  BY <1>2, <1>3
<1> HIDE DEF seqs
<1>7. FlattenSeq(seqs) \in Seq(QuietEffects)
  BY <1>3, <1>6, LoopKeepsTo
<1>8. ResetChange(scope, Site, siteWord) \in Seq(QuietEffects)
  BY <1>1, NodeKinds
<1> QED
  BY <1>5, <1>7, <1>8

(* Quiet events change nothing in the order of the log.                    *)
LEMMA QuietAppends ==
  ASSUME NEW s \in Seq(Events), CauseFirstIn(s), NEW t \in Seq(Quiet)
  PROVE  CauseFirstIn(s \o t)
<1> DEFINE st == s \o t
<1>1. t \in Seq(Events)
  <2>1. Quiet \subseteq Events
    BY EventKinds DEF Quiet, QuietEffects
  <2> QED
    BY <2>1
<1>2. /\ Len(s) \in Nat /\ DOMAIN s = 1..Len(s) /\ DOMAIN t = 1..Len(t)
      /\ \A i \in DOMAIN s : st[i] = s[i]
      /\ \A i \in DOMAIN st : \/ i \in DOMAIN s
                              \/ i - Len(s) \in DOMAIN t /\ st[i] = t[i - Len(s)]
  <2>1. Len(s) \in Nat /\ DOMAIN s = 1..Len(s) /\ DOMAIN t = 1..Len(t)
    BY <1>1
  <2>2. \A i \in DOMAIN s : st[i] = s[i]
    BY <1>1, ConcatFacts
  <2>3. \A i \in DOMAIN st : \/ i \in DOMAIN s
                             \/ i - Len(s) \in DOMAIN t /\ st[i] = t[i - Len(s)]
    BY <1>1, AfterTheFirst
  <2> QED
    BY <2>1, <2>2, <2>3
<1> HIDE DEF st
<1>3. \A i \in DOMAIN t : ~(t[i].kind = "pcs" /\ t[i].to = "Fault")
  <2>1. \A i \in DOMAIN t : t[i] \in Quiet
    OBVIOUS
  <2>2. \A e \in Quiet : ~(e.kind = "pcs" /\ e.to = "Fault")
    BY DEF Quiet, QuietEffects, AlarmEvents, PcsEvents, Marks
  <2> QED
    BY <2>1, <2>2
<1>4. ASSUME NEW i \in DOMAIN st, st[i].kind = "pcs", st[i].to = "Fault"
      PROVE  \E j \in 1..(i - 1) :
               /\ st[j].kind = "applied"
               /\ st[j].action \in {"trip", "protection_trip"}
               /\ \A k \in (j + 1)..i : st[k].kind # "applied"
  <2>1. i \in DOMAIN s /\ s[i].kind = "pcs" /\ s[i].to = "Fault"
    BY <1>2, <1>3, <1>4
  <2>2. PICK j \in 1..(i - 1) : /\ s[j].kind = "applied"
                                /\ s[j].action \in {"trip", "protection_trip"}
                                /\ \A k \in (j + 1)..i : s[k].kind # "applied"
    BY <2>1 DEF CauseFirstIn
  <2>3. j \in DOMAIN s /\ \A k \in (j + 1)..i : k \in DOMAIN s
    BY <1>2, <2>1
  <2>4. st[j] = s[j] /\ \A k \in (j + 1)..i : st[k] = s[k]
    BY <1>2, <2>3
  <2> QED
    BY <2>2, <2>4
<1> QED
  BY <1>4 DEF CauseFirstIn, st

(* A trip's mark goes in ahead of its effects.                             *)
LEMMA CauseThenEffects ==
  ASSUME NEW s \in Seq(Events), CauseFirstIn(s), NEW t \in Seq(Effects),
         NEW action \in {"trip", "protection_trip"}, NEW node \in Nodes
  PROVE  CauseFirstIn(s \o <<Applied(action, node)>> \o t)
<1> DEFINE e == Applied(action, node)
           n == Len(s)
           st == (s \o <<e>>) \o t
<1>1. e \in Events /\ e.kind = "applied" /\ e.action = action /\ e \in Quiet
  BY EventKinds DEF Applied, Marks, FaultNames, Quiet
<1> HIDE DEF e
<1>2. <<e>> \in Seq(Quiet) /\ <<e>> \in Seq(Events) /\ t \in Seq(Events)
  <2>1. Effects \subseteq Events
    BY EventKinds DEF Effects
  <2> QED
    BY <1>1, <2>1
<1>3. n \in Nat /\ s \o <<e>> \in Seq(Events) /\ Len(s \o <<e>>) = n + 1 /\ (s \o <<e>>)[n + 1] = e
  BY <1>1
<1>4. CauseFirstIn(s \o <<e>>)
  BY <1>2, QuietAppends
<1> DEFINE se == s \o <<e>>
<1>5. se \in Seq(Events) /\ Len(se) = n + 1 /\ se[n + 1] = e /\ n + 1 \in DOMAIN se
  BY <1>3
<1> HIDE DEF se, n
<1>6. /\ DOMAIN se = 1..(n + 1) /\ DOMAIN t = 1..Len(t)
      /\ \A i \in DOMAIN se : st[i] = se[i]
      /\ \A i \in DOMAIN st : \/ i \in DOMAIN se
                              \/ i - (n + 1) \in DOMAIN t /\ st[i] = t[i - (n + 1)]
      /\ DOMAIN st = 1..(n + 1 + Len(t)) /\ Len(t) \in Nat
  <2>1. st = se \o t
    BY DEF se
  <2> HIDE DEF st
  <2>2. /\ Len(t) \in Nat /\ DOMAIN t = 1..Len(t) /\ DOMAIN se = 1..(n + 1)
        /\ Len(se) \in Nat
    BY <1>2, <1>3, <1>5
  <2>3. DOMAIN (se \o t) = 1..(Len(se) + Len(t))
    BY <1>2, <1>5
  <2>4. \A i \in DOMAIN se : (se \o t)[i] = se[i]
    BY <1>2, <1>5, ConcatFacts
  <2>5. \A i \in DOMAIN (se \o t) : \/ i \in DOMAIN se
                                    \/ i - Len(se) \in DOMAIN t /\ (se \o t)[i] = t[i - Len(se)]
    BY <1>2, <1>5, AfterTheFirst
  <2> QED
    BY <1>5, <2>1, <2>2, <2>3, <2>4, <2>5
<1> HIDE DEF st
<1>7. \A i \in DOMAIN t : t[i].kind # "applied"
  <2>1. \A i \in DOMAIN t : t[i] \in Effects
    OBVIOUS
  <2>2. \A x \in Effects : x.kind # "applied"
    BY DEF Effects, AlarmEvents, PcsEvents
  <2> QED
    BY <2>1, <2>2
<1>8. ASSUME NEW i \in DOMAIN st, st[i].kind = "pcs", st[i].to = "Fault"
      PROVE  \E j \in 1..(i - 1) :
               /\ st[j].kind = "applied"
               /\ st[j].action \in {"trip", "protection_trip"}
               /\ \A k \in (j + 1)..i : st[k].kind # "applied"
  <2>1. CASE i \in DOMAIN se
    <3>1. PICK j \in 1..(i - 1) : /\ se[j].kind = "applied"
                                  /\ se[j].action \in {"trip", "protection_trip"}
                                  /\ \A k \in (j + 1)..i : se[k].kind # "applied"
      BY <1>4, <1>6, <1>8, <2>1 DEF CauseFirstIn, se
    <3>2. j \in DOMAIN se /\ \A k \in (j + 1)..i : k \in DOMAIN se
      BY <1>3, <1>6, <2>1
    <3>3. st[j] = se[j] /\ \A k \in (j + 1)..i : st[k] = se[k]
      BY <1>6, <3>2
    <3> QED
      BY <3>1, <3>3
  <2>2. CASE i \notin DOMAIN se
    <3> DEFINE j == n + 1
    <3>1. i \in Nat /\ i > j /\ j \in 1..(i - 1) /\ st[j] = e
      BY <1>3, <1>5, <1>6, <2>2
    <3>2. ASSUME NEW k \in (j + 1)..i PROVE st[k].kind # "applied"
      <4>1. k \in DOMAIN st /\ k \notin DOMAIN se
        BY <1>3, <1>6, <3>1
      <4> QED
        BY <1>6, <1>7, <4>1
    <3> HIDE DEF j
    <3> QED
      BY <1>1, <3>1, <3>2
  <2> QED
    BY <2>1, <2>2
<1> QED
  BY <1>8 DEF CauseFirstIn, st, e

LEMMA QuietActionKeepsOrder ==
  ASSUME pending \in Seq(Events), CauseFirstIn(pending),
         NEW action, NEW node \in Nodes \cup Containers,
         NEW events \in Seq(QuietEffects), Apply(action, node, events)
  PROVE  CauseFirstIn(pending')
<1> DEFINE e == Applied(action, node)
<1>1. e \in Quiet /\ e \in Events
  BY EventKinds, PlantAssumption DEF Apply, Applied, Marks, Quiet
<1>2. pending' = (pending \o <<e>>) \o events
  BY DEF Apply
<1> HIDE DEF e
<1>3. <<e>> \in Seq(Quiet) /\ pending \o <<e>> \in Seq(Events)
  BY <1>1
<1>4. CauseFirstIn(pending \o <<e>>)
  BY <1>3, QuietAppends
<1>5. events \in Seq(Quiet)
  <2>1. QuietEffects \subseteq Quiet
    BY DEF Quiet
  <2> QED
    BY <2>1
<1> QED
  BY <1>2, <1>3, <1>4, <1>5, QuietAppends

LEMMA NextKeepsOrder ==
  ASSUME IInv, Told, CauseFirstIn(pending), [Next]_vars PROVE CauseFirstIn(pending')
<1>1. pending \in Seq(Events) /\ ControlTypeOK /\ << >> \in Seq(QuietEffects)
  BY DEF Told, Leads, IInv
<1>2. CASE Tick
  BY <1>2 DEF Tick, CauseFirstIn
<1>3. CASE UNCHANGED pending
  BY <1>3
<1>4. ASSUME NEW b \in Blocks, ApplyPcsTrip(b) PROVE CauseFirstIn(pending')
  <2> DEFINE c == PcsChanged(b, pcs[b], "Fault")
             t == PushPcs(b, pcs[b], "Fault")
  <2>1. c \in Effects
    BY <1>1 DEF PcsChanged, PcsEvents, Effects, ControlTypeOK, PcsOpState
  <2>2. t \in Seq(Effects)
    <3> HIDE DEF c
    <3>1. <<c>> \in Seq(Effects) /\ << >> \in Seq(Effects)
      BY <2>1
    <3> QED
      BY <3>1 DEF PushPcs, c
  <2>3. pending' = pending \o <<Applied("trip", <<b>>)>> \o t /\ <<b>> \in Nodes
    BY <1>4, NodeLengths DEF ApplyPcsTrip, Apply
  <2> HIDE DEF t
  <2> QED
    BY <1>1, <2>2, <2>3, CauseThenEffects
<1>5. CASE ApplyProtectionTrip
  <2>1. CASE TripRefused
    <3>1. Apply("protection_trip", Site, << >>) /\ Site \in Nodes \cup Containers
      BY <1>5, <2>1, NodeKinds DEF ApplyProtectionTrip
    <3> QED
      BY <1>1, <3>1, QuietActionKeepsOrder
  <2>2. CASE ~TripRefused
    <3>1. pending' = pending \o <<Applied("protection_trip", Site)>> \o ProtectionEvents
      BY <1>5, <2>2 DEF ApplyProtectionTrip, ProtectionEvents, Apply
    <3>2. ProtectionEvents \in Seq(Effects) /\ Site \in Nodes
      BY <1>1, ProtectionLeavesEffects, NodeKinds
    <3> QED
      BY <1>1, <3>1, <3>2, CauseThenEffects
  <2> QED
    BY <2>1, <2>2
<1>6. ASSUME NEW scope \in Nodes, HmiReset(scope) PROVE CauseFirstIn(pending')
  <2>1. ResetEvents(scope) \in Seq(Quiet)
    <3>1. ResetEvents(scope) \in Seq(QuietEffects) /\ QuietEffects \subseteq Quiet
      BY <1>1, ResetIsQuiet DEF Quiet
    <3> QED
      BY <3>1
  <2> QED
    BY <1>1, <1>6, <2>1, QuietAppends DEF HmiReset
<1>7. ASSUME NEW scope \in Nodes, ApplyReset(scope) PROVE CauseFirstIn(pending')
  BY <1>1, <1>7, ResetIsQuiet, QuietActionKeepsOrder DEF ApplyReset
<1>8. CASE \E c \in Containers, failed \in BOOLEAN : ApplyHvac(c, failed)
  BY <1>1, <1>8, QuietActionKeepsOrder DEF ApplyHvac
<1>9. CASE \E r \in Racks, on \in BOOLEAN : ApplyRack(r, on)
  BY <1>1, <1>9, NodeLengths, QuietActionKeepsOrder DEF ApplyRack
<1>10. ASSUME NEW b \in Blocks, NEW m \in BlockMode, ApplyMode(b, m) PROVE CauseFirstIn(pending')
  <2>1. <<b>> \in Nodes \cup Containers
    BY NodeLengths
  <2> QED
    BY <1>1, <1>10, <2>1, QuietActionKeepsOrder DEF ApplyMode
<1>11. CASE \E r \in Racks : ApplySelfDischarge(r)
  BY <1>1, <1>11, NodeLengths, QuietActionKeepsOrder DEF ApplySelfDischarge
<1>12. CASE (\E p \in Setpoints : SetExternalSetpoint(p)) \/ ClearExternalSetpoint \/ UNCHANGED vars
  BY <1>12 DEF SetExternalSetpoint, ClearExternalSetpoint, vars
<1> QED
  BY <1>2, <1>4, <1>5, <1>6, <1>7, <1>8, <1>9, <1>10, <1>11, <1>12 DEF Next

(* A converter falls to fault in the log only behind the mark of the trip  *)
(* that felled it, with nothing but that trip's effects in between.        *)
THEOREM LogReadsCauseFirst == Spec => []CauseFirst
<1>1. Init => CauseFirst
  BY DEF Init, CauseFirst
<1>2. IInv /\ Told /\ HeardIsATree /\ CauseFirst /\ [Next]_vars => CauseFirst'
  BY NextKeepsOrder DEF CauseFirst, CauseFirstIn
<1> QED
  BY <1>1, <1>2, StreamInductive, PTL DEF Spec

-----------------------------------------------------------------------------
(* A word that changes is told of.                                         *)
LEMMA ChangeIsTold ==
  ASSUME NEW n \in Nodes, NEW old, NEW new,
         old \subseteq ToSet(Layout(n)), new \subseteq ToSet(Layout(n))
  PROVE  /\ PushChanges(n, old, new) \in Seq(Events)
         /\ PushChanges(n, old, new) = << >> <=> old = new
<1> DEFINE len == Len(Layout(n))
           seqs == [i \in 1..len |-> PushChange(n, Layout(n)[i], old, new)]
<1>1. CASE old = new
  BY <1>1 DEF PushChanges
<1>2. CASE old # new
  <2>1. /\ len \in Nat \ {0}
        /\ ToSet(Layout(n)) = {Layout(n)[i] : i \in 1..len}
        /\ \A i \in 1..len : Layout(n)[i] \in Bits
    BY LayoutFacts
  <2> HIDE DEF len
  <2>2. ASSUME NEW i \in 1..len PROVE seqs[i] \in Seq(Events)
    <3>1. Raised(n, Layout(n)[i]) \in Events /\ Cleared(n, Layout(n)[i]) \in Events
      BY <2>1, EventKinds DEF Raised, Cleared, AlarmEvents
    <3>2. PushChange(n, Layout(n)[i], old, new)
            \in {<<Raised(n, Layout(n)[i])>>, <<Cleared(n, Layout(n)[i])>>, << >>}
      BY DEF PushChange
    <3>3. /\ <<Raised(n, Layout(n)[i])>> \in Seq(Events)
          /\ <<Cleared(n, Layout(n)[i])>> \in Seq(Events) /\ << >> \in Seq(Events)
      BY <3>1
    <3>4. seqs[i] = PushChange(n, Layout(n)[i], old, new)
      OBVIOUS
    <3> HIDE DEF seqs
    <3> QED
      BY <3>2, <3>3, <3>4, Zenon
  <2>3. seqs \in Seq(Seq(Events)) /\ seqs # << >> /\ DOMAIN seqs = 1..len
    BY <2>1, <2>2
  <2>4. PICK bit \in ToSet(Layout(n)) : (bit \in old) # (bit \in new)
    BY <1>2
  <2>5. PICK i \in 1..len : Layout(n)[i] = bit
    BY <2>1
  <2>6. seqs[i] # << >>
    BY <2>4, <2>5 DEF PushChange
  <2>7. PushChanges(n, old, new) = FlattenSeq(seqs)
    BY <1>2 DEF PushChanges, len
  <2> HIDE DEF seqs
  <2> QED
    BY <1>2, <2>3, <2>6, <2>7, FlattenFacts
<1> QED
  BY <1>1, <1>2

(* What a reset leaves on a node: nothing but where it clears a latch.     *)
LEMMA ResetChangeIs ==
  ASSUME NEW scope \in Nodes, NEW n \in Nodes, NEW word, word \subseteq ToSet(Layout(n))
  PROVE  /\ ResetChange(scope, n, word) \in Seq(Events)
         /\ ResetChange(scope, n, word) = << >> <=> ~(Covers(scope, n) /\ word \cap TripBits # {})
<1>1. AfterReset(scope, n, word) \subseteq ToSet(Layout(n))
  BY DEF AfterReset
<1>2. AfterReset(scope, n, word) = word <=> ~(Covers(scope, n) /\ word \cap TripBits # {})
  BY DEF AfterReset
<1> QED
  BY <1>1, <1>2, ChangeIsTold DEF ResetChange

(* The racks of a block, by their place in its order.                      *)
LEMMA RackIndices ==
  ASSUME NEW b \in Blocks
  PROVE  /\ \A i \in 1..(NContainers * NRacks) : RackAt(b, i) \in Racks /\ RackAt(b, i)[1] = b
         /\ \A r \in Racks : r[1] = b => \E i \in 1..(NContainers * NRacks) : r = RackAt(b, i)
<1>1. \A r \in RacksOf(b) : r \in Racks /\ r[1] = b
  BY NodeKinds DEF RacksOf
<1>2. \A r \in Racks : r[1] = b => r \in RacksOf(b)
  BY DEF RacksOf, Racks
<1> QED
  BY <1>1, <1>2, RackOrder

LEMMA SilentRacks ==
  ASSUME ControlTypeOK, NEW scope \in Nodes, NEW b \in Blocks
  PROVE  LET said == OverRacks(b, LAMBDA r : ResetChange(scope, r, rackWord[r]))
         IN  /\ said \in Seq(Events)
             /\ said = << >> <=>
                  \A r \in Racks : r[1] = b => ~(Covers(scope, r) /\ rackWord[r] \cap TripBits # {})
<1> DEFINE N == NContainers * NRacks
           at == [i \in 1..N |-> ResetChange(scope, RackAt(b, i), rackWord[RackAt(b, i)])]
<1>1. N \in Nat \ {0}
  BY RackOrder
<1>2. ASSUME NEW r \in Racks
      PROVE  /\ ResetChange(scope, r, rackWord[r]) \in Seq(Events)
             /\ ResetChange(scope, r, rackWord[r]) = << >>
                  <=> ~(Covers(scope, r) /\ rackWord[r] \cap TripBits # {})
  <2>1. r \in Nodes /\ Layout(r) = RackLayout
    BY NodeLengths DEF Layout
  <2>2. rackWord[r] \subseteq ToSet(Layout(r))
    BY <2>1 DEF ControlTypeOK
  <2> QED
    BY <2>1, <2>2, ResetChangeIs
<1>3. OverRacks(b, LAMBDA r : ResetChange(scope, r, rackWord[r])) = FlattenSeq(at)
  BY DEF OverRacks, RackAt
<1>4. /\ \A i \in 1..N : RackAt(b, i) \in Racks /\ RackAt(b, i)[1] = b
      /\ \A r \in Racks : r[1] = b => \E i \in 1..N : r = RackAt(b, i)
  BY RackIndices
<1> HIDE DEF N
<1>5. /\ at \in Seq(Seq(Events)) /\ at # << >> /\ DOMAIN at = 1..N
      /\ \A i \in 1..N : at[i] = ResetChange(scope, RackAt(b, i), rackWord[RackAt(b, i)])
  BY <1>1, <1>2, <1>4
<1> HIDE DEF at
<1>6. /\ FlattenSeq(at) \in Seq(Events)
      /\ FlattenSeq(at) = << >> <=> \A i \in 1..N : at[i] = << >>
  BY <1>5, FlattenFacts
<1>7. (\A i \in 1..N : at[i] = << >>)
        <=> \A r \in Racks : r[1] = b => ResetChange(scope, r, rackWord[r]) = << >>
  BY <1>4, <1>5
<1> QED
  BY <1>2, <1>3, <1>6, <1>7

(* A reset is silent exactly when no converter in its scope is in fault    *)
(* and no word in its scope has a latched bit.                             *)
Stuck(scope, b) ==
  Covers(scope, <<b>>) /\ (pcs[b] = "Fault" \/ blockWord[b] \cap TripBits # {})
StuckRack(scope, r) == Covers(scope, r) /\ rackWord[r] \cap TripBits # {}

LEMMA SilentReset ==
  ASSUME ControlTypeOK, NEW scope \in Nodes
  PROVE  ResetEvents(scope) = << >> <=>
           /\ \A b \in Blocks : ~Stuck(scope, b)
           /\ \A r \in Racks : ~StuckRack(scope, r)
           /\ ~(scope = Site /\ siteWord \cap TripBits # {})
<1> DEFINE Reached(b) == PushPcs(b, pcs[b], PcsAfterReset(scope, b))
                           \o ResetChange(scope, <<b>>, blockWord[b])
                           \o OverRacks(b, LAMBDA r : ResetChange(scope, r, rackWord[r]))
           seqs == [i \in 1..NBlocks |-> Reached(i - 1)]
<1>1. ASSUME NEW b \in Blocks
      PROVE  /\ Reached(b) \in Seq(Events)
             /\ Reached(b) = << >> <=>
                  ~Stuck(scope, b) /\ \A r \in Racks : r[1] = b => ~StuckRack(scope, r)
  <2> DEFINE first == PushPcs(b, pcs[b], PcsAfterReset(scope, b))
             second == ResetChange(scope, <<b>>, blockWord[b])
             third == OverRacks(b, LAMBDA r : ResetChange(scope, r, rackWord[r]))
  <2>1. /\ first \in Seq(Events)
        /\ first = << >> <=> ~(Covers(scope, <<b>>) /\ pcs[b] = "Fault")
    <3>1. /\ pcs[b] \in PcsOpState /\ PcsAfterReset(scope, b) \in PcsOpState
          /\ PcsAfterReset(scope, b) = pcs[b] <=> ~(Covers(scope, <<b>>) /\ pcs[b] = "Fault")
      BY DEF ControlTypeOK, PcsAfterReset, PcsOpState
    <3>2. PcsChanged(b, pcs[b], PcsAfterReset(scope, b)) \in Events
      BY <3>1, EventKinds DEF PcsChanged, PcsEvents
    <3> QED
      BY <3>1, <3>2 DEF PushPcs
  <2>2. /\ second \in Seq(Events)
        /\ second = << >> <=> ~(Covers(scope, <<b>>) /\ blockWord[b] \cap TripBits # {})
    <3>1. <<b>> \in Nodes /\ Layout(<<b>>) = BlockLayout
      BY NodeLengths DEF Layout
    <3>2. blockWord[b] \subseteq ToSet(Layout(<<b>>))
      BY <3>1 DEF ControlTypeOK
    <3> QED
      BY <3>1, <3>2, ResetChangeIs
  <2>3. /\ third \in Seq(Events)
        /\ third = << >> <=> \A r \in Racks : r[1] = b => ~StuckRack(scope, r)
    BY SilentRacks DEF StuckRack
  <2>4. Reached(b) = first \o second \o third
    OBVIOUS
  <2> HIDE DEF first, second, third, Reached
  <2>5. first \o second \in Seq(Events) /\ (first \o second = << >> <=> first = << >> /\ second = << >>)
    BY <2>1, <2>2, ConcatFacts
  <2>6. /\ first \o second \o third \in Seq(Events)
        /\ first \o second \o third = << >> <=> first \o second = << >> /\ third = << >>
    BY <2>3, <2>5, ConcatFacts
  <2> QED
    BY <2>1, <2>2, <2>3, <2>4, <2>5, <2>6 DEF Stuck
<1>2. /\ NBlocks \in Nat \ {0}
      /\ \A i \in 1..NBlocks : i - 1 \in Blocks
      /\ \A b \in Blocks : b + 1 \in 1..NBlocks /\ (b + 1) - 1 = b
  BY PlantAssumption DEF Blocks
<1>3. ResetEvents(scope) = FlattenSeq(seqs) \o ResetChange(scope, Site, siteWord)
  BY DEF ResetEvents, OverBlocks
<1> HIDE DEF Reached
<1>4. /\ seqs \in Seq(Seq(Events)) /\ seqs # << >> /\ DOMAIN seqs = 1..NBlocks
      /\ \A i \in 1..NBlocks : seqs[i] = Reached(i - 1)
  BY <1>1, <1>2
<1> HIDE DEF seqs
<1>5. /\ FlattenSeq(seqs) \in Seq(Events)
      /\ FlattenSeq(seqs) = << >> <=> \A i \in 1..NBlocks : seqs[i] = << >>
  BY <1>4, FlattenFacts
<1>6. (\A i \in 1..NBlocks : seqs[i] = << >>) <=> \A b \in Blocks : Reached(b) = << >>
  BY <1>2, <1>4
<1>7. /\ ResetChange(scope, Site, siteWord) \in Seq(Events)
      /\ ResetChange(scope, Site, siteWord) = << >> <=> ~(scope = Site /\ siteWord \cap TripBits # {})
  <2>1. Site \in Nodes /\ siteWord \subseteq ToSet(Layout(Site)) /\ (Covers(scope, Site) <=> scope = Site)
    BY NodeKinds, SiteScope DEF Layout, ControlTypeOK
  <2> QED
    BY <2>1, ResetChangeIs
<1>8. /\ ResetEvents(scope) = << >> <=>
           FlattenSeq(seqs) = << >> /\ ResetChange(scope, Site, siteWord) = << >>
  BY <1>3, <1>5, <1>7, ConcatFacts
<1>9. \A r \in Racks : r[1] \in Blocks
  BY DEF Racks
<1> QED
  BY <1>1, <1>5, <1>6, <1>7, <1>8, <1>9

(* So the button and the reset look at the same plant, once a tick has     *)
(* settled it: a converter in fault shows in its block's word.             *)
LEMMA ButtonsAreTrue ==
  ASSUME ControlTypeOK, SettledTree, pending = << >>
  PROVE  ButtonsTellTruth
<1> SUFFICES ASSUME NEW scope \in Nodes PROVE Latched(scope) <=> ResetReply(scope)
  BY DEF ButtonsTellTruth
<1>1. \A b \in Blocks : pcs[b] = "Fault" => blockWord[b] \cap TripBits # {}
  BY DEF SettledTree, TripBits
<1>2. \A n : Covers(scope, n) = IsPrefix(scope, n)
  BY DEF Covers
<1> HIDE DEF IsPrefix, Covers
<1>3. Latched(scope) <=>
        \/ scope = Site /\ siteWord \cap TripBits # {}
        \/ \E b \in Blocks : Stuck(scope, b)
        \/ \E r \in Racks : StuckRack(scope, r)
  BY <1>1, <1>2 DEF Latched, Stuck, StuckRack
<1> QED
  BY <1>3, SilentReset DEF ResetReply

-----------------------------------------------------------------------------
(* The list of alarms, as a set: every bit of every word, and no other.    *)
Alarms == [node : Nodes, bit : Bits]
RowsOf(n, word) == {Alarm(n, bit) : bit \in word}

LEMMA OneRow ==
  ASSUME NEW alarm \in Alarms, NEW listed \in BOOLEAN
  PROVE  /\ Row(alarm, listed) \in Seq(Alarms)
         /\ \A x : x \in ToSet(Row(alarm, listed)) <=> listed = TRUE /\ x = alarm
<1>1. <<alarm>> \in Seq(Alarms) /\ << >> \in Seq(Alarms)
  OBVIOUS
<1>2. ToSet(<<alarm>>) = {alarm} /\ ToSet(<< >>) = {}
  BY DEF ToSet
<1>3. CASE listed = TRUE
  BY <1>1, <1>2, <1>3 DEF Row
<1>4. CASE listed = FALSE
  BY <1>1, <1>2, <1>4 DEF Row
<1> QED
  BY <1>3, <1>4

LEMMA WordRows ==
  ASSUME NEW n \in Nodes, NEW word, word \subseteq ToSet(Layout(n))
  PROVE  PushWord(n, word) \in Seq(Alarms) /\ ToSet(PushWord(n, word)) = RowsOf(n, word)
<1> DEFINE len == Len(Layout(n))
           seqs == [i \in 1..len |-> Row(Alarm(n, Layout(n)[i]), Layout(n)[i] \in word)]
<1>1. /\ len \in Nat \ {0}
      /\ ToSet(Layout(n)) = {Layout(n)[i] : i \in 1..len}
      /\ \A i \in 1..len : Layout(n)[i] \in Bits
  BY LayoutFacts
<1>2. PushWord(n, word) = FlattenSeq(seqs)
  BY DEF PushWord
<1> HIDE DEF len
<1>3. ASSUME NEW i \in 1..len
      PROVE  /\ seqs[i] \in Seq(Alarms)
             /\ \A x : x \in ToSet(seqs[i]) <=>
                         Layout(n)[i] \in word /\ x = Alarm(n, Layout(n)[i])
  <2> DEFINE alarm == Alarm(n, Layout(n)[i])
             listed == Layout(n)[i] \in word
  <2>1. alarm \in Alarms /\ listed \in BOOLEAN
    BY <1>1 DEF Alarm, Alarms
  <2>2. seqs[i] = Row(alarm, listed)
    OBVIOUS
  <2>3. listed = TRUE <=> Layout(n)[i] \in word
    OBVIOUS
  <2> HIDE DEF alarm, listed, seqs
  <2>4. /\ Row(alarm, listed) \in Seq(Alarms)
        /\ \A x : x \in ToSet(Row(alarm, listed)) <=> listed = TRUE /\ x = alarm
    BY <2>1, OneRow
  <2> QED
    BY <2>2, <2>3, <2>4 DEF alarm
<1>4. seqs \in Seq(Seq(Alarms)) /\ seqs # << >> /\ DOMAIN seqs = 1..len
  <2>1. seqs = [i \in 1..len |-> seqs[i]]
    OBVIOUS
  <2> HIDE DEF seqs
  <2> QED
    BY <1>1, <1>3, <2>1
<1> HIDE DEF seqs
<1>5. /\ FlattenSeq(seqs) \in Seq(Alarms)
      /\ \A x : x \in ToSet(FlattenSeq(seqs)) <=> \E i \in 1..len : x \in ToSet(seqs[i])
  BY <1>4, FlattenFacts, FlattenHolds
<1>6. \A x : x \in RowsOf(n, word) <=>
                \E i \in 1..len : Layout(n)[i] \in word /\ x = Alarm(n, Layout(n)[i])
  BY <1>1 DEF RowsOf
<1>7. \A x : x \in ToSet(FlattenSeq(seqs)) <=> x \in RowsOf(n, word)
  BY <1>3, <1>5, <1>6
<1> QED
  BY <1>2, <1>5, <1>7

LEMMA RackRows ==
  ASSUME ControlTypeOK, NEW b \in Blocks
  PROVE  LET rows == OverRacks(b, LAMBDA r : PushWord(r, rackWord[r]))
         IN  /\ rows \in Seq(Alarms)
             /\ \A x : x \in ToSet(rows) <=> \E r \in Racks : r[1] = b /\ x \in RowsOf(r, rackWord[r])
<1> DEFINE N == NContainers * NRacks
           at == [i \in 1..N |-> PushWord(RackAt(b, i), rackWord[RackAt(b, i)])]
<1>1. N \in Nat \ {0}
  BY RackOrder
<1>2. ASSUME NEW r \in Racks
      PROVE  /\ PushWord(r, rackWord[r]) \in Seq(Alarms)
             /\ ToSet(PushWord(r, rackWord[r])) = RowsOf(r, rackWord[r])
  <2>1. r \in Nodes /\ Layout(r) = RackLayout
    BY NodeLengths DEF Layout
  <2>2. rackWord[r] \subseteq ToSet(Layout(r))
    BY <2>1 DEF ControlTypeOK
  <2> QED
    BY <2>1, <2>2, WordRows
<1>3. OverRacks(b, LAMBDA r : PushWord(r, rackWord[r])) = FlattenSeq(at)
  BY DEF OverRacks, RackAt
<1>4. /\ \A i \in 1..N : RackAt(b, i) \in Racks /\ RackAt(b, i)[1] = b
      /\ \A r \in Racks : r[1] = b => \E i \in 1..N : r = RackAt(b, i)
  BY RackIndices
<1> HIDE DEF N
<1>5. /\ at \in Seq(Seq(Alarms)) /\ at # << >> /\ DOMAIN at = 1..N
      /\ \A i \in 1..N : at[i] = PushWord(RackAt(b, i), rackWord[RackAt(b, i)])
  BY <1>1, <1>2, <1>4
<1> HIDE DEF at
<1>6. /\ FlattenSeq(at) \in Seq(Alarms)
      /\ \A x : x \in ToSet(FlattenSeq(at)) <=> \E i \in 1..N : x \in ToSet(at[i])
  BY <1>5, FlattenFacts, FlattenHolds
<1>7. ASSUME NEW x
      PROVE  (\E i \in 1..N : x \in ToSet(at[i]))
               <=> \E r \in Racks : r[1] = b /\ x \in RowsOf(r, rackWord[r])
  BY <1>2, <1>4, <1>5
<1> QED
  BY <1>3, <1>6, <1>7

LEMMA BlockRowsAre ==
  ASSUME ControlTypeOK, NEW b \in Blocks
  PROVE  /\ BlockRows(b) \in Seq(Alarms)
         /\ \A x : x \in ToSet(BlockRows(b)) <=>
              \/ x \in RowsOf(<<b>>, blockWord[b])
              \/ \E r \in Racks : r[1] = b /\ x \in RowsOf(r, rackWord[r])
<1> DEFINE rows == OverRacks(b, LAMBDA r : PushWord(r, rackWord[r]))
           own == PushWord(<<b>>, blockWord[b])
<1>1. <<b>> \in Nodes /\ Layout(<<b>>) = BlockLayout
  BY NodeLengths DEF Layout
<1>2. blockWord[b] \subseteq ToSet(Layout(<<b>>))
  BY <1>1 DEF ControlTypeOK
<1>3. own \in Seq(Alarms) /\ ToSet(own) = RowsOf(<<b>>, blockWord[b])
  BY <1>1, <1>2, WordRows
<1>4. /\ rows \in Seq(Alarms)
      /\ \A x : x \in ToSet(rows) <=> \E r \in Racks : r[1] = b /\ x \in RowsOf(r, rackWord[r])
  BY RackRows
<1>5. BlockRows(b) = own \o rows
  BY DEF BlockRows
<1> HIDE DEF own, rows
<1>6. own \o rows \in Seq(Alarms) /\ ToSet(own \o rows) = ToSet(own) \cup ToSet(rows)
  BY <1>3, <1>4, ConcatFacts, ConcatSet
<1> QED
  BY <1>3, <1>4, <1>5, <1>6

InTheTree(x) ==
  \/ x \in RowsOf(Site, siteWord)
  \/ \E b \in Blocks : x \in RowsOf(<<b>>, blockWord[b])
  \/ \E r \in Racks : x \in RowsOf(r, rackWord[r])

LEMMA WalkRows ==
  ASSUME ControlTypeOK
  PROVE  Walk \in Seq(Alarms) /\ \A x : x \in ToSet(Walk) <=> InTheTree(x)
<1> DEFINE seqs == [i \in 1..NBlocks |-> BlockRows(i - 1)]
<1>1. /\ NBlocks \in Nat \ {0}
      /\ \A i \in 1..NBlocks : i - 1 \in Blocks
      /\ \A b \in Blocks : b + 1 \in 1..NBlocks /\ (b + 1) - 1 = b
  BY PlantAssumption DEF Blocks
<1>2. Walk = PushWord(Site, siteWord) \o FlattenSeq(seqs)
  BY DEF Walk, OverBlocks
<1>3. /\ seqs \in Seq(Seq(Alarms)) /\ seqs # << >> /\ DOMAIN seqs = 1..NBlocks
      /\ \A i \in 1..NBlocks : seqs[i] = BlockRows(i - 1)
  <2>1. \A i \in 1..NBlocks : BlockRows(i - 1) \in Seq(Alarms)
    BY <1>1, BlockRowsAre
  <2> HIDE DEF BlockRows
  <2> QED
    BY <1>1, <2>1
<1> HIDE DEF seqs
<1>4. /\ FlattenSeq(seqs) \in Seq(Alarms)
      /\ \A x : x \in ToSet(FlattenSeq(seqs)) <=> \E i \in 1..NBlocks : x \in ToSet(seqs[i])
  BY <1>3, FlattenFacts, FlattenHolds
<1>5. /\ PushWord(Site, siteWord) \in Seq(Alarms)
      /\ ToSet(PushWord(Site, siteWord)) = RowsOf(Site, siteWord)
  <2>1. Site \in Nodes /\ siteWord \subseteq ToSet(Layout(Site))
    BY NodeKinds DEF Layout, ControlTypeOK
  <2> QED
    BY <2>1, WordRows
<1>6. /\ Walk \in Seq(Alarms)
      /\ ToSet(Walk) = RowsOf(Site, siteWord) \cup ToSet(FlattenSeq(seqs))
  BY <1>2, <1>4, <1>5, ConcatFacts, ConcatSet
<1>7. \A x : x \in ToSet(FlattenSeq(seqs)) <=> \E b \in Blocks : x \in ToSet(BlockRows(b))
  BY <1>1, <1>3, <1>4
<1>8. \A r \in Racks : r[1] \in Blocks
  BY DEF Racks
<1>9. \A b \in Blocks : \A x :
        x \in ToSet(BlockRows(b)) <=>
          \/ x \in RowsOf(<<b>>, blockWord[b])
          \/ \E r \in Racks : r[1] = b /\ x \in RowsOf(r, rackWord[r])
  BY BlockRowsAre
<1>10. ASSUME NEW x
       PROVE  (\E b \in Blocks : x \in ToSet(BlockRows(b))) <=>
                \/ \E b \in Blocks : x \in RowsOf(<<b>>, blockWord[b])
                \/ \E r \in Racks : x \in RowsOf(r, rackWord[r])
  <2> HIDE DEF BlockRows, RowsOf
  <2> QED
    BY <1>8, <1>9
<1> QED
  BY <1>6, <1>7, <1>10 DEF InTheTree

LEMMA SeverityRows ==
  ASSUME NEW severity, NEW rows \in Seq(Alarms)
  PROVE  /\ OfSeverity(severity, rows) \in Seq(Alarms)
         /\ \A x : x \in ToSet(OfSeverity(severity, rows))
                     <=> x \in ToSet(rows) /\ Severity(x.bit) = severity
<1> DEFINE seqs == [i \in DOMAIN rows |-> Row(rows[i], Severity(rows[i].bit) = severity)]
<1>1. OfSeverity(severity, rows) = FlattenSeq(seqs)
  BY DEF OfSeverity
<1>2. CASE rows = << >>
  <2>1. seqs = << >>
    BY <1>2
  <2>2. FlattenSeq(<< >>) = << >>
    BY DEF FlattenSeq
  <2>3. \A x : x \notin ToSet(<< >>)
    BY DEF ToSet
  <2>4. OfSeverity(severity, rows) = << >>
    BY <1>1, <2>1, <2>2
  <2>5. << >> \in Seq(Alarms)
    OBVIOUS
  <2> HIDE DEF seqs
  <2> QED
    BY <1>2, <2>3, <2>4, <2>5
<1>3. CASE rows # << >>
  <2>1. Len(rows) \in Nat \ {0} /\ DOMAIN rows = 1..Len(rows) /\ \A i \in DOMAIN rows : rows[i] \in Alarms
    BY <1>3
  <2>2. ASSUME NEW i \in DOMAIN rows
        PROVE  /\ seqs[i] \in Seq(Alarms)
               /\ \A x : x \in ToSet(seqs[i]) <=> Severity(rows[i].bit) = severity /\ x = rows[i]
    <3> DEFINE listed == Severity(rows[i].bit) = severity
    <3>1. rows[i] \in Alarms /\ listed \in BOOLEAN
      BY <2>1
    <3>2. seqs[i] = Row(rows[i], listed)
      OBVIOUS
    <3>3. listed = TRUE <=> Severity(rows[i].bit) = severity
      OBVIOUS
    <3> HIDE DEF listed, seqs
    <3>4. /\ Row(rows[i], listed) \in Seq(Alarms)
          /\ \A x : x \in ToSet(Row(rows[i], listed)) <=> listed = TRUE /\ x = rows[i]
      BY <3>1, OneRow
    <3> QED
      BY <3>2, <3>3, <3>4
  <2>3. seqs \in Seq(Seq(Alarms)) /\ seqs # << >> /\ DOMAIN seqs = DOMAIN rows
    <3>1. seqs = [i \in 1..Len(rows) |-> seqs[i]]
      BY <2>1
    <3> HIDE DEF seqs
    <3> QED
      BY <2>1, <2>2, <3>1
  <2> HIDE DEF seqs
  <2>4. /\ FlattenSeq(seqs) \in Seq(Alarms)
        /\ \A x : x \in ToSet(FlattenSeq(seqs)) <=> \E i \in DOMAIN rows : x \in ToSet(seqs[i])
    BY <2>3, FlattenFacts, FlattenHolds
  <2>5. \A x : x \in ToSet(rows) <=> \E i \in DOMAIN rows : x = rows[i]
    BY DEF ToSet
  <2>6. ASSUME NEW x
        PROVE  (\E i \in DOMAIN rows : x \in ToSet(seqs[i]))
                 <=> x \in ToSet(rows) /\ Severity(x.bit) = severity
    BY <2>2, <2>5
  <2> HIDE DEF seqs
  <2>7. OfSeverity(severity, rows) = FlattenSeq(seqs)
    BY <1>1
  <2> QED
    BY <2>4, <2>6, <2>7
<1> QED
  BY <1>2, <1>3

LEMMA ListIsTheTree ==
  ASSUME ControlTypeOK
  PROVE  \A x : x \in ToSet(Active) <=> InTheTree(x)
<1>1. Walk \in Seq(Alarms) /\ \A x : x \in ToSet(Walk) <=> InTheTree(x)
  BY WalkRows
<1> DEFINE trips == OfSeverity("Trip", Walk)
           others == OfSeverity("Warning", Walk)
<1>2. /\ trips \in Seq(Alarms) /\ others \in Seq(Alarms)
      /\ \A x : x \in ToSet(trips) <=> x \in ToSet(Walk) /\ Severity(x.bit) = "Trip"
      /\ \A x : x \in ToSet(others) <=> x \in ToSet(Walk) /\ Severity(x.bit) = "Warning"
  BY <1>1, SeverityRows
<1>3. Active = trips \o others
  BY DEF Active
<1> HIDE DEF trips, others
<1>4. ToSet(Active) = ToSet(trips) \cup ToSet(others)
  BY <1>2, <1>3, ConcatSet
<1>5. \A x : Severity(x.bit) \in {"Trip", "Warning"}
  BY DEF Severity
<1> QED
  BY <1>1, <1>2, <1>4, <1>5

-----------------------------------------------------------------------------
(* Tones and how loud they are.                                            *)
AllTones == {"OutOfService", "Warning", "Trip"}

LEMMA Ranks == Rank("OutOfService") = 1 /\ Rank("Warning") = 2 /\ Rank("Trip") = 3
<1>1. DOMAIN Tones = 1..3 /\ Tones[1] = "OutOfService" /\ Tones[2] = "Warning" /\ Tones[3] = "Trip"
  BY DEF Tones
<1>2. ASSUME NEW tone, NEW k \in 1..3, Tones[k] = tone, \A i \in 1..3 : Tones[i] = tone => i = k
      PROVE  Rank(tone) = k
  BY <1>1, <1>2 DEF Rank
<1>3. \A i \in 1..3 : i = 1 \/ i = 2 \/ i = 3
  OBVIOUS
<1>4. Rank("OutOfService") = 1
  BY <1>1, <1>2, <1>3
<1>5. Rank("Warning") = 2
  BY <1>1, <1>2, <1>3
<1>6. Rank("Trip") = 3
  BY <1>1, <1>2, <1>3
<1> QED
  BY <1>4, <1>5, <1>6

LEMMA MaxIs ==
  ASSUME NEW S, S \subseteq 0..3, NEW m \in S, \A y \in S : m >= y
  PROVE  Max(S) = m
<1>1. \A x \in S : (\A y \in S : x >= y) => x = m
  OBVIOUS
<1> QED
  BY <1>1 DEF Max

(* The loudest of some tones is one of them, and none is louder.           *)
LEMMA LoudestIs ==
  ASSUME NEW T, T \subseteq AllTones
  PROVE  /\ Loudest(T) \in 0..3
         /\ \A t \in T : Rank(t) <= Loudest(T)
         /\ Loudest(T) = 0 \/ \E t \in T : Rank(t) = Loudest(T)
         /\ Loudest(T) = Rank("Trip") <=> "Trip" \in T
<1> DEFINE S == {0} \cup {Rank(t) : t \in T}
<1>1. \A t \in T : Rank(t) \in 1..3 /\ (Rank(t) = 3 <=> t = "Trip")
  BY Ranks DEF AllTones
<1>2. S \subseteq 0..3 /\ 0 \in S /\ \A x \in S : x = 0 \/ \E t \in T : Rank(t) = x
  BY <1>1
<1>3. \A t \in T : Rank(t) \in S
  OBVIOUS
<1> HIDE DEF S
<1>4. \E m \in S : \A y \in S : m >= y
  <2>1. CASE 3 \in S
    BY <1>2, <2>1
  <2>2. CASE 3 \notin S /\ 2 \in S
    <3>1. \A y \in S : y \in {0, 1, 2}
      BY <1>2, <2>2
    <3> QED
      BY <2>2, <3>1
  <2>3. CASE 3 \notin S /\ 2 \notin S /\ 1 \in S
    <3>1. \A y \in S : y \in {0, 1}
      BY <1>2, <2>3
    <3> QED
      BY <2>3, <3>1
  <2>4. CASE 3 \notin S /\ 2 \notin S /\ 1 \notin S
    <3>1. \A y \in S : y = 0
      BY <1>2, <2>4
    <3> QED
      BY <1>2, <3>1
  <2> QED
    BY <2>1, <2>2, <2>3, <2>4
<1>5. PICK m \in S : \A y \in S : m >= y
  BY <1>4
<1>6. Loudest(T) = m
  <2>1. Max(S) = m
    BY <1>2, <1>5, MaxIs
  <2> QED
    BY <2>1 DEF Loudest, S
<1>7. m \in 0..3 /\ \A t \in T : Rank(t) <= m
  BY <1>1, <1>2, <1>3, <1>5
<1>8. m = 3 <=> "Trip" \in T
  BY <1>1, <1>2, <1>7, Ranks
<1> QED
  BY <1>2, <1>6, <1>7, <1>8, Ranks

LEMMA TonesAre ==
  /\ \A n, bit : ToneOf(n, bit) \in AllTones
  /\ \A n, bit : ToneOf(n, bit) = "Trip" <=>
                  bit \in TripBits \/ (n = Site /\ bit = "HV_BREAKER_OPEN")
BY DEF ToneOf, AllTones, Severity, TripBits

-----------------------------------------------------------------------------
(* The lamps.                                                              *)
LEMMA ObjectsAre ==
  /\ ObjectOf(Site) = <<"transformer">>
  /\ \A b \in Blocks : ObjectOf(<<b>>) = <<"pcs", b>>
  /\ \A r \in Racks : ObjectOf(r) = <<"container", r[1], r[2]>>
  /\ \A b, c : <<"transformer">> # <<"pcs", b>> /\ <<"transformer">> # <<"container", b, c>>
  /\ \A a, b, c : <<"pcs", a>> # <<"container", b, c>>
  /\ \A a, b : <<"pcs", a>> = <<"pcs", b>> => a = b
<1>1. \A b, c : <<"transformer">>[1] # <<"pcs", b>>[1] /\ <<"transformer">>[1] # <<"container", b, c>>[1]
  OBVIOUS
<1>2. \A a, b, c : <<"pcs", a>>[1] # <<"container", b, c>>[1]
  OBVIOUS
<1>3. \A a, b : <<"pcs", a>> = <<"pcs", b>> => <<"pcs", a>>[2] = <<"pcs", b>>[2]
  OBVIOUS
<1> QED
  BY <1>1, <1>2, <1>3, NodeLengths DEF ObjectOf

RowsAt(o) == {a \in ToSet(Active) : ObjectOf(a.node) = o}
TonesAt(o) == {ToneOf(a.node, a.bit) : a \in RowsAt(o)}

LEMMA RowFields ==
  \A n, bit : Alarm(n, bit).node = n /\ Alarm(n, bit).bit = bit
BY DEF Alarm

(* What an object's rows sound like.                                       *)
Sounds(n, word, t) == \E bit \in word : t = ToneOf(n, bit)

LEMMA TonesAtObject ==
  ASSUME ControlTypeOK
  PROVE  /\ TonesAt(<<"transformer">>) = {ToneOf(Site, bit) : bit \in siteWord}
         /\ \A b \in Blocks :
              TonesAt(<<"pcs", b>>) = {ToneOf(<<b>>, bit) : bit \in blockWord[b]}
         /\ \A b, c : TonesAt(<<"container", b, c>>) =
              UNION {{ToneOf(r, bit) : bit \in rackWord[r]} :
                       r \in {r \in Racks : r[1] = b /\ r[2] = c}}
<1>1. \A x : x \in ToSet(Active) <=> InTheTree(x)
  BY ListIsTheTree
<1>2. ASSUME NEW x
      PROVE  InTheTree(x) <=>
               \/ \E bit \in siteWord : x = Alarm(Site, bit)
               \/ \E b \in Blocks : \E bit \in blockWord[b] : x = Alarm(<<b>>, bit)
               \/ \E r \in Racks : \E bit \in rackWord[r] : x = Alarm(r, bit)
  BY DEF InTheTree, RowsOf
<1>3. \A t, o : t \in TonesAt(o) <=> \E x : /\ InTheTree(x) /\ ObjectOf(x.node) = o
                                            /\ t = ToneOf(x.node, x.bit)
  <2> HIDE DEF ToneOf, ObjectOf, InTheTree, Active
  <2> QED
    BY <1>1 DEF TonesAt, RowsAt
<1>4. ASSUME NEW t, NEW o
      PROVE  t \in TonesAt(o) <=>
               \/ ObjectOf(Site) = o /\ Sounds(Site, siteWord, t)
               \/ \E b \in Blocks : ObjectOf(<<b>>) = o /\ Sounds(<<b>>, blockWord[b], t)
               \/ \E r \in Racks : ObjectOf(r) = o /\ Sounds(r, rackWord[r], t)
  <2> HIDE DEF ToneOf, ObjectOf, InTheTree, Active, TonesAt, Alarm
  <2>1. ASSUME t \in TonesAt(o)
        PROVE  \/ ObjectOf(Site) = o /\ Sounds(Site, siteWord, t)
               \/ \E b \in Blocks : ObjectOf(<<b>>) = o /\ Sounds(<<b>>, blockWord[b], t)
               \/ \E r \in Racks : ObjectOf(r) = o /\ Sounds(r, rackWord[r], t)
    <3>1. PICK x : InTheTree(x) /\ ObjectOf(x.node) = o /\ t = ToneOf(x.node, x.bit)
      BY <1>3, <2>1
    <3>2. CASE \E bit \in siteWord : x = Alarm(Site, bit)
      BY <3>1, <3>2, RowFields DEF Sounds
    <3>3. CASE \E b \in Blocks : \E bit \in blockWord[b] : x = Alarm(<<b>>, bit)
      BY <3>1, <3>3, RowFields DEF Sounds
    <3>4. CASE \E r \in Racks : \E bit \in rackWord[r] : x = Alarm(r, bit)
      BY <3>1, <3>4, RowFields DEF Sounds
    <3> QED
      BY <1>2, <3>1, <3>2, <3>3, <3>4
  <2>2. ASSUME NEW n, NEW bit, InTheTree(Alarm(n, bit)), ObjectOf(n) = o, t = ToneOf(n, bit)
        PROVE  t \in TonesAt(o)
    BY <1>3, <2>2, RowFields
  <2>3. ASSUME ObjectOf(Site) = o, Sounds(Site, siteWord, t) PROVE t \in TonesAt(o)
    <3>1. PICK bit \in siteWord : t = ToneOf(Site, bit)
      BY <2>3 DEF Sounds
    <3>2. InTheTree(Alarm(Site, bit))
      BY <1>2
    <3> QED
      BY <2>2, <2>3, <3>1, <3>2
  <2>4. ASSUME NEW b \in Blocks, ObjectOf(<<b>>) = o, Sounds(<<b>>, blockWord[b], t)
        PROVE  t \in TonesAt(o)
    <3>1. PICK bit \in blockWord[b] : t = ToneOf(<<b>>, bit)
      BY <2>4 DEF Sounds
    <3>2. InTheTree(Alarm(<<b>>, bit))
      BY <1>2
    <3> QED
      BY <2>2, <2>4, <3>1, <3>2
  <2>5. ASSUME NEW r \in Racks, ObjectOf(r) = o, Sounds(r, rackWord[r], t)
        PROVE  t \in TonesAt(o)
    <3>1. PICK bit \in rackWord[r] : t = ToneOf(r, bit)
      BY <2>5 DEF Sounds
    <3>2. InTheTree(Alarm(r, bit))
      BY <1>2
    <3> QED
      BY <2>2, <2>5, <3>1, <3>2
  <2> QED
    BY <2>1, <2>3, <2>4, <2>5
<1>5. TonesAt(<<"transformer">>) = {ToneOf(Site, bit) : bit \in siteWord}
  <2> HIDE DEF ToneOf, ObjectOf, TonesAt
  <2>1. /\ ObjectOf(Site) = <<"transformer">>
        /\ \A b \in Blocks : ObjectOf(<<b>>) # <<"transformer">>
        /\ \A r \in Racks : ObjectOf(r) # <<"transformer">>
    BY ObjectsAre
  <2>2. \A t : t \in TonesAt(<<"transformer">>) <=> Sounds(Site, siteWord, t)
    BY <1>4, <2>1
  <2> QED
    BY <2>2 DEF Sounds
<1>6. ASSUME NEW b \in Blocks
      PROVE  TonesAt(<<"pcs", b>>) = {ToneOf(<<b>>, bit) : bit \in blockWord[b]}
  <2> HIDE DEF ToneOf, ObjectOf, TonesAt
  <2>1. /\ ObjectOf(Site) # <<"pcs", b>>
        /\ \A k \in Blocks : ObjectOf(<<k>>) = <<"pcs", b>> <=> k = b
        /\ \A r \in Racks : ObjectOf(r) # <<"pcs", b>>
    BY ObjectsAre
  <2>2. \A t : t \in TonesAt(<<"pcs", b>>) <=> Sounds(<<b>>, blockWord[b], t)
    BY <1>4, <2>1
  <2> QED
    BY <2>2 DEF Sounds
<1>7. ASSUME NEW b, NEW c
      PROVE  TonesAt(<<"container", b, c>>) =
               UNION {{ToneOf(r, bit) : bit \in rackWord[r]} :
                        r \in {r \in Racks : r[1] = b /\ r[2] = c}}
  <2> HIDE DEF ToneOf, ObjectOf, TonesAt
  <2>1. ASSUME NEW r \in Racks
        PROVE  ObjectOf(r) = <<"container", b, c>> <=> r[1] = b /\ r[2] = c
    <3>1. <<"container", r[1], r[2]>> = <<"container", b, c>> <=> r[1] = b /\ r[2] = c
      OBVIOUS
    <3> QED
      BY <3>1, ObjectsAre
  <2>2. \A t : t \in TonesAt(<<"container", b, c>>) <=>
                \E r \in Racks : r[1] = b /\ r[2] = c /\ Sounds(r, rackWord[r], t)
    <3>1. /\ ObjectOf(Site) # <<"container", b, c>>
          /\ \A k \in Blocks : ObjectOf(<<k>>) # <<"container", b, c>>
      BY ObjectsAre
    <3> QED
      BY <1>4, <2>1, <3>1
  <2> QED
    BY <2>2 DEF Sounds
<1> QED
  BY <1>5, <1>6, <1>7

(* An object's lamp is as loud as its rows.                                *)
LEMMA LampIsLoudest ==
  ASSUME ControlTypeOK, NEW o \in Objects
  PROVE  TonesAt(o) \subseteq AllTones /\ Lamp(o) = Loudest(TonesAt(o))
<1>1. TonesAt(o) \subseteq AllTones
  BY TonesAre DEF TonesAt
<1>2. CASE o = <<"transformer">>
  <2>1. Lamp(o) = Loudest({ToneOf(Site, bit) : bit \in siteWord})
    BY <1>2 DEF Lamp, Worst
  <2> HIDE DEF TonesAt
  <2> QED
    BY <1>1, <1>2, <2>1, TonesAtObject
<1>3. ASSUME NEW b \in Blocks, o = <<"pcs", b>> PROVE Lamp(o) = Loudest(TonesAt(o))
  <2>1. o # <<"transformer">> /\ o[1] = "pcs" /\ o[2] = b
    BY <1>3, ObjectsAre
  <2>2. Lamp(o) = Loudest({ToneOf(<<b>>, bit) : bit \in blockWord[b]})
    BY <2>1 DEF Lamp, Worst
  <2> HIDE DEF TonesAt
  <2> QED
    BY <1>3, <2>2, TonesAtObject
<1>4. ASSUME NEW b, NEW c, o = <<"container", b, c>> PROVE Lamp(o) = Loudest(TonesAt(o))
  <2> DEFINE here == {r \in Racks : r[1] = b /\ r[2] = c}
             tones(r) == {ToneOf(r, bit) : bit \in rackWord[r]}
             S == {0} \cup {Worst(r, rackWord[r]) : r \in here}
  <2>1. o # <<"transformer">> /\ o[1] = "container" /\ o[2] = b /\ o[3] = c
    BY <1>4, ObjectsAre
  <2>2. \A r \in Racks : SubSeq(r, 1, 2) = <<b, c>> <=> r[1] = b /\ r[2] = c
    <3>1. ASSUME NEW r \in Racks PROVE SubSeq(r, 1, 2) = <<r[1], r[2]>>
      <4>1. PICK x \in Nat, y \in Nat, z \in Nat : r = <<x, y, z>>
        BY PlantAssumption DEF Racks, Blocks
      <4>2. r \in Seq(Nat) /\ r[1] = x /\ r[2] = y
        BY <4>1
      <4> DEFINE t == SubSeq(r, 1, 2)
      <4>3. t \in Seq(Nat) /\ Len(t) = 2 /\ t[1] = r[1] /\ t[2] = r[2]
        BY <4>2, SubSeqProperties
      <4> HIDE DEF t
      <4>4. t = <<t[1], t[2]>>
        BY <4>3
      <4> QED
        BY <4>3, <4>4 DEF t
    <3>2. \A x, y : <<x, y>> = <<b, c>> <=> x = b /\ y = c
      OBVIOUS
    <3> QED
      BY <3>1, <3>2
  <2>3. Lamp(o) = Max(S)
    <3>1. {r \in Racks : SubSeq(r, 1, 2) = <<o[2], o[3]>>} = here
      BY <2>1, <2>2
    <3> HIDE DEF here
    <3> QED
      BY <2>1, <3>1 DEF Lamp
  <2>4. \A t : t \in TonesAt(o) <=> \E r \in here : t \in tones(r)
    BY <1>4, TonesAtObject
  <2>5. \A r : tones(r) \subseteq AllTones /\ Worst(r, rackWord[r]) = Loudest(tones(r))
    BY TonesAre DEF Worst
  <2> HIDE DEF TonesAt, here, tones
  <2>6. \A r : /\ Loudest(tones(r)) \in 0..3
               /\ \A t \in tones(r) : Rank(t) <= Loudest(tones(r))
               /\ Loudest(tones(r)) = 0 \/ \E t \in tones(r) : Rank(t) = Loudest(tones(r))
    BY <2>5, LoudestIs
  <2> DEFINE m == Loudest(TonesAt(o))
  <2>7. /\ m \in 0..3
        /\ \A t \in TonesAt(o) : Rank(t) <= m
        /\ m = 0 \/ \E t \in TonesAt(o) : Rank(t) = m
    BY <1>1, LoudestIs
  <2> HIDE DEF m
  <2>8. \A t \in AllTones : Rank(t) \in 1..3
    BY Ranks DEF AllTones
  <2>9. \A y \in S : y \in 0..3 /\ m >= y
    <3>1. ASSUME NEW r \in here PROVE Loudest(tones(r)) \in 0..3 /\ m >= Loudest(tones(r))
      <4>1. tones(r) \subseteq TonesAt(o)
        BY <2>4
      <4> QED
        BY <2>6, <2>7, <4>1
    <3> QED
      BY <2>5, <2>7, <3>1
  <2>10. m \in S
    <3>1. CASE m = 0
      BY <3>1
    <3>2. CASE m # 0
      <4>1. PICK r \in here : \E t \in tones(r) : Rank(t) = m
        BY <2>4, <2>7, <3>2
      <4>2. m <= Loudest(tones(r))
        BY <2>6, <4>1
      <4>3. Worst(r, rackWord[r]) \in S /\ Worst(r, rackWord[r]) = Loudest(tones(r))
        BY <2>5
      <4>4. m = Worst(r, rackWord[r])
        BY <2>6, <2>7, <2>9, <4>2, <4>3
      <4> QED
        BY <4>3, <4>4
    <3> QED
      BY <3>1, <3>2
  <2> HIDE DEF S
  <2>11. Max(S) = m
    BY <2>9, <2>10, MaxIs
  <2> QED
    BY <2>3, <2>11 DEF m
<1>5. \/ o = <<"transformer">> \/ \E b \in Blocks : o = <<"pcs", b>>
      \/ \E b, c : o = <<"container", b, c>>
  <2>1. PICK n \in Nodes : o = ObjectOf(n)
    BY DEF Objects
  <2> QED
    BY <2>1, ObjectsAre DEF Nodes
<1> QED
  BY <1>1, <1>2, <1>3, <1>4, <1>5

(* Red is a latched bit: an open breaker comes with the trip that opened   *)
(* it, in the same word.                                                   *)
LEMMA RedIsLatched ==
  ASSUME ControlTypeOK, TripLatch, SettledTree, pending = << >>, NEW o
  PROVE  "Trip" \in TonesAt(o) <=> \E a \in RowsAt(o) : a.bit \in TripBits
<1>1. \A x : x \in ToSet(Active) <=> InTheTree(x)
  BY ListIsTheTree
<1>2. ASSUME NEW a \in RowsAt(o), a.node = Site, a.bit = "HV_BREAKER_OPEN"
      PROVE  \E x \in RowsAt(o) : x.bit \in TripBits
  <2>1. InTheTree(a) /\ ObjectOf(Site) = o
    BY <1>1, <1>2 DEF RowsAt
  <2>2. "HV_BREAKER_OPEN" \in siteWord
    <3>1. \A b \in Blocks : \A x \in RowsOf(<<b>>, blockWord[b]) : x.node # Site
      BY RowFields, NodeLengths DEF RowsOf
    <3>2. \A r \in Racks : \A x \in RowsOf(r, rackWord[r]) : x.node # Site
      BY RowFields, NodeLengths DEF RowsOf
    <3>3. a \in RowsOf(Site, siteWord)
      BY <1>2, <2>1, <3>1, <3>2 DEF InTheTree
    <3> QED
      BY <1>2, <3>3, RowFields DEF RowsOf
  <2>3. "PROTECTION_TRIP" \in siteWord
    BY <2>2 DEF SettledTree, TripLatch
  <2>4. InTheTree(Alarm(Site, "PROTECTION_TRIP"))
    BY <2>3 DEF InTheTree, RowsOf
  <2>5. Alarm(Site, "PROTECTION_TRIP") \in RowsAt(o)
    BY <1>1, <2>1, <2>4, RowFields DEF RowsAt
  <2>6. "PROTECTION_TRIP" \in TripBits
    BY DEF TripBits
  <2> QED
    BY <2>5, <2>6, RowFields
<1>3. "Trip" \in TonesAt(o) <=> \E a \in RowsAt(o) : ToneOf(a.node, a.bit) = "Trip"
  <2> HIDE DEF ToneOf, RowsAt
  <2> QED
    BY DEF TonesAt
<1> QED
  <2> HIDE DEF RowsAt, TonesAt
  <2> QED
    BY <1>2, <1>3, TonesAre

LEMMA LampsAreTrue ==
  ASSUME ControlTypeOK, TripLatch, SettledTree, pending = << >>
  PROVE  LampsMatchList
<1> SUFFICES ASSUME NEW o \in Objects
             PROVE  /\ Lamp(o) = Loudest({ToneOf(a.node, a.bit) : a \in RowsAt(o)})
                    /\ Lamp(o) = Rank("Trip") <=> \E a \in RowsAt(o) : a.bit \in TripBits
  BY DEF LampsMatchList, RowsAt
<1>1. TonesAt(o) \subseteq AllTones /\ Lamp(o) = Loudest(TonesAt(o))
  BY LampIsLoudest
<1>2. Loudest(TonesAt(o)) = Rank("Trip") <=> "Trip" \in TonesAt(o)
  BY <1>1, LoudestIs
<1>3. "Trip" \in TonesAt(o) <=> \E a \in RowsAt(o) : a.bit \in TripBits
  BY RedIsLatched
<1>4. TonesAt(o) = {ToneOf(a.node, a.bit) : a \in RowsAt(o)}
  BY DEF TonesAt
<1> QED
  BY <1>1, <1>2, <1>3, <1>4

(* The viewer draws no conclusion the plant would contradict: between two  *)
(* ticks every reset button is enabled exactly when its reset would do     *)
(* something, and every lamp is as loud as the loudest row it links to,    *)
(* red exactly while something behind it is latched.                       *)
THEOREM ViewIsTrue == Spec => []ViewTellsTruth
<1>1. IInv /\ SettledTree => ViewTellsTruth
  BY ButtonsAreTrue, LampsAreTrue DEF IInv, ViewTellsTruth
<1> QED
  BY <1>1, Inductive, TreeSettles, PTL
=============================================================================
