---------------------------- MODULE SequenceFacts ----------------------------
(***************************************************************************)
(* Induction over the naturals, stated for sets, division with remainder,  *)
(* what FlattenSeq computes and sums over finite sets: facts about the     *)
(* operators of the models that the proofs share.                          *)
(***************************************************************************)
EXTENDS SequencesExt, WellFoundedInduction, FiniteSetTheorems, TLAPS

LEMMA LessIsWellFounded ==
  IsWellFoundedOn({ss \in Nat \X Nat : ss[1] < ss[2]}, Nat)
BY NatLessThanWellFounded, Zenon DEF OpToRel

(* A set with 0 and with every successor of its members has every natural. *)
LEMMA NatSetInduction ==
  ASSUME NEW S, 0 \in S, \A n \in Nat : n \in S => n + 1 \in S
  PROVE  Nat \subseteq S
<1> DEFINE R == {ss \in Nat \X Nat : ss[1] < ss[2]}
           T == Nat \ S
<1> SUFFICES ASSUME T # {} PROVE FALSE
  OBVIOUS
<1>1. IsWellFoundedOn(R, Nat)
  BY LessIsWellFounded
<1>2. PICK x \in T : \A y \in T : ~ (<<y, x>> \in R)
  <2> HIDE DEF R, T
  <2>1. T \subseteq Nat
    BY DEF T
  <2> QED
    BY <1>1, <2>1, WFMin
<1>3. x \in Nat /\ x # 0
  OBVIOUS
<1>4. x - 1 \in Nat /\ x - 1 < x
  BY <1>3
<1>5. <<x - 1, x>> \in R
  BY <1>3, <1>4
<1>6. x - 1 \in S
  BY <1>2, <1>4, <1>5
<1>7. (x - 1) + 1 = x
  BY <1>3
<1> QED
  BY <1>3, <1>4, <1>6, <1>7

(* The same from 1 up to a bound.                                          *)
LEMMA UpToInduction ==
  ASSUME NEW n \in Nat \ {0}, NEW S, 1 \in S,
         \A i \in 1..(n - 1) : i \in S => i + 1 \in S
  PROVE  1..n \subseteq S
<1> DEFINE T == {i \in Nat : i + 1 \in 1..n => i + 1 \in S}
<1>1. 0 \in T
  OBVIOUS
<1>2. \A i \in Nat : i \in T => i + 1 \in T
  <2> SUFFICES ASSUME NEW i \in Nat, i \in T, (i + 1) + 1 \in 1..n
               PROVE  (i + 1) + 1 \in S
    OBVIOUS
  <2>1. i + 1 \in 1..(n - 1) /\ i + 1 \in 1..n
    OBVIOUS
  <2> QED
    BY <2>1
<1>3. Nat \subseteq T
  <2> HIDE DEF T
  <2> QED
    BY <1>1, <1>2, NatSetInduction
<1>4. \A j \in 1..n : j - 1 \in Nat /\ (j - 1) + 1 = j
  OBVIOUS
<1> QED
  BY <1>3, <1>4

(* A set of indices has a largest one, and Max is it.                      *)
LEMMA MaxOfIndices ==
  ASSUME NEW n \in Nat, NEW T, T \subseteq 1..n, T # {}
  PROVE  Max(T) \in T /\ \A y \in T : Max(T) >= y
<1> DEFINE R == {ss \in Nat \X Nat : ss[1] < ss[2]}
           D == {n - i : i \in T}
<1>1. IsWellFoundedOn(R, Nat)
  BY LessIsWellFounded
<1>2. D \subseteq Nat /\ D # {}
  <2>1. \A i \in T : i \in 1..n
    OBVIOUS
  <2>2. \A i \in T : n - i \in Nat
    <3> TAKE i \in T
    <3>1. i \in 1..n
      BY <2>1
    <3> QED
      BY <3>1
  <2>3. PICK i \in T : TRUE
    OBVIOUS
  <2>4. n - i \in D
    BY <2>3
  <2> QED
    BY <2>2, <2>4
<1>3. PICK x \in D : \A y \in D : ~ (<<y, x>> \in R)
  <2> HIDE DEF R, D
  <2> QED
    BY <1>1, <1>2, WFMin
<1>4. PICK m \in T : x = n - m
  BY <1>3
<1>5. \A y \in T : m >= y
  <2> TAKE y \in T
  <2>1. ~ (<<n - y, x>> \in R)
    BY <1>3
  <2>2. n - y \in Nat /\ x \in Nat /\ m \in Int /\ y \in Int
    BY <1>2, <1>3
  <2> QED
    BY <1>4, <2>1, <2>2
<1> QED
  BY <1>5, Zenon DEF Max

-----------------------------------------------------------------------------
(* Division with remainder by any divisor.                                 *)
LEMMA DivModOf ==
  ASSUME NEW c \in Nat, NEW d \in Nat \ {0}, NEW m \in 0..(d - 1)
  PROVE  (d * c + m) \div d = c /\ (d * c + m) % d = m
<1>1. (d * c + m) \div d = c
  OBVIOUS
<1>2. (d * c + m) % d = m
  OBVIOUS
<1> QED
  BY <1>1, <1>2

LEMMA DivMod ==
  ASSUME NEW k \in Nat, NEW d \in Nat \ {0}
  PROVE  /\ k \div d \in Nat /\ k % d \in 0..(d - 1)
         /\ k = d * (k \div d) + (k % d)
<1> DEFINE S == {x \in Nat : \E c \in Nat, m \in 0..(d - 1) : x = d * c + m}
<1>1. 0 \in S
  <2>1. 0 = d * 0 + 0 /\ 0 \in 0..(d - 1)
    OBVIOUS
  <2> QED
    BY <2>1
<1>2. ASSUME NEW x \in Nat, x \in S PROVE x + 1 \in S
  <2>1. PICK c \in Nat, m \in 0..(d - 1) : x = d * c + m
    BY <1>2
  <2>2. CASE m = d - 1
    <3> DEFINE e == c + 1
    <3>1. d * e = d * c + d /\ d * c \in Int
      OBVIOUS
    <3>2. e \in Nat /\ 0 \in 0..(d - 1) /\ x + 1 \in Nat
      OBVIOUS
    <3> HIDE DEF e
    <3>3. x + 1 = d * e + 0
      BY <2>1, <2>2, <3>1
    <3> QED
      BY <3>2, <3>3
  <2>3. CASE m # d - 1
    <3>1. m + 1 \in 0..(d - 1) /\ d * c \in Int
      BY <2>3
    <3>2. x + 1 = d * c + (m + 1)
      BY <2>1, <3>1
    <3> QED
      BY <3>1, <3>2
  <2> QED
    BY <2>2, <2>3
<1>3. Nat \subseteq S
  <2> HIDE DEF S
  <2> QED
    BY <1>1, <1>2, NatSetInduction
<1>4. PICK c \in Nat, m \in 0..(d - 1) : k = d * c + m
  BY <1>3
<1>5. k \div d = c /\ k % d = m
  BY <1>4, DivModOf
<1> DEFINE q == k \div d
           r == k % d
<1>6. q = c /\ r = m
  BY <1>5
<1> HIDE DEF q, r
<1>7. q \in Nat /\ r \in 0..(d - 1) /\ k = d * q + r
  BY <1>4, <1>6
<1> QED
  BY <1>7 DEF q, r

-----------------------------------------------------------------------------
(* The running concatenation of the first n members of seqs.               *)
IsRunning(f, seqs, n) ==
  f = [i \in 1..n |-> IF i = 1 THEN seqs[i] ELSE f[i - 1] \o seqs[i]]

LEMMA RunningExists ==
  ASSUME NEW seqs
  PROVE  \A n \in Nat : \E f : IsRunning(f, seqs, n)
<1> DEFINE S == {n \in Nat : \E f : IsRunning(f, seqs, n)}
<1>1. 0 \in S
  <2>1. IsRunning([i \in 1..0 |-> i], seqs, 0)
    BY DEF IsRunning
  <2> QED
    BY <2>1
<1>2. ASSUME NEW n \in Nat, n \in S PROVE n + 1 \in S
  <2>1. PICK f : IsRunning(f, seqs, n)
    BY <1>2
  <2> DEFINE last == IF n + 1 = 1 THEN seqs[n + 1] ELSE f[n] \o seqs[n + 1]
             g == [i \in 1..(n + 1) |-> IF i = n + 1 THEN last ELSE f[i]]
  <2>2. \A i \in 1..n : g[i] = f[i]
    OBVIOUS
  <2>3. \A i \in 1..(n + 1) :
          g[i] = IF i = 1 THEN seqs[i] ELSE g[i - 1] \o seqs[i]
    <3> SUFFICES ASSUME NEW i \in 1..(n + 1)
                 PROVE  g[i] = IF i = 1 THEN seqs[i] ELSE g[i - 1] \o seqs[i]
      OBVIOUS
    <3>1. CASE i = n + 1
      <4>1. g[i] = last
        BY <3>1
      <4>2. i # 1 => n \in 1..n /\ i - 1 = n /\ g[i - 1] = f[n]
        BY <2>2, <3>1
      <4> HIDE DEF g
      <4> QED
        BY <3>1, <4>1, <4>2
    <3>2. CASE i # n + 1
      <4>1. i \in 1..n /\ g[i] = f[i] /\ (i # 1 => i - 1 \in 1..n /\ g[i - 1] = f[i - 1])
        BY <2>2, <3>2
      <4>2. f[i] = IF i = 1 THEN seqs[i] ELSE f[i - 1] \o seqs[i]
        BY <2>1, <4>1 DEF IsRunning
      <4> HIDE DEF g
      <4> QED
        BY <4>1, <4>2
    <3> QED
      BY <3>1, <3>2
  <2>4. g = [i \in 1..(n + 1) |-> g[i]]
    OBVIOUS
  <2>5. IsRunning(g, seqs, n + 1)
    <3> HIDE DEF g
    <3> QED
      BY <2>3, <2>4 DEF IsRunning
  <2> HIDE DEF g
  <2> QED
    BY <2>5
<1>3. Nat \subseteq S
  <2> HIDE DEF S
  <2> QED
    BY <1>1, <1>2, NatSetInduction
<1> QED
  BY <1>3

(* FlattenSeq is the running concatenation of all of them.                 *)
LEMMA FlattenIsRunning ==
  ASSUME NEW seqs, Len(seqs) \in Nat \ {0}
  PROVE  \E f : IsRunning(f, seqs, Len(seqs)) /\ FlattenSeq(seqs) = f[Len(seqs)]
<1> DEFINE n == Len(seqs)
           g == CHOOSE f : f = [i \in 1..n |-> IF i = 1 THEN seqs[i] ELSE f[i - 1] \o seqs[i]]
<1>1. \E f : f = [i \in 1..n |-> IF i = 1 THEN seqs[i] ELSE f[i - 1] \o seqs[i]]
  BY RunningExists DEF IsRunning
<1>2. IsRunning(g, seqs, n)
  BY <1>1 DEF IsRunning
<1>3. FlattenSeq(seqs) = g[n]
  BY DEF FlattenSeq
<1> HIDE DEF g
<1> QED
  BY <1>2, <1>3

(* The rule for a loop that concatenates: what holds of the first member,  *)
(* and of i members if of i - 1, holds of them all.                        *)
LEMMA FlattenLoop ==
  ASSUME NEW seqs, Len(seqs) \in Nat \ {0}, NEW R,
         <<1, seqs[1]>> \in R,
         \A i \in 1..(Len(seqs) - 1) : \A s : <<i, s>> \in R => <<i + 1, s \o seqs[i + 1]>> \in R
  PROVE  <<Len(seqs), FlattenSeq(seqs)>> \in R
<1> DEFINE n == Len(seqs)
<1>1. PICK f : IsRunning(f, seqs, n) /\ FlattenSeq(seqs) = f[n]
  BY FlattenIsRunning
<1>2. f[1] = seqs[1] /\ \A i \in 1..(n - 1) : f[i + 1] = f[i] \o seqs[i + 1]
  <2>1. \A i \in 1..n : f[i] = IF i = 1 THEN seqs[i] ELSE f[i - 1] \o seqs[i]
    BY <1>1 DEF IsRunning
  <2>2. f[1] = seqs[1]
    BY <2>1
  <2>3. ASSUME NEW i \in 1..(n - 1) PROVE f[i + 1] = f[i] \o seqs[i + 1]
    <3> DEFINE j == i + 1
    <3>1. j \in 1..n /\ j # 1 /\ j - 1 = i
      OBVIOUS
    <3> HIDE DEF j
    <3>2. f[j] = f[i] \o seqs[j]
      BY <2>1, <3>1
    <3> QED
      BY <3>2 DEF j
  <2> QED
    BY <2>2, <2>3
<1> DEFINE S == {i \in Nat : <<i, f[i]>> \in R}
<1>3. 1 \in S
  BY <1>2
<1>4. ASSUME NEW i \in 1..(n - 1), i \in S PROVE i + 1 \in S
  <2>1. <<i, f[i]>> \in R
    BY <1>4
  <2>2. <<i + 1, f[i] \o seqs[i + 1]>> \in R
    BY <2>1
  <2>3. f[i + 1] = f[i] \o seqs[i + 1]
    BY <1>2
  <2>4. <<i + 1, f[i + 1]>> \in R
    BY <2>2, <2>3
  <2>5. i + 1 \in Nat
    OBVIOUS
  <2> QED
    BY <2>4, <2>5
<1>5. 1..n \subseteq S
  <2> HIDE DEF S
  <2> QED
    BY <1>3, <1>4, UpToInduction
<1>6. n \in 1..n
  OBVIOUS
<1> QED
  BY <1>1, <1>5, <1>6

-----------------------------------------------------------------------------
LEMMA ConcatFacts ==
  ASSUME NEW S, NEW s \in Seq(S), NEW t \in Seq(S)
  PROVE  /\ s \o t \in Seq(S) /\ Len(s \o t) = Len(s) + Len(t)
         /\ Len(s) \in Nat /\ Len(t) \in Nat
         /\ s \o t = << >> <=> s = << >> /\ t = << >>
         /\ \A i \in DOMAIN s : i \in DOMAIN (s \o t) /\ (s \o t)[i] = s[i]
         /\ \A i \in DOMAIN t : Len(s) + i \in DOMAIN (s \o t) /\ (s \o t)[Len(s) + i] = t[i]
<1>1. /\ s \o t \in Seq(S) /\ Len(s \o t) = Len(s) + Len(t)
      /\ Len(s) \in Nat /\ Len(t) \in Nat
      /\ DOMAIN s = 1..Len(s) /\ DOMAIN t = 1..Len(t)
      /\ DOMAIN (s \o t) = 1..(Len(s) + Len(t))
  OBVIOUS
<1>2. \A i \in 1..(Len(s) + Len(t)) :
        (s \o t)[i] = IF i <= Len(s) THEN s[i] ELSE t[i - Len(s)]
  OBVIOUS
<1>3. \A u \in Seq(S) : u = << >> <=> Len(u) = 0
  OBVIOUS
<1>4. s \o t = << >> <=> s = << >> /\ t = << >>
  BY <1>1, <1>3
<1>5. ASSUME NEW i \in DOMAIN t
      PROVE  Len(s) + i \in DOMAIN (s \o t) /\ (s \o t)[Len(s) + i] = t[i]
  <2> DEFINE j == Len(s) + i
  <2>1. j \in 1..(Len(s) + Len(t)) /\ ~(j <= Len(s)) /\ j - Len(s) = i
    BY <1>1
  <2> HIDE DEF j
  <2>2. (s \o t)[j] = t[i]
    BY <1>2, <2>1
  <2> QED
    BY <1>1, <2>1, <2>2 DEF j
<1>6. \A i \in DOMAIN s : i \in DOMAIN (s \o t) /\ (s \o t)[i] = s[i]
  BY <1>1, <1>2
<1> QED
  BY <1>1, <1>4, <1>5, <1>6

LEMMA AfterTheFirst ==
  ASSUME NEW S, NEW s \in Seq(S), NEW t \in Seq(S)
  PROVE  \A i \in DOMAIN (s \o t) : \/ i \in DOMAIN s
                                    \/ i - Len(s) \in DOMAIN t /\ (s \o t)[i] = t[i - Len(s)]
<1>1. /\ Len(s) \in Nat /\ Len(t) \in Nat
      /\ DOMAIN s = 1..Len(s) /\ DOMAIN t = 1..Len(t)
      /\ DOMAIN (s \o t) = 1..(Len(s) + Len(t))
  OBVIOUS
<1>2. \A i \in 1..(Len(s) + Len(t)) :
        (s \o t)[i] = IF i <= Len(s) THEN s[i] ELSE t[i - Len(s)]
  OBVIOUS
<1>3. ASSUME NEW i \in DOMAIN (s \o t)
      PROVE  \/ i \in DOMAIN s
             \/ i - Len(s) \in DOMAIN t /\ (s \o t)[i] = t[i - Len(s)]
  BY <1>1, <1>2
<1> QED
  BY <1>3

(* A flattened sequence is a sequence of the members' members, and empty   *)
(* exactly when all of them are.                                           *)
LEMMA FlattenFacts ==
  ASSUME NEW S, NEW seqs \in Seq(Seq(S)), seqs # << >>
  PROVE  /\ FlattenSeq(seqs) \in Seq(S)
         /\ FlattenSeq(seqs) = << >> <=> \A i \in DOMAIN seqs : seqs[i] = << >>
<1> DEFINE n == Len(seqs)
           R == {p \in Nat \X Seq(S) :
                   p[1] \in 1..n /\ (p[2] = << >> <=> \A i \in 1..p[1] : seqs[i] = << >>)}
<1>1. n \in Nat \ {0} /\ DOMAIN seqs = 1..n /\ \A i \in 1..n : seqs[i] \in Seq(S)
  OBVIOUS
<1>2. <<1, seqs[1]>> \in R
  BY <1>1
<1>3. ASSUME NEW i \in 1..(n - 1), NEW s, <<i, s>> \in R
      PROVE  <<i + 1, s \o seqs[i + 1]>> \in R
  <2>1. /\ i + 1 \in 1..n /\ seqs[i + 1] \in Seq(S) /\ s \in Seq(S)
        /\ s = << >> <=> \A j \in 1..i : seqs[j] = << >>
    BY <1>1, <1>3
  <2>2. s \o seqs[i + 1] \in Seq(S) /\ (s \o seqs[i + 1] = << >> <=> s = << >> /\ seqs[i + 1] = << >>)
    BY <2>1, ConcatFacts
  <2>3. 1..(i + 1) = (1..i) \cup {i + 1}
    OBVIOUS
  <2>4. s \o seqs[i + 1] = << >> <=> \A j \in 1..(i + 1) : seqs[j] = << >>
    BY <2>1, <2>2, <2>3
  <2>5. i + 1 \in Nat
    OBVIOUS
  <2> DEFINE u == s \o seqs[i + 1]
  <2> HIDE DEF u
  <2> QED
    BY <2>1, <2>2, <2>4, <2>5 DEF u
<1>4. <<n, FlattenSeq(seqs)>> \in R
  <2> HIDE DEF R
  <2> QED
    BY <1>1, <1>2, <1>3, FlattenLoop
<1> QED
  BY <1>1, <1>4

(* What a concatenation holds.                                             *)
LEMMA ConcatSet ==
  ASSUME NEW S, NEW s \in Seq(S), NEW t \in Seq(S)
  PROVE  ToSet(s \o t) = ToSet(s) \cup ToSet(t)
<1>1. ASSUME NEW x \in ToSet(s \o t) PROVE x \in ToSet(s) \cup ToSet(t)
  <2>1. PICK i \in DOMAIN (s \o t) : x = (s \o t)[i]
    BY DEF ToSet
  <2>2. CASE i \in DOMAIN s
    BY <2>1, <2>2, ConcatFacts DEF ToSet
  <2>3. CASE i - Len(s) \in DOMAIN t /\ (s \o t)[i] = t[i - Len(s)]
    BY <2>1, <2>3 DEF ToSet
  <2> QED
    BY <2>2, <2>3, AfterTheFirst
<1>2. ToSet(s) \subseteq ToSet(s \o t)
  BY ConcatFacts DEF ToSet
<1>3. ASSUME NEW i \in DOMAIN t PROVE t[i] \in ToSet(s \o t)
  <2>1. Len(s) + i \in DOMAIN (s \o t) /\ (s \o t)[Len(s) + i] = t[i]
    BY ConcatFacts
  <2> QED
    BY <2>1 DEF ToSet
<1>4. ToSet(t) \subseteq ToSet(s \o t)
  BY <1>3 DEF ToSet
<1> QED
  BY <1>1, <1>2, <1>4

(* What a flattened sequence holds.                                        *)
LEMMA FlattenHolds ==
  ASSUME NEW S, NEW seqs \in Seq(Seq(S)), seqs # << >>
  PROVE  \A x : x \in ToSet(FlattenSeq(seqs)) <=> \E i \in DOMAIN seqs : x \in ToSet(seqs[i])
<1> DEFINE n == Len(seqs)
           Held(k) == UNION {ToSet(seqs[i]) : i \in 1..k}
           R == {p \in Nat \X Seq(S) : p[1] \in 1..n /\ ToSet(p[2]) = Held(p[1])}
<1>1. n \in Nat \ {0} /\ DOMAIN seqs = 1..n /\ \A i \in 1..n : seqs[i] \in Seq(S)
  OBVIOUS
<1>2. <<1, seqs[1]>> \in R
  <2>1. 1..1 = {1}
    OBVIOUS
  <2>2. Held(1) = ToSet(seqs[1])
    BY <2>1
  <2> HIDE DEF Held
  <2> QED
    BY <1>1, <2>2
<1>3. ASSUME NEW i \in 1..(n - 1), NEW s, <<i, s>> \in R
      PROVE  <<i + 1, s \o seqs[i + 1]>> \in R
  <2>1. /\ i + 1 \in 1..n /\ i + 1 \in Nat /\ seqs[i + 1] \in Seq(S)
        /\ s \in Seq(S) /\ ToSet(s) = Held(i)
    BY <1>1, <1>3
  <2>2. s \o seqs[i + 1] \in Seq(S) /\ ToSet(s \o seqs[i + 1]) = Held(i) \cup ToSet(seqs[i + 1])
    BY <2>1, ConcatFacts, ConcatSet
  <2>3. 1..(i + 1) = (1..i) \cup {i + 1}
    OBVIOUS
  <2>4. Held(i + 1) = Held(i) \cup ToSet(seqs[i + 1])
    BY <2>3
  <2> DEFINE u == s \o seqs[i + 1]
  <2> HIDE DEF u, Held
  <2> QED
    BY <2>1, <2>2, <2>4 DEF u
<1>4. <<n, FlattenSeq(seqs)>> \in R
  <2> HIDE DEF R
  <2> QED
    BY <1>1, <1>2, <1>3, FlattenLoop
<1>5. ToSet(FlattenSeq(seqs)) = Held(n)
  <2> HIDE DEF Held
  <2> QED
    BY <1>4
<1>6. \A x : x \in Held(n) <=> \E i \in DOMAIN seqs : x \in ToSet(seqs[i])
  BY <1>1
<1> HIDE DEF Held, n
<1> QED
  BY <1>5, <1>6

-----------------------------------------------------------------------------
(* The folds of the library run over the subsets of a sequence's indices,  *)
(* the largest index last.                                                 *)
FoldsTo(f, R, base, G, n) ==
  /\ f \in [SUBSET (1..n) -> R]
  /\ \A s \in SUBSET (1..n) :
       f[s] = IF s = {} THEN base ELSE G[<<f[s \ {Max(s)}], Max(s)>>]

(* A step G within a set R makes such a fold, ...                          *)
LEMMA FoldExists ==
  ASSUME NEW R, NEW base \in R, NEW n \in Nat, NEW G \in [R \X (1..n) -> R]
  PROVE  \E f : FoldsTo(f, R, base, G, n)
<1> DEFINE Steps(f, m) ==
             \A s \in SUBSET (1..m) :
               f[s] = IF s = {} THEN base ELSE G[<<f[s \ {Max(s)}], Max(s)>>]
           Reached(m) == \E f \in [SUBSET (1..m) -> R] : Steps(f, m)
           S == {m \in Nat : m <= n => Reached(m)}
<1>1. 0 \in S
  <2> DEFINE f == [s \in SUBSET (1..0) |-> base]
  <2>1. \A s \in SUBSET (1..0) : s = {} OBVIOUS
  <2>2. f \in [SUBSET (1..0) -> R] /\ Steps(f, 0) BY <2>1
  <2> QED BY <2>2
<1>2. ASSUME NEW m \in Nat, m \in S PROVE m + 1 \in S
  <2> SUFFICES ASSUME m + 1 <= n
               PROVE  Reached(m + 1)
    <3> HIDE DEF Reached
    <3> QED OBVIOUS
  <2>1. PICK f \in [SUBSET (1..m) -> R] : Steps(f, m)
    <3>1. Reached(m)
      <4> HIDE DEF Reached
      <4>1. m <= n OBVIOUS
      <4> QED BY <1>2, <4>1
    <3> HIDE DEF Steps
    <3> QED BY <3>1
  <2> DEFINE g == [s \in SUBSET (1..(m + 1)) |->
                     IF m + 1 \in s THEN G[<<f[s \ {m + 1}], m + 1>>] ELSE f[s]]
  <2>2. ASSUME NEW s \in SUBSET (1..(m + 1)), m + 1 \in s
        PROVE  /\ s \ {m + 1} \in SUBSET (1..m) /\ Max(s) = m + 1
               /\ G[<<f[s \ {m + 1}], m + 1>>] \in R
    <3>1. \A x \in s : x \in 1..(m + 1) OBVIOUS
    <3>2. s \ {m + 1} \in SUBSET (1..m) BY <3>1
    <3>3. Max(s) \in s /\ Max(s) >= m + 1
      <4>1. s \subseteq 1..(m + 1) /\ s # {} /\ m + 1 \in Nat BY <2>2
      <4>2. PICK k \in Nat : k = m + 1 BY <4>1
      <4>3. s \subseteq 1..k /\ m + 1 \in s BY <2>2, <4>1, <4>2
      <4>4. Max(s) \in s /\ \A y \in s : Max(s) >= y BY <4>1, <4>3, MaxOfIndices, Zenon
      <4> QED BY <4>3, <4>4, Zenon
    <3>4. Max(s) = m + 1
      <4>1. PICK x \in s : x = Max(s) BY <3>3
      <4>2. x \in 1..(m + 1) /\ x >= m + 1 BY <3>1, <3>3, <4>1
      <4> QED BY <4>1, <4>2
    <3>5. f[s \ {m + 1}] \in R BY <3>2
    <3>6. m + 1 \in 1..n OBVIOUS
    <3>7. <<f[s \ {m + 1}], m + 1>> \in R \X (1..n) BY <3>5, <3>6
    <3> QED BY <3>2, <3>4, <3>7
  <2>3. ASSUME NEW s \in SUBSET (1..(m + 1)), m + 1 \notin s
        PROVE  s \in SUBSET (1..m)
    <3>1. \A x \in s : x \in 1..(m + 1) /\ x # m + 1 BY <2>3
    <3> QED BY <3>1
  <2>4. g \in [SUBSET (1..(m + 1)) -> R]
    <3>1. ASSUME NEW s \in SUBSET (1..(m + 1)) PROVE g[s] \in R
      BY <2>2, <2>3
    <3>2. g = [s \in SUBSET (1..(m + 1)) |-> g[s]] OBVIOUS
    <3> HIDE DEF g
    <3> QED BY <3>1, <3>2
  <2>5. ASSUME NEW s \in SUBSET (1..(m + 1))
        PROVE  g[s] = IF s = {} THEN base ELSE G[<<g[s \ {Max(s)}], Max(s)>>]
    <3>1. CASE m + 1 \in s
      <4>1. s \ {m + 1} \in SUBSET (1..m) /\ Max(s) = m + 1 BY <2>2, <3>1
      <4>2. m + 1 \notin s \ {m + 1} /\ s \ {m + 1} \in SUBSET (1..(m + 1)) OBVIOUS
      <4>3. g[s \ {m + 1}] = f[s \ {m + 1}] BY <4>2
      <4>4. g[s] = G[<<f[s \ {m + 1}], m + 1>>] BY <3>1
      <4> HIDE DEF g
      <4> QED BY <3>1, <4>1, <4>3, <4>4
    <3>2. CASE m + 1 \notin s
      <4>1. s \in SUBSET (1..m) BY <2>3, <3>2
      <4>2. g[s] = f[s] BY <3>2
      <4>3. s \ {Max(s)} \in SUBSET (1..(m + 1)) /\ m + 1 \notin s \ {Max(s)} BY <3>2
      <4>4. g[s \ {Max(s)}] = f[s \ {Max(s)}] BY <4>3
      <4>5. f[s] = IF s = {} THEN base ELSE G[<<f[s \ {Max(s)}], Max(s)>>] BY <2>1, <4>1
      <4> HIDE DEF g
      <4> QED BY <4>2, <4>4, <4>5
    <3> QED BY <3>1, <3>2
  <2> HIDE DEF g
  <2> QED BY <2>4, <2>5
<1>3. Nat \subseteq S
  <2> HIDE DEF S
  <2> QED BY <1>1, <1>2, NatSetInduction
<1>4. Reached(n)
  <2> HIDE DEF Reached
  <2> QED BY <1>3
<1>5. \E f : FoldsTo(f, R, base, G, n) BY <1>4, Zenon DEF FoldsTo
<1> QED BY <1>5, Zenon

(* ... and what holds of no indices and the base, and goes on holding step *)
(* by step, holds of all indices and the fold's result.                    *)
LEMMA FoldStays ==
  ASSUME NEW R, NEW n \in Nat, NEW it, <<{}, it[{}]>> \in R,
         \A s \in SUBSET (1..n) :
           s # {} /\ <<s \ {Max(s)}, it[s \ {Max(s)}]>> \in R => <<s, it[s]>> \in R
  PROVE  <<1..n, it[1..n]>> \in R
<1> DEFINE S == {m \in Nat : \A s \in SUBSET (1..n) : s \subseteq 1..m => <<s, it[s]>> \in R}
<1>1. 0 \in S
  <2>1. \A s : s \subseteq 1..0 => s = {} OBVIOUS
  <2> QED BY <2>1
<1>2. ASSUME NEW m \in Nat, m \in S PROVE m + 1 \in S
  <2> SUFFICES ASSUME NEW s \in SUBSET (1..n), s \subseteq 1..(m + 1), s # {}
               PROVE  <<s, it[s]>> \in R
    <3>1. \A s : s = {} => <<s, it[s]>> \in R OBVIOUS
    <3> QED BY <3>1
  <2>1. s \ {Max(s)} \subseteq 1..m
    <3>1. Max(s) \in s /\ \A y \in s : Max(s) >= y BY MaxOfIndices
    <3>2. PICK x : x = Max(s) OBVIOUS
    <3>3. ASSUME NEW y \in s, y # x PROVE y \in 1..m
      <4>1. y \in 1..(m + 1) /\ x \in 1..(m + 1) /\ x >= y BY <3>1, <3>2
      <4> QED BY <3>3, <4>1
    <3> QED BY <3>2, <3>3
  <2>2. <<s \ {Max(s)}, it[s \ {Max(s)}]>> \in R BY <1>2, <2>1
  <2> QED BY <2>2
<1>3. Nat \subseteq S
  <2> HIDE DEF S
  <2> QED BY <1>1, <1>2, NatSetInduction, Zenon
<1> QED BY <1>3

-----------------------------------------------------------------------------
(* The folds of the library over a finite set, which take any member next: G   *)
(* is the step, P[s] the member taken of s.                                    *)
SetFoldsTo(f, R, base, G, P, S) ==
  /\ f \in [SUBSET S -> R]
  /\ \A s \in SUBSET S : f[s] = IF s = {} THEN base ELSE G[<<f[s \ {P[s]}], P[s]>>]

Picks(P, S) == \A s \in SUBSET S : s # {} => P[s] \in s

LEMMA SetFoldExists ==
  ASSUME NEW R, NEW base \in R, NEW S, IsFiniteSet(S), NEW P, Picks(P, S),
         NEW G \in [R \X S -> R]
  PROVE  \E f : SetFoldsTo(f, R, base, G, P, S)
<1> DEFINE Upto(n) == {s \in SUBSET S : Cardinality(s) <= n}
           Steps(f, n) == \A s \in Upto(n) :
                            f[s] = IF s = {} THEN base ELSE G[<<f[s \ {P[s]}], P[s]>>]
           Reached(n) == \E f \in [SUBSET S -> R] : Steps(f, n)
           T == {n \in Nat : Reached(n)}
<1>1. \A s \in SUBSET S : IsFiniteSet(s) /\ Cardinality(s) \in Nat
  BY FS_Subset, FS_CardinalityType
<1>2. ASSUME NEW s \in SUBSET S, s # {}
      PROVE  /\ P[s] \in s /\ s \ {P[s]} \in SUBSET S
             /\ Cardinality(s \ {P[s]}) = Cardinality(s) - 1
  <2>1. P[s] \in s BY <1>2 DEF Picks
  <2>2. Cardinality(s \ {P[s]}) = Cardinality(s) - 1
    BY <1>1, <2>1, FS_RemoveElement
  <2> QED BY <2>1, <2>2
<1>3. 0 \in T
  <2> DEFINE f == [s \in SUBSET S |-> base]
  <2>1. f \in [SUBSET S -> R] OBVIOUS
  <2>2. ASSUME NEW s \in Upto(0) PROVE s = {}
    <3>1. IsFiniteSet(s) /\ Cardinality(s) = 0 BY <1>1
    <3> QED BY <3>1, FS_EmptySet
  <2>3. Steps(f, 0) BY <2>2
  <2> HIDE DEF f, Steps
  <2> QED BY <2>1, <2>3
<1>4. ASSUME NEW n \in Nat, n \in T PROVE n + 1 \in T
  <2>1. PICK f \in [SUBSET S -> R] : Steps(f, n)
    <3> HIDE DEF Steps
    <3> QED BY <1>4
  <2> DEFINE g == [s \in SUBSET S |-> IF s = {} THEN base
                                      ELSE G[<<f[s \ {P[s]}], P[s]>>]]
  <2>2. g \in [SUBSET S -> R]
    <3> SUFFICES ASSUME NEW s \in SUBSET S, s # {}
                 PROVE  G[<<f[s \ {P[s]}], P[s]>>] \in R
      OBVIOUS
    <3>1. P[s] \in S /\ f[s \ {P[s]}] \in R BY <1>2
    <3>2. <<f[s \ {P[s]}], P[s]>> \in R \X S BY <3>1
    <3> QED BY <3>2
  <2>3. ASSUME NEW s \in Upto(n) PROVE g[s] = f[s]
    BY <2>1
  <2>4. ASSUME NEW s \in Upto(n + 1), s # {}
        PROVE  g[s] = G[<<g[s \ {P[s]}], P[s]>>]
    <3>1. s \ {P[s]} \in Upto(n) BY <1>1, <1>2, <2>4
    <3>2. g[s \ {P[s]}] = f[s \ {P[s]}] BY <2>3, <3>1
    <3>3. g[s] = G[<<f[s \ {P[s]}], P[s]>>] BY <2>4
    <3> HIDE DEF g
    <3> QED BY <3>2, <3>3
  <2>5. Steps(g, n + 1)
    <3>1. {} \in SUBSET S /\ g[{}] = base OBVIOUS
    <3> HIDE DEF g
    <3> QED BY <2>4, <3>1
  <2> HIDE DEF g, Steps
  <2> QED BY <2>2, <2>5
<1>5. Cardinality(S) \in T
  <2>1. Nat \subseteq T
    <3> HIDE DEF T
    <3> QED BY <1>3, <1>4, NatSetInduction
  <2> QED BY <2>1, <1>1
<1>6. PICK f \in [SUBSET S -> R] : Steps(f, Cardinality(S))
  <2> HIDE DEF Steps
  <2> QED BY <1>5
<1>7. \A s \in SUBSET S : s \in Upto(Cardinality(S))
  BY FS_Subset
<1>8. \A s \in SUBSET S : f[s] = IF s = {} THEN base ELSE G[<<f[s \ {P[s]}], P[s]>>]
  <2> HIDE DEF Upto
  <2> QED BY <1>6, <1>7
<1> QED BY <1>8 DEF SetFoldsTo

(* A sum over a finite set, as MapThenSumSet computes it.                      *)
SumsTo(f, F, S) ==
  f = [s \in SUBSET S |-> IF s = {} THEN 0
                          ELSE F[CHOOSE x \in s : TRUE] + f[s \ {CHOOSE x \in s : TRUE}]]

LEMMA SumOfIntegers ==
  ASSUME NEW S, IsFiniteSet(S), NEW F \in [S -> Int]
  PROVE  \E f : SumsTo(f, F, S)
<1> DEFINE P == [s \in SUBSET S |-> CHOOSE x \in s : TRUE]
           G == [p \in Int \X S |-> F[p[2]] + p[1]]
<1>1. Picks(P, S) BY DEF Picks
<1>2. G \in [Int \X S -> Int] OBVIOUS
<1>3. PICK f : SetFoldsTo(f, Int, 0, G, P, S)
  <2> HIDE DEF G, P
  <2>1. 0 \in Int OBVIOUS
  <2> QED BY <1>1, <1>2, <2>1, SetFoldExists
<1>4. SumsTo(f, F, S)
  <2>1. ASSUME NEW s \in SUBSET S, s # {}
        PROVE  f[s] = F[CHOOSE x \in s : TRUE] + f[s \ {CHOOSE x \in s : TRUE}]
    <3>1. f[s] = G[<<f[s \ {P[s]}], P[s]>>]
      BY <1>3, <2>1 DEF SetFoldsTo
    <3>2. P[s] \in S /\ f[s \ {P[s]}] \in Int
      BY <1>1, <1>3, <2>1 DEF Picks, SetFoldsTo
    <3>3. P[s] = CHOOSE x \in s : TRUE OBVIOUS
    <3>4. \A x \in S, n \in Int : G[<<n, x>>] = F[x] + n OBVIOUS
    <3> HIDE DEF P, G
    <3>5. G[<<f[s \ {P[s]}], P[s]>>] = F[P[s]] + f[s \ {P[s]}] BY <3>2, <3>4
    <3> QED BY <3>1, <3>3, <3>5
  <2>2. f[{}] = 0 BY <1>3 DEF SetFoldsTo
  <2>3. f = [s \in SUBSET S |-> f[s]] BY <1>3 DEF SetFoldsTo
  <2> QED BY <2>1, <2>2, <2>3 DEF SumsTo
<1> QED BY <1>4

LEMMA SumOfNaturals ==
  ASSUME NEW S, IsFiniteSet(S), NEW F \in [S -> Nat]
  PROVE  /\ \E f : SumsTo(f, F, S)
         /\ \A f : SumsTo(f, F, S) => f[S] \in Nat
<1>1. \E f : SumsTo(f, F, S)
  <2>1. F \in [S -> Int] OBVIOUS
  <2> QED BY <2>1, SumOfIntegers
<1>2. ASSUME NEW g, SumsTo(g, F, S) PROVE g[S] \in Nat
  <2> DEFINE T == {n \in Nat : \A s \in SUBSET S : Cardinality(s) <= n => g[s] \in Nat}
  <2>1. \A s \in SUBSET S : IsFiniteSet(s) /\ Cardinality(s) \in Nat
    BY FS_Subset, FS_CardinalityType
  <2>2. g[{}] = 0 BY <1>2 DEF SumsTo
  <2>3. 0 \in T
    <3>1. ASSUME NEW s \in SUBSET S, Cardinality(s) <= 0 PROVE s = {}
      <4>1. IsFiniteSet(s) /\ Cardinality(s) = 0 BY <2>1, <3>1
      <4> QED BY <4>1, FS_EmptySet
    <3> QED BY <2>2, <3>1
  <2>4. ASSUME NEW n \in Nat, n \in T PROVE n + 1 \in T
    <3> SUFFICES ASSUME NEW s \in SUBSET S, Cardinality(s) <= n + 1 PROVE g[s] \in Nat
      OBVIOUS
    <3>1. CASE s = {} BY <2>2, <3>1
    <3>2. CASE s # {}
      <4>1. PICK x : x = CHOOSE y \in s : TRUE OBVIOUS
      <4>2. x \in s /\ x \in S BY <3>2, <4>1
      <4>3. Cardinality(s \ {x}) = Cardinality(s) - 1 BY <2>1, <4>2, FS_RemoveElement
      <4>4. g[s \ {x}] \in Nat BY <2>1, <2>4, <4>3
      <4>5. g[s] = F[x] + g[s \ {x}] BY <1>2, <3>2, <4>1 DEF SumsTo
      <4> QED BY <4>2, <4>4, <4>5
    <3> QED BY <3>1, <3>2
  <2>5. Nat \subseteq T
    <3> HIDE DEF T
    <3> QED BY <2>3, <2>4, NatSetInduction
  <2>6. Cardinality(S) \in T /\ Cardinality(S) <= Cardinality(S) BY <2>1, <2>5
  <2> QED BY <2>6
<1> QED BY <1>1, <1>2

(* A sum is a number, and adds up in any order.                                *)
AddsUp(f, F, S) ==
  /\ f[{}] = 0
  /\ \A s \in SUBSET S : f[s] \in Int
  /\ \A s \in SUBSET S : \A x \in s : f[s] = F[x] + f[s \ {x}]

LEMMA SumAnyOrder ==
  ASSUME NEW S, IsFiniteSet(S), NEW F \in [S -> Int], NEW f, SumsTo(f, F, S)
  PROVE  AddsUp(f, F, S)
<1> DEFINE Splits(s) == f[s] \in Int /\ \A x \in s : f[s] = F[x] + f[s \ {x}]
           T == {n \in Nat : \A s \in SUBSET S : Cardinality(s) <= n => Splits(s)}
<1>1. \A s \in SUBSET S : IsFiniteSet(s) /\ Cardinality(s) \in Nat
  BY FS_Subset, FS_CardinalityType
<1>2. f[{}] = 0 BY DEF SumsTo
<1>3. 0 \in T
  <2>1. ASSUME NEW s \in SUBSET S, Cardinality(s) <= 0 PROVE s = {}
    <3>1. IsFiniteSet(s) /\ Cardinality(s) = 0 BY <1>1, <2>1
    <3> QED BY <3>1, FS_EmptySet
  <2> QED BY <1>2, <2>1
<1>4. ASSUME NEW n \in Nat, n \in T PROVE n + 1 \in T
  <2> SUFFICES ASSUME NEW s \in SUBSET S, Cardinality(s) <= n + 1 PROVE Splits(s)
    OBVIOUS
  <2>1. CASE s = {} BY <1>2, <2>1
  <2>2. CASE s # {}
    <3>1. PICK c : c = CHOOSE y \in s : TRUE OBVIOUS
    <3>2. c \in s /\ c \in S BY <2>2, <3>1
    <3>3. f[s] = F[c] + f[s \ {c}] BY <2>2, <3>1 DEF SumsTo
    <3>4. ASSUME NEW x \in s PROVE s \ {x} \in SUBSET S /\ Splits(s \ {x})
      <4>1. Cardinality(s \ {x}) = Cardinality(s) - 1 BY <1>1, FS_RemoveElement
      <4>2. Cardinality(s \ {x}) <= n BY <1>1, <4>1
      <4> HIDE DEF Splits
      <4> QED BY <1>4, <4>2
    <3>5. f[s] \in Int
      <4>1. f[s \ {c}] \in Int BY <3>2, <3>4
      <4> QED BY <3>2, <3>3, <4>1
    <3>6. ASSUME NEW x \in s, x # c PROVE f[s] = F[x] + f[s \ {x}]
      <4>1. f[s \ {c}] = F[x] + f[(s \ {c}) \ {x}]
        <5>1. x \in s \ {c} BY <3>6
        <5> QED BY <3>2, <3>4, <5>1
      <4>2. f[s \ {x}] = F[c] + f[(s \ {x}) \ {c}]
        <5>1. c \in s \ {x} BY <3>2, <3>6
        <5> QED BY <3>4, <5>1
      <4>3. (s \ {c}) \ {x} = (s \ {x}) \ {c} OBVIOUS
      <4>4. PICK t : t = f[(s \ {x}) \ {c}] OBVIOUS
      <4>5. t \in Int
        <5>1. (s \ {x}) \ {c} \in SUBSET S OBVIOUS
        <5>2. Cardinality((s \ {x}) \ {c}) <= n
          <6>1. IsFiniteSet(s \ {x}) /\ c \in s \ {x} BY <1>1, <3>2, <3>6
          <6>2. Cardinality((s \ {x}) \ {c}) = Cardinality(s \ {x}) - 1 BY <6>1, FS_RemoveElement
          <6>3. Cardinality(s \ {x}) = Cardinality(s) - 1 BY <1>1, FS_RemoveElement
          <6> QED BY <1>1, <6>2, <6>3
        <5> HIDE DEF Splits
        <5>3. Splits((s \ {x}) \ {c}) BY <1>4, <5>1, <5>2
        <5> QED BY <4>4, <5>3 DEF Splits
      <4>6. F[x] \in Int /\ F[c] \in Int BY <3>2
      <4>7. f[s] = F[c] + (F[x] + t) BY <3>3, <4>1, <4>3, <4>4
      <4>8. f[s \ {x}] = F[c] + t BY <4>2, <4>4
      <4> QED BY <4>5, <4>6, <4>7, <4>8
    <3> QED BY <3>3, <3>5, <3>6
  <2> QED BY <2>1, <2>2
<1>5. Nat \subseteq T
  <2> HIDE DEF T
  <2> QED BY <1>3, <1>4, NatSetInduction
<1>6. ASSUME NEW s \in SUBSET S PROVE Splits(s)
  <2>1. Cardinality(s) \in T /\ Cardinality(s) <= Cardinality(s) BY <1>1, <1>5
  <2> HIDE DEF Splits
  <2> QED BY <2>1
<1> QED BY <1>2, <1>6 DEF AddsUp

(* The sum of a part is the same wherever it is taken.                         *)
Partly(T, G, S, F) == T \in SUBSET S /\ \A x \in T : G[x] = F[x]

LEMMA SumOfPart ==
  ASSUME NEW S, IsFiniteSet(S), NEW F, NEW f, SumsTo(f, F, S),
         NEW T, NEW G, Partly(T, G, S, F), NEW g, SumsTo(g, G, T)
  PROVE  g[T] = f[T]
<1> DEFINE N == {n \in Nat : \A s \in SUBSET T : Cardinality(s) <= n => g[s] = f[s]}
<1>1. \A s \in SUBSET T : s \in SUBSET S /\ IsFiniteSet(s) /\ Cardinality(s) \in Nat
  BY FS_Subset, FS_CardinalityType DEF Partly
<1>2. f[{}] = 0 /\ g[{}] = 0 BY DEF SumsTo
<1>3. 0 \in N
  <2>1. ASSUME NEW s \in SUBSET T, Cardinality(s) <= 0 PROVE s = {}
    <3>1. IsFiniteSet(s) /\ Cardinality(s) = 0 BY <1>1, <2>1
    <3> QED BY <3>1, FS_EmptySet
  <2> QED BY <1>2, <2>1
<1>4. ASSUME NEW n \in Nat, n \in N PROVE n + 1 \in N
  <2> SUFFICES ASSUME NEW s \in SUBSET T, Cardinality(s) <= n + 1, s # {} PROVE g[s] = f[s]
    BY <1>2
  <2>1. PICK c : c = CHOOSE y \in s : TRUE OBVIOUS
  <2>2. c \in s BY <2>1
  <2>3. Cardinality(s \ {c}) = Cardinality(s) - 1 BY <1>1, <2>2, FS_RemoveElement
  <2>4. g[s \ {c}] = f[s \ {c}] BY <1>1, <1>4, <2>3
  <2>5. f[s] = F[c] + f[s \ {c}] BY <1>1, <2>1 DEF SumsTo
  <2>6. g[s] = G[c] + g[s \ {c}] BY <2>1 DEF SumsTo
  <2> QED BY <2>2, <2>4, <2>5, <2>6 DEF Partly
<1>5. Nat \subseteq N
  <2> HIDE DEF N
  <2> QED BY <1>3, <1>4, NatSetInduction
<1>6. Cardinality(T) \in N /\ Cardinality(T) <= Cardinality(T) BY <1>1, <1>5
<1> QED BY <1>6
=============================================================================
