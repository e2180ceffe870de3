----------------------------- MODULE DataLemmas -----------------------------
(***************************************************************************)
(* What the operators the analysis is built from compute: Max and Min,     *)
(* FlattenSeq, and sums over finite sets.  The recursions in them are      *)
(* reasoned about through the least counterexample of a set, which is      *)
(* first-order.                                                            *)
(***************************************************************************)
EXTENDS Integers, SequencesExt, FiniteSetTheorems, TLAPS

Below == {p \in Nat \X Nat : p[1] < p[2]}

(* A set of natural numbers that is not empty has a least element.         *)
LEMMA Least ==
    ASSUME NEW T, T \subseteq Nat, T # {}
    PROVE  \E x \in T : \A y \in T : x <= y
<1>1. OpToRel(<, Nat) = Below
  BY Zenon DEF OpToRel, Below
<1>2. IsWellFoundedOn(Below, Nat)
  BY Zenon, <1>1, NatLessThanWellFounded
<1>3. PICK x \in T : \A y \in T : ~(<<y, x>> \in Below)
  BY <1>2, WFMin
<1>4. \A y \in T : ~(y < x)
  BY <1>3 DEF Below
<1> QED
  BY <1>4

(* Induction over the natural numbers, for a property given as a set.      *)
LEMMA Induction ==
    ASSUME NEW S, 0 \in S, \A n \in Nat : n \in S => n + 1 \in S
    PROVE  \A n \in Nat : n \in S
<1> DEFINE Bad == {n \in Nat : n \notin S}
<1>1. SUFFICES ASSUME Bad # {}
               PROVE  FALSE
  OBVIOUS
<1>2. PICK m \in Bad : \A k \in Bad : m <= k
  <2>1. Bad \subseteq Nat
    OBVIOUS
  <2> QED
    BY <1>1, <2>1, Least
<1>3. m \in Nat /\ m # 0
  OBVIOUS
<1>4. m - 1 \in Nat /\ m - 1 \notin Bad
  BY <1>2, <1>3
<1>5. m - 1 \in S
  BY <1>4
<1>6. (m - 1) + 1 \in S
  BY <1>4, <1>5
<1> QED
  BY <1>3, <1>6

-----------------------------------------------------------------------------
(* Min and Max of a bounded set of integers are elements of it.            *)
LEMMA MinFacts ==
    ASSUME NEW T, T \subseteq Nat, T # {}
    PROVE  Min(T) \in T /\ \A y \in T : Min(T) <= y
BY Least DEF Min

(* The maximum of a bounded set of integers is an element of it.           *)
LEMMA MaxFacts ==
    ASSUME NEW T, T \subseteq Int, T # {}, NEW b \in Int, \A y \in T : y <= b
    PROVE  Max(T) \in T /\ \A y \in T : y <= Max(T)
<1> DEFINE Gap == {b - y : y \in T}
<1>1. Gap \subseteq Nat
  OBVIOUS
<1>2. Gap # {}
  OBVIOUS
<1>3. \A y \in T : b - y \in Gap
  OBVIOUS
<1>4. \A g \in Gap : \E m \in T : g = b - m
  OBVIOUS
<1> HIDE DEF Gap
<1>5. PICK g \in Gap : \A h \in Gap : g <= h
  BY <1>1, <1>2, Least
<1>6. PICK m \in T : g = b - m
  BY <1>4
<1>7. \A y \in T : y <= m
  <2> TAKE y \in T
  <2>1. b - m <= b - y
    BY <1>3, <1>5, <1>6
  <2> QED
    BY <2>1
<1>8. \A y \in T : m >= y
  BY <1>7
<1> QED
  BY <1>8 DEF Max

(* What an index that SelectInSeq or SelectLastInSeq returns is.           *)
LEMMA FirstIndex ==
    ASSUME NEW n \in Nat, NEW I \in SUBSET (1..n), I # {}
    PROVE  Min(I) \in I /\ Min(I) \in 1..n /\ \A j \in I : Min(I) <= j
<1>1. I \subseteq Nat
  OBVIOUS
<1> QED
  BY <1>1, MinFacts

(* What SelectLastInSeq returns when an element is found.                  *)
LEMMA LastIndex ==
    ASSUME NEW n \in Nat, NEW I \in SUBSET (1..n), I # {}
    PROVE  Max(I) \in I /\ Max(I) \in 1..n /\ \A j \in I : j <= Max(I)
<1>1. I \subseteq Int /\ n \in Int /\ \A j \in I : j <= n
  OBVIOUS
<1>2. Max(I) \in I /\ \A j \in I : j <= Max(I)
  BY <1>1, MaxFacts
<1> QED
  BY <1>2

(* Finitely many integers have a bound.                                    *)
LEMMA Bounded ==
    ASSUME NEW n \in Nat, NEW f \in [1..n -> Int]
    PROVE  \E b \in Int : \A i \in 1..n : f[i] <= b
<1> DEFINE S == {m \in Nat : m <= n => \E b \in Int : \A i \in 1..m : f[i] <= b}
<1>1. 0 \in S
  OBVIOUS
<1>2. ASSUME NEW m \in Nat, m \in S
      PROVE  m + 1 \in S
  <2> SUFFICES ASSUME m + 1 <= n
               PROVE  \E c \in Int : \A i \in 1..(m + 1) : f[i] <= c
    OBVIOUS
  <2>1. PICK b \in Int : \A i \in 1..m : f[i] <= b
    BY <1>2
  <2> DEFINE c == IF f[m + 1] <= b THEN b ELSE f[m + 1]
  <2>2. f[m + 1] \in Int
    OBVIOUS
  <2>3. c \in Int /\ c >= b /\ c >= f[m + 1]
    BY <2>2
  <2>4. \A i \in 1..(m + 1) : i = m + 1 \/ i \in 1..m
    OBVIOUS
  <2> HIDE DEF c
  <2>5. ASSUME NEW i \in 1..(m + 1)
        PROVE  f[i] <= c
    <3>1. CASE i = m + 1
      BY <2>2, <2>3, <3>1
    <3>2. CASE i \in 1..m
      <4>1. f[i] \in Int /\ f[i] <= b
        BY <2>1, <3>2
      <4> QED
        BY <2>3, <4>1
    <3> QED
      BY <2>4, <3>1, <3>2
  <2> QED
    BY <2>3, <2>5
<1>3. n \in S
  <2> HIDE DEF S
  <2> QED
    BY <1>1, <1>2, Induction
<1> QED
  BY <1>3

-----------------------------------------------------------------------------
(* FlattenSeq: the concatenation of the first i sequences, for every i.    *)
Joined(seqs, n) ==
    CHOOSE flat : flat = [i \in 1..n |-> IF i = 1 THEN seqs[i] ELSE flat[i - 1] \o seqs[i]]

(* The concatenations exist, although each is defined by the one before.   *)
LEMMA JoinedExist ==
    ASSUME NEW seqs, NEW n \in Nat
    PROVE  Joined(seqs, n) = [i \in 1..n |-> IF i = 1 THEN seqs[i] ELSE Joined(seqs, n)[i - 1] \o seqs[i]]
<1> DEFINE Good(m, flat) == flat = [i \in 1..m |-> IF i = 1 THEN seqs[i] ELSE flat[i - 1] \o seqs[i]]
           S == {m \in Nat : \E flat : Good(m, flat)}
<1>1. 0 \in S
  <2>1. Good(0, [i \in 1..0 |-> seqs[i]])
    OBVIOUS
  <2> QED
    BY <2>1
<1>2. ASSUME NEW m \in Nat, m \in S
      PROVE  m + 1 \in S
  <2>1. PICK flat : Good(m, flat)
    BY <1>2
  <2> DEFINE last == IF m + 1 = 1 THEN seqs[m + 1] ELSE flat[m] \o seqs[m + 1]
             longer == [i \in 1..(m + 1) |-> IF i = m + 1 THEN last ELSE flat[i]]
  <2>2. \A i \in 1..m : flat[i] = IF i = 1 THEN seqs[i] ELSE flat[i - 1] \o seqs[i]
    BY <2>1
  <2>3. ASSUME NEW i \in 1..(m + 1)
        PROVE  longer[i] = IF i = 1 THEN seqs[i] ELSE longer[i - 1] \o seqs[i]
    <3>1. CASE i = m + 1
      <4>1. i # 1 => i - 1 \in 1..(m + 1) /\ i - 1 # m + 1 /\ i - 1 = m
        BY <3>1
      <4>2. i # 1 => longer[i - 1] = flat[m]
        BY <4>1
      <4> QED
        BY <3>1, <4>2
    <3>2. CASE i # m + 1
      <4>1. i \in 1..m
        BY <3>2
      <4>2. i # 1 => i - 1 \in 1..(m + 1) /\ i - 1 # m + 1
        BY <4>1
      <4>3. i # 1 => longer[i - 1] = flat[i - 1]
        BY <4>2
      <4>4. longer[i] = flat[i]
        BY <3>2
      <4> QED
        BY <2>2, <4>1, <4>3, <4>4
    <3> QED
      BY <3>1, <3>2
  <2>4. longer = [i \in 1..(m + 1) |-> longer[i]]
    OBVIOUS
  <2> HIDE DEF longer
  <2>5. Good(m + 1, longer)
    BY <2>3, <2>4
  <2> HIDE DEF Good
  <2>6. \E x : Good(m + 1, x)
    BY <2>5
  <2> QED
    BY <2>6
<1>3. n \in S
  <2> HIDE DEF S
  <2> QED
    BY <1>1, <1>2, Induction
<1>4. \E flat : flat = [i \in 1..n |-> IF i = 1 THEN seqs[i] ELSE flat[i - 1] \o seqs[i]]
  BY <1>3
<1> QED
  BY <1>4 DEF Joined

(* Flattening sequences is concatenating them all.                         *)
LEMMA FlattenIsPrefix ==
    ASSUME NEW seqs, Len(seqs) # 0
    PROVE  FlattenSeq(seqs) = Joined(seqs, Len(seqs))[Len(seqs)]
BY DEF FlattenSeq, Joined

(* flat is the first n sequences one after the other: its k-th element is  *)
(* element col[k] of sequence row[k], and none is missing.                 *)
Lists(seqs, n, flat, row, col) ==
    /\ \A k \in 1..Len(flat) : /\ row[k] \in 1..n
                               /\ col[k] \in 1..Len(seqs[row[k]])
                               /\ flat[k] = seqs[row[k]][col[k]]
    /\ \A k, l \in 1..Len(flat) : k < l => row[k] < row[l] \/ (row[k] = row[l] /\ col[k] < col[l])
    /\ \A a \in 1..n : \A b \in 1..Len(seqs[a]) :
            \E k \in 1..Len(flat) : row[k] = a /\ col[k] = b

Listed(seqs, n, flat) ==
    \E row, col \in [1..Len(flat) -> Nat] : Lists(seqs, n, flat, row, col)

(* Appending the next sequence keeps what is known of the concatenation.   *)
LEMMA ListOneMore ==
    ASSUME NEW S, NEW seqs \in Seq(Seq(S)), NEW n \in Nat, n + 1 \in 1..Len(seqs),
           NEW flat \in Seq(S), Listed(seqs, n, flat)
    PROVE  flat \o seqs[n + 1] \in Seq(S) /\ Listed(seqs, n + 1, flat \o seqs[n + 1])
<1> DEFINE m == Len(flat)
           own == seqs[n + 1]
           longer == flat \o own
<1>1. own \in Seq(S) /\ m \in Nat /\ Len(own) \in Nat
  OBVIOUS
<1>2. /\ longer \in Seq(S)
      /\ Len(longer) = m + Len(own)
      /\ \A k \in 1..m : longer[k] = flat[k]
      /\ \A k \in (m + 1)..(m + Len(own)) : longer[k] = own[k - m]
  BY <1>1
<1>3. PICK row \in [1..m -> Nat], col \in [1..m -> Nat] : Lists(seqs, n, flat, row, col)
  BY DEF Listed
<1> DEFINE row2 == [k \in 1..(m + Len(own)) |-> IF k <= m THEN row[k] ELSE n + 1]
           col2 == [k \in 1..(m + Len(own)) |-> IF k <= m THEN col[k] ELSE k - m]
<1>4. /\ \A k \in 1..m : row2[k] = row[k] /\ col2[k] = col[k]
      /\ \A k \in (m + 1)..(m + Len(own)) : row2[k] = n + 1 /\ col2[k] = k - m
      /\ row2 \in [1..(m + Len(own)) -> Nat] /\ col2 \in [1..(m + Len(own)) -> Nat]
  <2>1. ASSUME NEW k \in 1..m
        PROVE  row2[k] = row[k] /\ col2[k] = col[k]
    BY <1>1
  <2>2. ASSUME NEW k \in (m + 1)..(m + Len(own))
        PROVE  row2[k] = n + 1 /\ col2[k] = k - m
    BY <1>1
  <2>3. row2 \in [1..(m + Len(own)) -> Nat]
    BY <1>1
  <2>4. col2 \in [1..(m + Len(own)) -> Nat]
    BY <1>1
  <2> HIDE DEF row2, col2, m, own
  <2> QED
    BY Zenon, <2>1, <2>2, <2>3, <2>4
<1>5. \A k \in 1..(m + Len(own)) : k \in 1..m \/ k \in (m + 1)..(m + Len(own))
  BY <1>1
<1> HIDE DEF row2, col2, longer, m
<1>6. /\ \A k \in 1..m : /\ row[k] \in 1..n
                         /\ col[k] \in 1..Len(seqs[row[k]])
                         /\ flat[k] = seqs[row[k]][col[k]]
      /\ \A k, l \in 1..m : k < l => row[k] < row[l] \/ (row[k] = row[l] /\ col[k] < col[l])
      /\ \A a \in 1..n : \A b \in 1..Len(seqs[a]) : \E k \in 1..m : row[k] = a /\ col[k] = b
  BY <1>3 DEF Lists, m
<1>7. ASSUME NEW k \in 1..(m + Len(own))
      PROVE  /\ row2[k] \in 1..(n + 1)
             /\ col2[k] \in 1..Len(seqs[row2[k]])
             /\ longer[k] = seqs[row2[k]][col2[k]]
  <2>1. CASE k \in 1..m
    <3>1. row2[k] = row[k] /\ col2[k] = col[k] /\ longer[k] = flat[k]
      BY <1>2, <1>4, <2>1
    <3>2. row[k] \in 1..n /\ col[k] \in 1..Len(seqs[row[k]]) /\ flat[k] = seqs[row[k]][col[k]]
      BY <1>6, <2>1
    <3>3. row[k] \in 1..(n + 1)
      BY <3>2
    <3> QED
      BY Zenon, <3>1, <3>2, <3>3
  <2>2. CASE k \in (m + 1)..(m + Len(own))
    <3>1. row2[k] = n + 1 /\ col2[k] = k - m /\ longer[k] = own[k - m]
      BY <1>2, <1>4, <2>2
    <3>2. k - m \in 1..Len(own)
      BY <1>1, <2>2
    <3> QED
      BY <3>1, <3>2
  <2> QED
    BY <1>5, <2>1, <2>2
<1>8. ASSUME NEW k \in 1..(m + Len(own)), NEW l \in 1..(m + Len(own)), k < l
      PROVE  row2[k] < row2[l] \/ (row2[k] = row2[l] /\ col2[k] < col2[l])
  <2>1. CASE k \in 1..m /\ l \in 1..m
    BY <1>4, <1>6, <1>8, <2>1
  <2>2. CASE k \in 1..m /\ l \in (m + 1)..(m + Len(own))
    <3>1. row2[k] \in 1..n /\ row2[l] = n + 1
      BY <1>4, <1>6, <2>2
    <3> QED
      BY <3>1
  <2>3. CASE k \in (m + 1)..(m + Len(own))
    <3>1. l \in (m + 1)..(m + Len(own))
      BY <1>8, <1>1, <2>3
    <3>2. row2[k] = n + 1 /\ col2[k] = k - m /\ row2[l] = n + 1 /\ col2[l] = l - m
      BY <1>4, <2>3, <3>1
    <3> QED
      BY <1>1, <1>8, <3>2
  <2> QED
    BY <1>5, <2>1, <2>2, <2>3
<1>9. ASSUME NEW a \in 1..(n + 1), NEW b \in 1..Len(seqs[a])
      PROVE  \E k \in 1..(m + Len(own)) : row2[k] = a /\ col2[k] = b
  <2>1. CASE a \in 1..n
    <3>1. PICK k \in 1..m : row[k] = a /\ col[k] = b
      BY <1>6, <2>1
    <3>2. k \in 1..(m + Len(own))
      BY <1>1
    <3> QED
      BY <1>4, <3>1, <3>2
  <2>2. CASE a = n + 1
    <3>1. m + b \in (m + 1)..(m + Len(own)) /\ m + b \in 1..(m + Len(own)) /\ (m + b) - m = b
      BY <1>1, <2>2
    <3> QED
      BY <1>4, <2>2, <3>1
  <2> QED
    BY <2>1, <2>2
<1>10. Lists(seqs, n + 1, longer, row2, col2)
  <2> HIDE DEF own
  <2>1. \A k \in 1..Len(longer) : /\ row2[k] \in 1..(n + 1)
                                 /\ col2[k] \in 1..Len(seqs[row2[k]])
                                 /\ longer[k] = seqs[row2[k]][col2[k]]
    BY <1>2, <1>7
  <2>2. \A k, l \in 1..Len(longer) : k < l => row2[k] < row2[l] \/ (row2[k] = row2[l] /\ col2[k] < col2[l])
    BY <1>2, <1>8
  <2>3. \A a \in 1..(n + 1) : \A b \in 1..Len(seqs[a]) :
            \E k \in 1..Len(longer) : row2[k] = a /\ col2[k] = b
    <3>1. Len(longer) = m + Len(own)
      BY <1>2
    <3> SUFFICES ASSUME NEW a \in 1..(n + 1), NEW b \in 1..Len(seqs[a])
                 PROVE  \E k \in 1..Len(longer) : row2[k] = a /\ col2[k] = b
      OBVIOUS
    <3>2. PICK k \in 1..(m + Len(own)) : row2[k] = a /\ col2[k] = b
      BY <1>9
    <3> QED
      BY <3>1, <3>2
  <2> QED
    BY Zenon, <2>1, <2>2, <2>3 DEF Lists
<1>11. Listed(seqs, n + 1, longer)
  BY <1>2, <1>4, <1>10 DEF Listed
<1> QED
  BY <1>2, <1>11 DEF longer

(* Nothing has been concatenated at first.                                 *)
LEMMA NothingListed == ASSUME NEW seqs PROVE Listed(seqs, 0, <<>>)
<1> DEFINE no == [k \in 1..0 |-> 0]
<1>1. no \in [1..Len(<<>>) -> Nat] /\ 1..Len(<<>>) = {} /\ 1..0 = {}
  OBVIOUS
<1> HIDE DEF no
<1>2. Lists(seqs, 0, <<>>, no, no)
  BY Zenon, <1>1 DEF Lists
<1> QED
  BY <1>1, <1>2 DEF Listed

(* Flattening lists every element of every sequence once, in order.        *)
LEMMA FlattenFacts ==
    ASSUME NEW S, NEW seqs \in Seq(Seq(S))
    PROVE  FlattenSeq(seqs) \in Seq(S) /\ Listed(seqs, Len(seqs), FlattenSeq(seqs))
<1>1. CASE Len(seqs) = 0
  <2>1. FlattenSeq(seqs) = <<>>
    BY <1>1 DEF FlattenSeq
  <2> QED
    BY <1>1, <2>1, NothingListed
<1>2. CASE Len(seqs) # 0
  <2> DEFINE n == Len(seqs)
             flat == Joined(seqs, n)
             G == {i \in Nat : i + 1 \in 1..n => flat[i + 1] \in Seq(S) /\ Listed(seqs, i + 1, flat[i + 1])}
  <2>0. n \in Nat /\ n # 0
    BY <1>2
  <2> HIDE DEF n, flat
  <2>1. \A i \in 1..n : flat[i] = IF i = 1 THEN seqs[i] ELSE flat[i - 1] \o seqs[i]
    <3>1. flat = [i \in 1..n |-> IF i = 1 THEN seqs[i] ELSE flat[i - 1] \o seqs[i]]
      BY <2>0, JoinedExist DEF flat
    <3> QED
      BY <3>1
  <2>2. flat[1] = <<>> \o seqs[1]
    <3>1. flat[1] = seqs[1] /\ seqs[1] \in Seq(S)
      BY <2>0, <2>1 DEF n
    <3> QED
      BY <3>1
  <2>4. 0 \in G
    <3>1. 0 \in Nat /\ 0 + 1 \in 1..Len(seqs) /\ <<>> \in Seq(S)
      BY <2>0 DEF n
    <3>2. <<>> \o seqs[0 + 1] \in Seq(S) /\ Listed(seqs, 0 + 1, <<>> \o seqs[0 + 1])
      BY NothingListed, <3>1, ListOneMore
    <3> QED
      BY <2>2, <3>2
  <2>5. ASSUME NEW i \in Nat, i \in G
        PROVE  i + 1 \in G
    <3> SUFFICES ASSUME (i + 1) + 1 \in 1..n
                 PROVE  /\ flat[(i + 1) + 1] \in Seq(S)
                        /\ Listed(seqs, (i + 1) + 1, flat[(i + 1) + 1])
      OBVIOUS
    <3>1. flat[i + 1] \in Seq(S) /\ Listed(seqs, i + 1, flat[i + 1])
      BY <2>0, <2>5
    <3>2. flat[(i + 1) + 1] = flat[i + 1] \o seqs[(i + 1) + 1]
      <4>1. ((i + 1) + 1) - 1 = i + 1 /\ (i + 1) + 1 # 1
        OBVIOUS
      <4> QED
        BY <2>1, <4>1
    <3>3. i + 1 \in Nat /\ (i + 1) + 1 \in 1..Len(seqs)
      BY DEF n
    <3> QED
      BY <3>1, <3>2, <3>3, ListOneMore
  <2>6. n - 1 \in G
    <3> HIDE DEF G
    <3>1. \A i \in Nat : i \in G => i + 1 \in G
      BY <2>5
    <3>2. \A i \in Nat : i \in G
      BY Zenon, <2>4, <3>1, Induction
    <3> QED
      BY <2>0, <3>2
  <2>7. flat[n] \in Seq(S) /\ Listed(seqs, n, flat[n])
    BY <2>0, <2>6
  <2>8. FlattenSeq(seqs) = flat[n]
    BY <1>2, FlattenIsPrefix DEF flat, n
  <2> QED
    BY <2>7, <2>8 DEF n
<1> QED
  BY <1>1, <1>2

(* flat has the elements of the sequences that are not empty; pos[k] is    *)
(* the sequence its k-th element is from.                                  *)
Keeps(seqs, flat, pos) ==
    /\ \A k \in 1..Len(flat) : Len(seqs[pos[k]]) = 1 /\ flat[k] = seqs[pos[k]][1]
    /\ \A k, l \in 1..Len(flat) : k < l => pos[k] < pos[l]
    /\ \A i \in 1..Len(seqs) : Len(seqs[i]) = 1 => \E k \in 1..Len(flat) : pos[k] = i

(* Facts of arithmetic and of sequences for steps whose context is large:  *)
(* what is 0 or 1 is at most 1.                                            *)
LEMMA ZeroOrOne == \A n : n = 0 \/ n = 1 => n <= 1
OBVIOUS

(* An element of a sequence over a set is in the set.                      *)
LEMMA ElementOf == ASSUME NEW S, NEW s \in Seq(S) PROVE \A i \in 1..Len(s) : s[i] \in S
OBVIOUS

(* The only index of a sequence that has one element is 1.                 *)
LEMMA OnlyOne == \A size \in Nat : \A c \in 1..size : size <= 1 => c = 1 /\ size = 1
OBVIOUS

(* When no sequence has more than one element, flattening keeps the        *)
(* elements of those that have one.                                        *)
LEMMA KeptInOrder ==
    ASSUME NEW S, NEW seqs \in Seq(Seq(S)), \A i \in 1..Len(seqs) : Len(seqs[i]) <= 1
    PROVE  \E pos \in [1..Len(FlattenSeq(seqs)) -> 1..Len(seqs)] : Keeps(seqs, FlattenSeq(seqs), pos)
<1> DEFINE flat == FlattenSeq(seqs)
           m == Len(flat)
           n == Len(seqs)
<1>1. flat \in Seq(S) /\ Listed(seqs, n, flat)
  BY FlattenFacts
<1> HIDE DEF flat
<1>2. PICK row \in [1..m -> Nat], col \in [1..m -> Nat] : Lists(seqs, n, flat, row, col)
  BY <1>1 DEF Listed
<1>3. /\ \A k \in 1..m : row[k] \in 1..n /\ col[k] \in 1..Len(seqs[row[k]]) /\ flat[k] = seqs[row[k]][col[k]]
      /\ \A k, l \in 1..m : k < l => row[k] < row[l] \/ (row[k] = row[l] /\ col[k] < col[l])
      /\ \A a \in 1..n : \A b \in 1..Len(seqs[a]) : \E k \in 1..m : row[k] = a /\ col[k] = b
  BY <1>2 DEF Lists
<1>4. \A i \in 1..n : Len(seqs[i]) \in Nat /\ Len(seqs[i]) <= 1
  OBVIOUS
<1>5. \A k \in 1..m : col[k] = 1 /\ Len(seqs[row[k]]) = 1
  <2> TAKE k \in 1..m
  <2>1. row[k] \in 1..n /\ col[k] \in 1..Len(seqs[row[k]])
    BY <1>3
  <2>2. PICK size \in Nat : size = Len(seqs[row[k]]) /\ size <= 1
    BY <1>4, <2>1
  <2>3. PICK c \in 1..size : c = col[k]
    BY <2>1, <2>2
  <2>4. c = 1 /\ size = 1
    BY Zenon, <2>2, OnlyOne
  <2> QED
    BY <2>2, <2>3, <2>4
<1>6. \A k, l \in 1..m : k < l => row[k] < row[l]
  BY <1>3, <1>5
<1>7. ASSUME NEW i \in 1..n, Len(seqs[i]) = 1
      PROVE  \E k \in 1..m : row[k] = i
  <2>1. 1 \in 1..Len(seqs[i])
    BY <1>7
  <2> QED
    BY <1>3, <2>1
<1>8. row \in [1..m -> 1..n]
  BY <1>3
<1>9. \A k \in 1..m : Len(seqs[row[k]]) = 1 /\ flat[k] = seqs[row[k]][1]
  BY <1>3, <1>5
<1> QED
  BY <1>6, <1>7, <1>8, <1>9 DEF flat, Keeps

-----------------------------------------------------------------------------
(* sum[s] adds f over s, taking the elements in the order in which the     *)
(* folds of the community modules take them.                               *)
Sums(U, f, sum) ==
    sum = [s \in SUBSET U |-> IF s = {} THEN 0
                             ELSE f[CHOOSE x \in s : TRUE] + sum[s \ {CHOOSE x \in s : TRUE}]]

(* The sums over all subsets of a finite set exist.                        *)
LEMMA SumExists ==
    ASSUME NEW U, IsFiniteSet(U), NEW f
    PROVE  \E sum : Sums(U, f, sum)
<1> DEFINE Upto(m) == {s \in SUBSET U : Cardinality(s) <= m}
           One(s) == CHOOSE x \in s : TRUE
           Good(m, sum) == sum = [s \in Upto(m) |-> IF s = {} THEN 0 ELSE f[One(s)] + sum[s \ {One(s)}]]
           S == {m \in Nat : \E sum : Good(m, sum)}
<1>1. \A s \in SUBSET U : /\ IsFiniteSet(s) /\ Cardinality(s) \in Nat
                          /\ (Cardinality(s) = 0 <=> s = {})
                          /\ Cardinality(s) <= Cardinality(U)
  BY FS_Subset, FS_CardinalityType, FS_EmptySet
<1>2. ASSUME NEW s \in SUBSET U, s # {}
      PROVE  One(s) \in s /\ s \ {One(s)} \in SUBSET U /\ Cardinality(s \ {One(s)}) = Cardinality(s) - 1
  <2>1. One(s) \in s
    BY <1>2
  <2>2. Cardinality(s \ {One(s)}) = Cardinality(s) - 1
    BY <1>1, <2>1, FS_RemoveElement
  <2> QED
    BY <2>1, <2>2
<1> HIDE DEF One
<1>3. 0 \in S
  <2>1. \A s \in Upto(0) : s = {}
    BY <1>1
  <2>2. Good(0, [s \in Upto(0) |-> 0])
    BY <2>1
  <2> HIDE DEF Good
  <2>3. \E sum : Good(0, sum)
    BY <2>2
  <2> QED
    BY <2>3
<1>4. ASSUME NEW m \in Nat, m \in S
      PROVE  m + 1 \in S
  <2>1. PICK sum : Good(m, sum)
    BY <1>4
  <2> DEFINE more == [s \in Upto(m + 1) |-> IF s = {} THEN 0 ELSE f[One(s)] + sum[s \ {One(s)}]]
  <2>2. ASSUME NEW s \in Upto(m + 1), s # {}
        PROVE  more[s \ {One(s)}] = sum[s \ {One(s)}]
    <3>1. s \ {One(s)} \in Upto(m) /\ s \ {One(s)} \in Upto(m + 1)
      BY <1>1, <1>2, <2>2
    <3> DEFINE t == s \ {One(s)}
    <3>2. sum[t] = IF t = {} THEN 0 ELSE f[One(t)] + sum[t \ {One(t)}]
      BY <2>1, <3>1
    <3>3. more[t] = IF t = {} THEN 0 ELSE f[One(t)] + sum[t \ {One(t)}]
      BY <3>1
    <3> QED
      BY <3>2, <3>3
  <2>3. \A s \in Upto(m + 1) : more[s] = IF s = {} THEN 0 ELSE f[One(s)] + more[s \ {One(s)}]
    BY <2>2
  <2>4. more = [s \in Upto(m + 1) |-> more[s]]
    OBVIOUS
  <2> HIDE DEF more
  <2>5. Good(m + 1, more)
    BY <2>3, <2>4
  <2> HIDE DEF Good
  <2>6. \E x : Good(m + 1, x)
    BY <2>5
  <2> QED
    BY <2>6
<1>5. Cardinality(U) \in S
  <2>1. Cardinality(U) \in Nat
    BY FS_CardinalityType
  <2> HIDE DEF S
  <2> QED
    BY <1>3, <1>4, <2>1, Induction
<1>6. Upto(Cardinality(U)) = SUBSET U
  BY <1>1
<1>7. PICK sum : Good(Cardinality(U), sum)
  BY <1>5
<1>8. Sums(U, f, sum)
  BY <1>6, <1>7 DEF Sums, One
<1> QED
  BY <1>8

(* A property of every finite subset of U, by the number of its elements.  *)
LEMMA SubsetInduction ==
    ASSUME NEW U, IsFiniteSet(U), NEW P, {} \in P,
           \A s \in SUBSET U : s # {} /\ (\A t \in SUBSET s : t # s => t \in P) => s \in P
    PROVE  \A s \in SUBSET U : s \in P
<1>1. \A s \in SUBSET U : /\ IsFiniteSet(s) /\ Cardinality(s) \in Nat
  BY FS_Subset, FS_CardinalityType
<1>2. ASSUME NEW s \in SUBSET U, NEW t \in SUBSET s, t # s
      PROVE  Cardinality(t) < Cardinality(s)
  <2>1. Cardinality(t) <= Cardinality(s) /\ Cardinality(t) # Cardinality(s)
    BY <1>1, <1>2, FS_Subset
  <2> QED
    BY <1>1, <2>1
<1> DEFINE S == {m \in Nat : \A s \in SUBSET U : Cardinality(s) < m => s \in P}
<1>3. 0 \in S
  BY <1>1
<1>4. ASSUME NEW m \in Nat, m \in S
      PROVE  m + 1 \in S
  <2> SUFFICES ASSUME NEW s \in SUBSET U, Cardinality(s) < m + 1, s # {}
               PROVE  s \in P
    OBVIOUS
  <2>1. \A t \in SUBSET s : t # s => t \in P
    BY <1>1, <1>2, <1>4
  <2> QED
    BY <2>1
<1>5. \A m \in Nat : m \in S
  <2> HIDE DEF S
  <2> QED
    BY <1>3, <1>4, Induction
<1> QED
  <2> TAKE s \in SUBSET U
  <2>1. Cardinality(s) + 1 \in S /\ Cardinality(s) < Cardinality(s) + 1
    BY <1>1, <1>5
  <2> QED
    BY <2>1

(* Sums of integers are integers.                                          *)
LEMMA SumType ==
    ASSUME NEW U, IsFiniteSet(U), NEW f \in [U -> Int], NEW sum, Sums(U, f, sum)
    PROVE  \A s \in SUBSET U : sum[s] \in Int
<1> DEFINE P == {s \in SUBSET U : sum[s] \in Int}
<1>1. {} \in P
  BY DEF Sums
<1>2. ASSUME NEW s \in SUBSET U, s # {}, \A t \in SUBSET s : t # s => t \in P
      PROVE  s \in P
  <2>1. PICK x \in s : x = CHOOSE y \in s : TRUE
    BY <1>2
  <2>2. sum[s] = f[x] + sum[s \ {x}]
    BY <1>2, <2>1 DEF Sums
  <2>3. s \ {x} \in P
    BY <1>2, <2>1
  <2> QED
    BY <2>2, <2>3
<1> HIDE DEF P
<1>3. \A s \in SUBSET U : s \in P
  BY <1>1, <1>2, SubsetInduction
<1> QED
  BY <1>3 DEF P

(* The order does not matter: any element may be taken out first.          *)
LEMMA SumRemove ==
    ASSUME NEW U, IsFiniteSet(U), NEW f \in [U -> Int], NEW sum, Sums(U, f, sum)
    PROVE  \A s \in SUBSET U : \A x \in s : sum[s] = f[x] + sum[s \ {x}]
<1> DEFINE P == {s \in SUBSET U : \A x \in s : sum[s] = f[x] + sum[s \ {x}]}
<1>1. {} \in P
  OBVIOUS
<1>2. ASSUME NEW s \in SUBSET U, s # {}, \A t \in SUBSET s : t # s => t \in P
      PROVE  s \in P
  <2> SUFFICES ASSUME NEW x \in s
               PROVE  sum[s] = f[x] + sum[s \ {x}]
    OBVIOUS
  <2>1. PICK y \in s : y = CHOOSE z \in s : TRUE
    OBVIOUS
  <2>2. sum[s] = f[y] + sum[s \ {y}]
    BY <1>2, <2>1 DEF Sums
  <2>3. CASE x # y
    <3>1. s \ {y} \in P /\ s \ {x} \in P
      BY <1>2
    <3>2. sum[s \ {y}] = f[x] + sum[(s \ {y}) \ {x}]
      BY <2>3, <3>1
    <3>3. sum[s \ {x}] = f[y] + sum[(s \ {x}) \ {y}]
      BY <2>3, <3>1
    <3>4. PICK rest \in SUBSET U : rest = (s \ {x}) \ {y} /\ rest = (s \ {y}) \ {x}
      OBVIOUS
    <3>5. f[x] \in Int /\ f[y] \in Int /\ sum[rest] \in Int
      BY SumType
    <3>6. sum[s] = f[y] + (f[x] + sum[rest]) /\ sum[s \ {x}] = f[y] + sum[rest]
      BY <2>2, <3>2, <3>3, <3>4
    <3>7. f[y] + (f[x] + sum[rest]) = f[x] + (f[y] + sum[rest])
      BY <3>5
    <3> QED
      BY <3>6, <3>7
  <2> QED
    BY <2>2, <2>3
<1> HIDE DEF P
<1>3. \A s \in SUBSET U : s \in P
  BY <1>1, <1>2, SubsetInduction
<1> QED
  BY <1>3 DEF P

(* A sum of weights that are not negative grows with its set.              *)
LEMMA SumGrows ==
    ASSUME NEW U, IsFiniteSet(U), NEW f \in [U -> Nat], NEW sum, Sums(U, f, sum)
    PROVE  \A s \in SUBSET U : \A t \in SUBSET s : 0 <= sum[t] /\ sum[t] <= sum[s]
<1>0. f \in [U -> Int]
  OBVIOUS
<1>0a. \A s \in SUBSET U : sum[s] \in Int
  BY <1>0, SumType
<1>0b. sum[{}] = 0
  BY DEF Sums
<1> DEFINE P == {s \in SUBSET U : \A t \in SUBSET s : 0 <= sum[t] /\ sum[t] <= sum[s]}
<1>1. {} \in P
  BY <1>0b
<1>2. ASSUME NEW s \in SUBSET U, s # {}, \A t \in SUBSET s : t # s => t \in P
      PROVE  s \in P
  <2>1. ASSUME NEW x \in s
        PROVE  0 <= sum[s \ {x}] /\ sum[s \ {x}] <= sum[s]
    <3>1. sum[s] = f[x] + sum[s \ {x}]
      BY <1>0, SumRemove
    <3>2. s \ {x} \in P
      BY <1>2
    <3>3. 0 <= sum[s \ {x}] /\ sum[s \ {x}] \in Int /\ f[x] \in Nat
      BY <1>0a, <3>2
    <3> QED
      BY <3>1, <3>3
  <2>2. 0 <= sum[s]
    <3>1. PICK x \in s : TRUE
      BY <1>2
    <3>2. 0 <= sum[s \ {x}] /\ sum[s \ {x}] <= sum[s]
      BY <2>1
    <3>3. sum[s \ {x}] \in Int /\ sum[s] \in Int
      BY <1>0a
    <3> QED
      BY <3>2, <3>3
  <2>3. ASSUME NEW t \in SUBSET s, t # s
        PROVE  0 <= sum[t] /\ sum[t] <= sum[s]
    <3>1. PICK x \in s : x \notin t
      BY <2>3
    <3>2. s \ {x} \in P /\ t \in SUBSET (s \ {x})
      BY <1>2, <3>1
    <3>3. 0 <= sum[t] /\ sum[t] <= sum[s \ {x}]
      BY <3>2
    <3>4. sum[t] \in Int /\ sum[s \ {x}] \in Int /\ sum[s] \in Int
      BY <1>0a
    <3>5. sum[s \ {x}] <= sum[s]
      BY <2>1
    <3> QED
      BY <3>3, <3>4, <3>5
  <2> QED
    BY <1>0a, <2>2, <2>3
<1> HIDE DEF P
<1>3. \A s \in SUBSET U : s \in P
  BY <1>1, <1>2, SubsetInduction
<1> QED
  BY <1>3 DEF P

(* A sum does not depend on the larger set it is computed in.              *)
LEMMA SumsAgree ==
    ASSUME NEW W, IsFiniteSet(W), NEW U \in SUBSET W, NEW f, NEW g, \A x \in U : f[x] = g[x],
           NEW sum, Sums(U, f, sum), NEW total, Sums(W, g, total)
    PROVE  \A s \in SUBSET U : sum[s] = total[s]
<1> DEFINE P == {s \in SUBSET U : sum[s] = total[s]}
<1>1. {} \in P
  BY DEF Sums
<1>2. ASSUME NEW s \in SUBSET U, s # {}, \A t \in SUBSET s : t # s => t \in P
      PROVE  s \in P
  <2>1. PICK x \in s : x = CHOOSE y \in s : TRUE
    BY <1>2
  <2>2. s \in SUBSET W
    OBVIOUS
  <2>3. sum[s] = f[x] + sum[s \ {x}]
    BY <1>2, <2>1 DEF Sums
  <2>4. total[s] = g[x] + total[s \ {x}]
    BY <1>2, <2>1, <2>2 DEF Sums
  <2>5. s \ {x} \in P
    BY <1>2, <2>1
  <2> QED
    BY <2>3, <2>4, <2>5
<1> HIDE DEF P
<1>3. IsFiniteSet(U)
  BY FS_Subset
<1>4. \A s \in SUBSET U : s \in P
  BY <1>1, <1>2, <1>3, SubsetInduction
<1> QED
  BY <1>4 DEF P
=============================================================================
