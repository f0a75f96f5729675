--------------------------- MODULE StringSetProofs ---------------------------
(* Proofs about StringSet, for any strings and slices of any length: Init's   *)
(* bound MaxLen is any natural number.                                        *)
EXTENDS StringSet, FiniteSetTheorems, TLAPS

(* Where the scan stands: what it has passed in self was found, and what it   *)
(* has passed in other lies before what it looks for.                         *)
Scanned ==
    /\ \A k \in 1 .. Len(self) : k < i => self[k] \in Contents(other)
    /\ i <= Len(self) => \A l \in 1 .. Len(other) : l < j => other[l] < self[i]

Inputs == Sorted(self) /\ Distinct(self) /\ Sorted(other)

IInv ==
    /\ TypeOK
    /\ Inputs
    /\ Scanned
    /\ NoIsRight
    /\ result = "yes" => i > Len(self) \/ j > Len(other)

(* The strings of a slice are numbers.                                        *)
LEMMA Indexed ==
    ASSUME NEW s \in Seq(Values)
    PROVE  Len(s) \in Nat /\ \A k \in 1 .. Len(s) : s[k] \in Int
  <1>1. Len(s) \in Nat /\ \A k \in 1 .. Len(s) : s[k] \in Values
    OBVIOUS
  <1>2. QED BY <1>1, StringSetAssumption

(* A slice without repetitions has no room in a shorter one.                  *)
LEMMA TooLong ==
    ASSUME NEW a \in Seq(Values), NEW b \in Seq(Values), Distinct(a), Len(a) > Len(b)
    PROVE  ~(Contents(a) \subseteq Contents(b))
  <1> SUFFICES ASSUME Contents(a) \subseteq Contents(b) PROVE FALSE
    OBVIOUS
  <1> DEFINE at == [k \in 1 .. Len(a) |-> CHOOSE l \in 1 .. Len(b) : b[l] = a[k]]
  <1>1. \A k \in 1 .. Len(a) : at[k] \in 1 .. Len(b) /\ b[at[k]] = a[k]
    BY DEF Contents
  <1>2. at \in [1 .. Len(a) -> 1 .. Len(b)]
    BY <1>1
  <1>3. /\ IsFiniteSet(1 .. Len(a)) /\ Cardinality(1 .. Len(a)) = Len(a)
        /\ IsFiniteSet(1 .. Len(b)) /\ Cardinality(1 .. Len(b)) = Len(b)
    <2>1. Len(a) \in Nat /\ Len(b) \in Nat
      BY Indexed
    <2>2. ASSUME NEW n \in Nat PROVE IsFiniteSet(1 .. n) /\ Cardinality(1 .. n) = n
      <3>1. 1 \in Int /\ n \in Int
        OBVIOUS
      <3>2. IsFiniteSet(1 .. n) /\ Cardinality(1 .. n) = IF 1 > n THEN 0 ELSE n - 1 + 1
        BY <3>1, FS_Interval, Zenon
      <3>3. QED BY <3>2
    <2>3. QED BY <2>1, <2>2
  <1>4. Cardinality(1 .. Len(b)) < Cardinality(1 .. Len(a))
    <2>1. Len(a) \in Nat /\ Len(b) \in Nat
      BY Indexed
    <2>2. QED BY <1>3, <2>1
  <1> HIDE DEF at
  <1>5. \E k, l \in 1 .. Len(a) : k # l /\ at[k] = at[l]
    BY <1>2, <1>3, <1>4, FS_PigeonHole, Zenon
  <1>6. QED BY <1>1, <1>5 DEF Distinct

(* The loop starts with nothing passed.                                       *)
LEMMA InitInv == Init => IInv
  <1> SUFFICES ASSUME Init PROVE IInv
    OBVIOUS
  <1>1. self \in Seq(Values) /\ other \in Seq(Values)
    BY StringSetAssumption DEF Init, Slices
  <1>2. TypeOK
    BY <1>1 DEF Init, TypeOK, FirstLook
  <1>3. Inputs
    BY DEF Init, Inputs
  <1>4. Scanned
    BY <1>1 DEF Init, Scanned
  <1>5. NoIsRight
    BY <1>1, <1>3, TooLong DEF Init, FirstLook, NoIsRight, Inputs
  <1>6. QED BY <1>2, <1>3, <1>4, <1>5 DEF IInv, Init, FirstLook

(* Every step of the loop keeps it.                                           *)
LEMMA NextInv == IInv /\ [Next]_vars => IInv'
  <1> SUFFICES ASSUME IInv, [Next]_vars PROVE IInv'
    OBVIOUS
  <1> USE StringSetAssumption
  <1>1. /\ TypeOK /\ Inputs /\ Scanned
        /\ \A k \in 1 .. Len(self) : self[k] \in Int
        /\ \A k \in 1 .. Len(other) : other[k] \in Int
        /\ Len(self) \in Nat /\ Len(other) \in Nat /\ i \in Nat \ {0} /\ j \in Nat \ {0}
    BY Indexed DEF IInv, TypeOK
  <1>2. CASE Skip
    <2>1. TypeOK'
      BY <1>1, <1>2 DEF TypeOK, Skip, InLoop
    <2>2. Scanned'
      BY <1>1, <1>2 DEF Scanned, Skip, InLoop, Contents
    <2>3. QED BY <1>2, <2>1, <2>2 DEF IInv, Inputs, NoIsRight, Skip, InLoop, Sorted, Distinct, Contents
  <1>3. CASE Miss
    <2>1. self[i] \in Contents(self)
      BY <1>1, <1>3 DEF Miss, InLoop, Contents
    <2>2. ASSUME NEW l \in 1 .. Len(other) PROVE other[l] # self[i]
      <3>1. CASE l < j
        BY <1>1, <1>3, <3>1 DEF Scanned, Miss, InLoop
      <3>2. CASE ~(l < j)
        <4>1. other[j] <= other[l]
          BY <1>1, <1>3, <3>2 DEF Inputs, Sorted, Miss, InLoop
        <4>2. /\ self[i] < other[j]
              /\ self[i] \in Int /\ other[j] \in Int /\ other[l] \in Int
          BY <1>1, <1>3 DEF Miss, InLoop
        <4>3. QED BY <4>1, <4>2
      <3>3. QED BY <3>1, <3>2
    <2>3. self[i] \notin Contents(other)
      BY <2>2 DEF Contents
    <2>4. NoIsRight'
      BY <1>3, <2>1, <2>3 DEF NoIsRight, Miss, Contents
    <2>5. TypeOK' /\ Inputs' /\ Scanned'
      BY <1>1, <1>3 DEF TypeOK, Inputs, Scanned, Miss, Sorted, Distinct, Contents
    <2>6. QED BY <1>3, <2>4, <2>5 DEF IInv, Miss
  <1>4. CASE Match
    <2>1. TypeOK'
      BY <1>1, <1>4 DEF TypeOK, Match, InLoop
    <2>2. ASSUME NEW k \in 1 .. Len(self), k < i' PROVE self[k] \in Contents(other)
      <3>1. k < i \/ k = i
        BY <1>1, <1>4, <2>2 DEF Match
      <3>2. CASE k < i
        BY <1>1, <3>2 DEF Scanned
      <3>3. CASE k = i
        <4>1. self[k] = other[j]
          BY <1>4, <3>3 DEF Match
        <4>2. j \in 1 .. Len(other)
          BY <1>1, <1>4 DEF Match, InLoop
        <4>3. QED BY <4>1, <4>2 DEF Contents
      <3>4. QED BY <3>1, <3>2, <3>3
    <2>3. ASSUME i' <= Len(self), NEW l \in 1 .. Len(other), l < j' PROVE other[l] < self[i']
      <3>1. self[i] < self[i']
        <4>1. self[i] <= self[i'] /\ self[i] # self[i']
          BY <1>1, <1>4, <2>3 DEF Inputs, Sorted, Distinct, Match, InLoop
        <4>2. QED BY <1>1, <1>4, <2>3, <4>1 DEF Match
      <3>2. other[l] <= self[i]
        BY <1>1, <1>4, <2>3 DEF Scanned, Match, InLoop
      <3>3. QED BY <1>1, <1>4, <2>3, <3>1, <3>2 DEF Match, InLoop
    <2>4. Scanned'
      BY <1>4, <2>2, <2>3 DEF Scanned, Match, Contents
    <2>5. QED BY <1>4, <2>1, <2>4 DEF IInv, Inputs, NoIsRight, Match, InLoop, Sorted, Distinct, Contents
  <1>5. CASE Return
    BY <1>1, <1>5 DEF IInv, TypeOK, Inputs, Scanned, NoIsRight, Return, InLoop, Sorted, Distinct, Contents
  <1>6. CASE UNCHANGED vars
    BY <1>6 DEF IInv, TypeOK, Inputs, Scanned, NoIsRight, vars, Sorted, Distinct, Contents
  <1>7. QED BY <1>2, <1>3, <1>4, <1>5, <1>6 DEF Next

(* The scan never indexes a slice beyond its end.                             *)
THEOREM TypeCorrect == Spec => []TypeOK
  BY InitInv, NextInv, PTL DEF Spec, IInv

(* Subset never says no to a slice whose strings are all in the other.        *)
THEOREM NoIsNeverWrong == Spec => []NoIsRight
  <1>1. IInv => NoIsRight
    BY DEF IInv
  <1>2. QED BY InitInv, NextInv, <1>1, PTL DEF Spec

(* Subset says yes to a slice that is not a subset only because of strings    *)
(* that lie beyond everything in the other.                                   *)
THEOREM YesUpToTheLast == Spec => []YesUpToLast
  <1>1. IInv => YesUpToLast
    <2> SUFFICES ASSUME IInv, result = "yes", NEW k \in 1 .. Len(self),
                        self[k] \notin Contents(other), NEW l \in 1 .. Len(other)
                 PROVE  other[l] < self[k]
      BY DEF YesUpToLast, Contents
    <2>1. /\ self[k] \in Int /\ other[l] \in Int /\ Len(self) \in Nat /\ Len(other) \in Nat
          /\ i \in Nat /\ j \in Nat /\ (i <= Len(self) => i \in 1 .. Len(self) /\ self[i] \in Int)
      BY Indexed DEF IInv, TypeOK
    <2>2. ~(k < i)
      BY DEF IInv, Scanned
    <2>3. i <= Len(self) /\ j > Len(other)
      BY <2>1, <2>2 DEF IInv
    <2>4. other[l] < self[i]
      BY <2>1, <2>3 DEF IInv, Scanned
    <2>5. self[i] <= self[k]
      BY <2>1, <2>2, <2>3 DEF IInv, Inputs, Sorted
    <2>6. QED BY <2>1, <2>3, <2>4, <2>5
  <1>2. QED BY InitInv, NextInv, <1>1, PTL DEF Spec

=============================================================================
