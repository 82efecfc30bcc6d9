--------------------------- MODULE ParentsFirst_proofs ---------------------------
(***************************************************************************)
(* Rows are removed by value and placed by place: whatever the table and   *)
(* its links, every row is placed once, after a row it references.         *)
(***************************************************************************)
EXTENDS ParentsFirst, SequenceTheorems, WellFoundedInduction, TLAPS

Increasing(places) ==
  \A i, j \in 1 .. Len(places) : i < j => places[i] < places[j]

(* pending and ready keep the order of the table. *)
InOrder == Increasing(pending) /\ Increasing(ready)

(* Equal rows are ready together, so that the first of them that is pending *)
(* is the one whose turn it is.                                             *)
EqualTogether ==
  \A first \in ToSet(pending), second \in ToSet(ready) :
    table[first] = table[second] => first \in ToSet(ready)

(* What was placed since the round began took no row's turn. *)
StillReady == \A i \in ToSet(ready) : Ready(i)

PlaceInvariant == RowsKept /\ InOrder /\ EqualTogether /\ StillReady

Inv == TypeOK /\ PlaceInvariant

---------------------------------------------------------------------------------
(* Sequences of places.                                                     *)

(* A set of naturals has a least element. *)
LEMMA Least ==
  ASSUME NEW S \in SUBSET Nat, S # {}
  PROVE  \E k \in S : \A j \in S : k <= j
<1> DEFINE Less == {pair \in Nat \X Nat : pair[1] < pair[2]}
<1>1. IsWellFoundedOn(Less, Nat)
  BY NatLessThanWellFounded DEF OpToRel
<1>2. PICK k \in S : \A j \in S : <<j, k>> \notin Less
  <2> HIDE DEF Less
  <2> QED
    BY <1>1, WFMin, Zenon
<1>3. ASSUME NEW j \in S PROVE k <= j
  <2>1. <<j, k>> \notin Less /\ <<j, k>> \in Nat \X Nat
    BY <1>2
  <2> QED
    BY <2>1
<1> QED
  BY <1>3

LEMMA Elements ==
  ASSUME NEW S, NEW seq \in Seq(S)
  PROVE  ToSet(seq) = {seq[i] : i \in 1 .. Len(seq)} /\ ToSet(seq) \subseteq S
<1>1. DOMAIN seq = 1 .. Len(seq)
  BY LenProperties
<1>2. \A i \in 1 .. Len(seq) : seq[i] \in S
  BY ElementOfSeq
<1> QED
  BY <1>1, <1>2 DEF ToSet

(* An increasing sequence repeats nothing. *)
LEMMA IncreasingIsInjective ==
  ASSUME NEW places \in Seq(Nat), Increasing(places)
  PROVE  IsInjective(places)
<1>1. DOMAIN places = 1 .. Len(places) /\ Len(places) \in Nat
  BY LenProperties
<1>2. \A i \in 1 .. Len(places) : places[i] \in Nat
  BY ElementOfSeq
<1>3. ASSUME NEW i \in 1 .. Len(places), NEW j \in 1 .. Len(places), places[i] = places[j]
      PROVE  i = j
  BY <1>1, <1>2, <1>3 DEF Increasing
<1> QED
  BY <1>1, <1>3 DEF IsInjective

(* The place one position after another is removed. *)
LEMMA Removed ==
  ASSUME NEW S, NEW seq \in Seq(S), NEW k \in 1 .. Len(seq)
  PROVE  /\ RemoveAt(seq, k) \in Seq(S)
         /\ Len(RemoveAt(seq, k)) = Len(seq) - 1
         /\ \A i \in 1 .. Len(seq) - 1 :
              RemoveAt(seq, k)[i] = IF i < k THEN seq[i] ELSE seq[i + 1]
<1> DEFINE front == SubSeq(seq, 1, k - 1)
           back == SubSeq(seq, k + 1, Len(seq))
<1>1. Len(seq) \in Nat /\ k \in Nat
  BY LenProperties
<1>2. \A i \in 1 .. Len(seq) : seq[i] \in S
  BY ElementOfSeq
<1>3. /\ front \in Seq(S) /\ Len(front) = k - 1
      /\ \A i \in 1 .. k - 1 : front[i] = seq[i]
  <2>1. k - 1 \in Int /\ \A i \in 1 .. k - 1 : seq[i] \in S
    BY <1>1, <1>2
  <2>2. /\ front \in Seq(S)
        /\ Len(front) = IF 1 <= k - 1 THEN k - 1 - 1 + 1 ELSE 0
        /\ \A i \in 1 .. k - 1 - 1 + 1 : front[i] = seq[1 + i - 1]
    BY <2>1, SubSeqProperties
  <2> QED
    BY <1>1, <2>2
<1>4. /\ back \in Seq(S) /\ Len(back) = Len(seq) - k
      /\ \A i \in 1 .. Len(seq) - k : back[i] = seq[k + i]
  <2>1. k + 1 \in Int /\ Len(seq) \in Int /\ \A i \in k + 1 .. Len(seq) : seq[i] \in S
    BY <1>1, <1>2
  <2>2. /\ back \in Seq(S)
        /\ Len(back) = IF k + 1 <= Len(seq) THEN Len(seq) - (k + 1) + 1 ELSE 0
        /\ \A i \in 1 .. Len(seq) - (k + 1) + 1 : back[i] = seq[k + 1 + i - 1]
    BY <2>1, SubSeqProperties
  <2> QED
    BY <1>1, <2>2
<1>5. /\ front \o back \in Seq(S)
      /\ Len(front \o back) = Len(front) + Len(back)
      /\ \A i \in 1 .. Len(front) + Len(back) :
           (front \o back)[i] = IF i <= Len(front) THEN front[i] ELSE back[i - Len(front)]
  BY <1>3, <1>4, ConcatProperties
<1> HIDE DEF front, back
<1>6. /\ Len(front \o back) = Len(seq) - 1
      /\ \A i \in 1 .. Len(seq) - 1 :
           (front \o back)[i] = IF i < k THEN seq[i] ELSE seq[i + 1]
  BY <1>1, <1>3, <1>4, <1>5
<1>7. RemoveAt(seq, k) = front \o back
  BY DEF RemoveAt, front, back
<1> QED
  BY <1>5, <1>6, <1>7

(* Removing a place of an increasing sequence removes nothing else. *)
LEMMA RemovedFromIncreasing ==
  ASSUME NEW places \in Seq(Nat), Increasing(places), NEW k \in 1 .. Len(places)
  PROVE  /\ Increasing(RemoveAt(places, k))
         /\ ToSet(RemoveAt(places, k)) = ToSet(places) \ {places[k]}
<1> DEFINE rest == RemoveAt(places, k)
<1>1. Len(places) \in Nat /\ \A i \in 1 .. Len(places) : places[i] \in Nat
  BY LenProperties, ElementOfSeq
<1>2. /\ rest \in Seq(Nat) /\ Len(rest) = Len(places) - 1
      /\ \A i \in 1 .. Len(places) - 1 :
           rest[i] = IF i < k THEN places[i] ELSE places[i + 1]
  BY Removed
<1>3. /\ ToSet(rest) = {rest[i] : i \in 1 .. Len(rest)}
      /\ ToSet(places) = {places[i] : i \in 1 .. Len(places)}
  BY <1>2, Elements
<1> HIDE DEF rest
<1>4. Increasing(rest)
  <2>1. ASSUME NEW i \in 1 .. Len(rest), NEW j \in 1 .. Len(rest), i < j
        PROVE  rest[i] < rest[j]
    <3>1. i \in 1 .. Len(places) - 1 /\ j \in 1 .. Len(places) - 1
      BY <1>2
    <3>2. PICK first \in {i, i + 1} : rest[i] = places[first] /\ (first = i <=> i < k)
      BY <1>1, <1>2, <3>1
    <3>3. PICK second \in {j, j + 1} : rest[j] = places[second] /\ (second = j <=> j < k)
      BY <1>1, <1>2, <3>1
    <3>4. first < second /\ first \in 1 .. Len(places) /\ second \in 1 .. Len(places)
      BY <1>1, <2>1, <3>1, <3>2, <3>3
    <3> QED
      BY <3>2, <3>3, <3>4 DEF Increasing
  <2> QED
    BY <2>1 DEF Increasing
<1>5. \A i \in 1 .. Len(places) : places[i] = places[k] => i = k
  BY <1>1 DEF Increasing
<1>6. ASSUME NEW i \in 1 .. Len(rest) PROVE rest[i] \in ToSet(places) \ {places[k]}
  <2>1. CASE i < k
    BY <1>1, <1>2, <1>3, <1>5, <2>1
  <2>2. CASE ~(i < k)
    <3>1. rest[i] = places[i + 1] /\ i + 1 \in 1 .. Len(places) /\ i + 1 # k
      BY <1>1, <1>2, <2>2
    <3> QED
      BY <1>3, <1>5, <3>1
  <2> QED
    BY <2>1, <2>2
<1>7. ASSUME NEW i \in 1 .. Len(places), i # k PROVE places[i] \in ToSet(rest)
  <2>1. CASE i < k
    <3>1. i \in 1 .. Len(rest) /\ rest[i] = places[i]
      BY <1>1, <1>2, <2>1
    <3> QED
      BY <1>3, <3>1
  <2>2. CASE ~(i < k)
    <3>1. i - 1 \in 1 .. Len(rest) /\ rest[i - 1] = places[i]
      BY <1>1, <1>2, <1>7, <2>2
    <3> QED
      BY <1>3, <3>1
  <2> QED
    BY <2>1, <2>2
<1>8. ToSet(rest) = ToSet(places) \ {places[k]}
  BY <1>3, <1>6, <1>7
<1> QED
  BY <1>4, <1>8 DEF rest

(* The first of an increasing sequence is its least, and taken from the rest.*)
LEMMA FirstOfIncreasing ==
  ASSUME NEW places \in Seq(Nat), Increasing(places), places # <<>>
  PROVE  /\ Head(places) = places[1] /\ Head(places) \in ToSet(places)
         /\ \A i \in ToSet(places) : Head(places) <= i
         /\ Increasing(Tail(places))
         /\ ToSet(Tail(places)) = ToSet(places) \ {Head(places)}
<1>1. /\ Len(places) \in Nat \ {0}
      /\ \A i \in 1 .. Len(places) : places[i] \in Nat
  BY EmptySeq, ElementOfSeq
<1>2. Head(places) = places[1]
  OBVIOUS
<1>3. /\ Tail(places) \in Seq(Nat) /\ Len(Tail(places)) = Len(places) - 1
      /\ \A i \in 1 .. Len(Tail(places)) : Tail(places)[i] = places[i + 1]
  BY HeadTailProperties
<1>4. /\ ToSet(Tail(places)) = {Tail(places)[i] : i \in 1 .. Len(Tail(places))}
      /\ ToSet(places) = {places[i] : i \in 1 .. Len(places)}
  BY <1>3, Elements
<1>5. \A i \in 2 .. Len(places) : places[1] < places[i]
  BY <1>1 DEF Increasing
<1>6. Increasing(Tail(places))
  BY <1>1, <1>3 DEF Increasing
<1>7. ASSUME NEW i \in 1 .. Len(Tail(places))
      PROVE  Tail(places)[i] \in ToSet(places) \ {places[1]}
  <2>1. Tail(places)[i] = places[i + 1] /\ i + 1 \in 2 .. Len(places)
    BY <1>1, <1>3
  <2> QED
    BY <1>1, <1>4, <1>5, <2>1
<1>8. ASSUME NEW i \in 1 .. Len(places), i # 1 PROVE places[i] \in ToSet(Tail(places))
  <2>1. i - 1 \in 1 .. Len(Tail(places)) /\ Tail(places)[i - 1] = places[i]
    BY <1>1, <1>3, <1>8
  <2> QED
    BY <1>4, <2>1
<1>9. ToSet(Tail(places)) = ToSet(places) \ {places[1]}
  BY <1>4, <1>7, <1>8
<1>10. \A i \in ToSet(places) : places[1] <= i
  BY <1>1, <1>4, <1>5
<1>11. places[1] \in ToSet(places)
  BY <1>1, <1>4
<1> QED
  BY <1>2, <1>6, <1>9, <1>10, <1>11

---------------------------------------------------------------------------------
(* The invariant.                                                           *)

(* Places are natural numbers. *)
LEMMA PlacesAreNaturals ==
  ASSUME TypeOK
  PROVE  /\ pending \in Seq(Nat) /\ ready \in Seq(Nat) /\ order \in Seq(Nat)
         /\ Len(table) \in Nat
<1>1. Len(table) \in Nat
  BY LenProperties DEF TypeOK
<1>2. 1 .. Len(table) \subseteq Nat
  BY <1>1
<1> QED
  BY <1>1, <1>2, SeqMonotonic DEF TypeOK

LEMMA InvInit == Init => Inv
<1> SUFFICES ASSUME Init PROVE Inv
  OBVIOUS
<1>1. table \in Seq(Rows) /\ Len(table) \in Nat
  BY TablesAssumption, LenProperties DEF Init
<1>2. /\ pending = [i \in 1 .. Len(table) |-> i]
      /\ ready = <<>> /\ order = <<>> /\ placed = {} /\ outcome = "working"
  BY DEF Init
<1>3. pending \in Seq(1 .. Len(table))
  <2>1. pending \in [1 .. Len(table) -> 1 .. Len(table)]
    BY <1>2
  <2> QED
    BY <1>1, <2>1, SeqDef
<1>4. Len(pending) = Len(table) /\ \A i \in 1 .. Len(table) : pending[i] = i
  <2>1. DOMAIN pending = 1 .. Len(pending) /\ Len(pending) \in Nat
    BY <1>3, LenProperties
  <2> QED
    BY <1>1, <1>2, <2>1
<1>5. TypeOK
  <2>1. ready \in Seq(1 .. Len(table)) /\ order \in Seq(1 .. Len(table))
    BY <1>2, EmptySeq
  <2> QED
    BY <1>1, <1>2, <1>3, <2>1 DEF TypeOK
<1>6. ToSet(pending) = 1 .. Len(table)
  <2>1. ToSet(pending) = {pending[i] : i \in 1 .. Len(table)}
    BY <1>3, <1>4, Elements
  <2> QED
    BY <1>4, <2>1
<1>7. Len(ready) = 0 /\ ToSet(ready) = {} /\ ToSet(order) = {}
  BY <1>2 DEF ToSet
<1>8. Increasing(pending) /\ Increasing(ready)
  BY <1>1, <1>4, <1>7 DEF Increasing
<1>9. IsInjective(order) /\ IsInjective(pending) /\ IsInjective(ready)
  <2>1. IsInjective(order)
    BY <1>2 DEF IsInjective
  <2> QED
    BY <1>5, <1>8, <2>1, PlacesAreNaturals, IncreasingIsInjective
<1> QED
  BY <1>2, <1>5, <1>6, <1>7, <1>8, <1>9
  DEF Inv, PlaceInvariant, RowsKept, InOrder, EqualTogether, StillReady

(* A list comprehension over the pending rows keeps those that are ready. *)
LEMMA RoundKeeps ==
  ASSUME Inv, Round
  PROVE  /\ Inv'
         /\ ToSet(ready') = {i \in ToSet(pending) : Ready(i)}
<1>1. /\ UNCHANGED <<table, pending, placed, order>>
      /\ outcome' \in {outcome, "refused"}
  BY DEF Round
<1>2. /\ Len(pending) \in Nat
      /\ \A k \in 1 .. Len(pending) : pending[k] \in 1 .. Len(table) /\ pending[k] \in Nat
      /\ ToSet(pending) = {pending[k] : k \in 1 .. Len(pending)}
      /\ Increasing(pending)
  <2>1. \A k \in 1 .. Len(pending) : pending[k] \in 1 .. Len(table) /\ pending[k] \in Nat
    BY ElementOfSeq, PlacesAreNaturals DEF Inv, TypeOK
  <2> QED
    BY <2>1, LenProperties, Elements DEF Inv, TypeOK, PlaceInvariant, InOrder
<1>3. PICK n \in 0 .. Len(pending) : \E at \in [1 .. n -> 1 .. Len(pending)] :
        /\ \A i, j \in 1 .. n : i < j => at[i] < at[j]
        /\ ToSet(at) = {k \in 1 .. Len(pending) : Ready(pending[k])}
        /\ ready' = [i \in 1 .. n |-> pending[at[i]]]
  BY DEF Round
<1>4. PICK at \in [1 .. n -> 1 .. Len(pending)] :
        /\ \A i, j \in 1 .. n : i < j => at[i] < at[j]
        /\ ToSet(at) = {k \in 1 .. Len(pending) : Ready(pending[k])}
        /\ ready' = [i \in 1 .. n |-> pending[at[i]]]
  BY <1>3
<1>5. n \in Nat /\ \A i \in 1 .. n : at[i] \in 1 .. Len(pending) /\ ready'[i] = pending[at[i]]
  BY <1>2, <1>3, <1>4
<1>6. ready' \in Seq(1 .. Len(table)) /\ ready' \in Seq(Nat)
  <2>1. ready' \in [1 .. n -> 1 .. Len(table)] /\ ready' \in [1 .. n -> Nat]
    BY <1>2, <1>4, <1>5
  <2> QED
    BY <1>5, <2>1, SeqDef
<1>7. Len(ready') = n
  <2>1. 1 .. Len(ready') = 1 .. n /\ Len(ready') \in Nat
    <3>1. DOMAIN ready' = 1 .. Len(ready') /\ Len(ready') \in Nat
      BY Zenon, <1>6, LenProperties
    <3>2. DOMAIN ready' = 1 .. n
      BY <1>4
    <3> QED
      BY <3>1, <3>2
  <2> QED
    BY <1>5, <2>1
<1>8. ToSet(ready') = {ready'[i] : i \in 1 .. n}
  BY <1>6, <1>7, Elements
<1>9. ToSet(at) = {at[i] : i \in 1 .. n}
  BY <1>4 DEF ToSet
<1>10. ToSet(ready') = {i \in ToSet(pending) : Ready(i)}
  <2>1. ASSUME NEW i \in 1 .. n PROVE ready'[i] \in ToSet(pending) /\ Ready(ready'[i])
    <3>1. at[i] \in {k \in 1 .. Len(pending) : Ready(pending[k])}
      BY <1>4, <1>9
    <3> QED
      BY <1>2, <1>5, <3>1
  <2>2. ASSUME NEW k \in 1 .. Len(pending), Ready(pending[k]) PROVE pending[k] \in ToSet(ready')
    <3>1. PICK i \in 1 .. n : at[i] = k
      BY <1>4, <1>9, <2>2
    <3> QED
      BY <1>5, <1>8, <3>1
  <2> QED
    BY <1>2, <1>8, <2>1, <2>2
<1>11. Increasing(ready')
  BY <1>2, <1>4, <1>5, <1>7 DEF Increasing
<1>12. IsInjective(ready')
  BY <1>6, <1>11, IncreasingIsInjective
<1>13. \A i : Ready(i)' <=> Ready(i)
  BY <1>1 DEF Ready, Resolved
<1>14. EqualTogether'
  <2>1. \A first, second : table[first] = table[second] => (Ready(first) <=> Ready(second))
    BY DEF Ready
  <2> QED
    BY <1>1, <1>10, <2>1 DEF EqualTogether
<1>15. StillReady'
  BY <1>10, <1>13 DEF StillReady
<1>16. TypeOK'
  BY <1>1, <1>6 DEF Inv, TypeOK
<1>17. RowsKept'
  BY <1>1, <1>10, <1>12 DEF Inv, PlaceInvariant, RowsKept
<1>18. InOrder'
  BY <1>1, <1>2, <1>11 DEF InOrder
<1> QED
  BY <1>10, <1>14, <1>15, <1>16, <1>17, <1>18 DEF Inv, PlaceInvariant

(* list.remove: of equal rows, it removes the one whose turn it is. *)
LEMMA RemovesItsOwn ==
  ASSUME Inv, ready # <<>>
  PROVE  \E k \in 1 .. Len(pending) :
           /\ pending[k] = Head(ready)
           /\ Without(pending, table[Head(ready)]) = RemoveAt(pending, k)
<1> DEFINE turn == Head(ready)
           row == table[turn]
           equal == {k \in 1 .. Len(pending) : table[pending[k]] = row}
           first == CHOOSE k \in 1 .. Len(pending) :
                      table[pending[k]] = row /\ \A j \in 1 .. k - 1 : table[pending[j]] # row
<1>1. /\ ready \in Seq(Nat) /\ Increasing(ready)
      /\ pending \in Seq(Nat) /\ Increasing(pending)
      /\ \A k \in 1 .. Len(pending) : pending[k] \in Nat
      /\ ToSet(pending) = {pending[k] : k \in 1 .. Len(pending)}
      /\ ToSet(ready) \subseteq ToSet(pending)
  BY PlacesAreNaturals, ElementOfSeq, Elements DEF Inv, PlaceInvariant, InOrder, RowsKept
<1>2. turn \in ToSet(ready) /\ \A i \in ToSet(ready) : turn <= i
  BY <1>1, FirstOfIncreasing
<1>3. PICK own \in 1 .. Len(pending) : pending[own] = turn
  BY <1>1, <1>2
<1>4. equal \in SUBSET Nat /\ own \in equal
  BY <1>3
<1>5. PICK least \in equal : \A k \in equal : least <= k
  BY <1>4, Least
<1>6. \A j \in 1 .. least - 1 : table[pending[j]] # row
  <2>1. least \in Nat /\ least \in 1 .. Len(pending) /\ Len(pending) \in Nat
    BY <1>1, LenProperties
  <2>2. ASSUME NEW j \in 1 .. least - 1, table[pending[j]] = row PROVE FALSE
    <3>1. j \in equal /\ j < least
      BY <2>1, <2>2
    <3> QED
      BY <1>5, <2>1, <3>1
  <2> QED
    BY <2>2
<1>7. /\ first \in 1 .. Len(pending) /\ table[pending[first]] = row
      /\ \A j \in 1 .. first - 1 : table[pending[j]] # row
  <2>1. \E k \in 1 .. Len(pending) :
          table[pending[k]] = row /\ \A j \in 1 .. k - 1 : table[pending[j]] # row
    BY <1>6
  <2> HIDE DEF turn, row, equal
  <2> QED
    BY <2>1
<1> HIDE DEF first
<1>8. pending[first] \in ToSet(ready)
  BY <1>1, <1>2, <1>7 DEF Inv, PlaceInvariant, EqualTogether
<1>9. first <= own
  <2>1. first \in Nat /\ own \in Nat
    BY <1>3, <1>7
  <2>2. ~(own \in 1 .. first - 1)
    BY <1>3, <1>7
  <2> QED
    BY <1>3, <2>1, <2>2
<1>10. pending[first] <= turn
  <2>1. first \in 1 .. Len(pending) /\ own \in 1 .. Len(pending) /\ Len(pending) \in Nat
    BY <1>1, <1>3, <1>7, LenProperties
  <2>2. first < own => pending[first] < pending[own]
    BY <1>1, <2>1 DEF Increasing
  <2> QED
    BY <1>1, <1>3, <1>9, <2>1, <2>2
<1>11. pending[first] = turn
  <2>1. turn <= pending[first] /\ pending[first] \in Nat /\ turn \in Nat
    BY <1>1, <1>2, <1>3, <1>7, <1>8
  <2> QED
    BY <1>10, <2>1
<1> QED
  BY <1>7, <1>11 DEF Without, first

LEMMA PlaceKeeps ==
  ASSUME Inv, Place
  PROVE  /\ Inv'
         /\ Head(ready) \in ToSet(pending) /\ Ready(Head(ready))
<1> DEFINE turn == Head(ready)
<1>1. /\ ready # <<>> /\ UNCHANGED <<table, outcome>>
      /\ pending' = Without(pending, table[turn])
      /\ placed' = placed \cup {<<TargetOf[link], Key(table[turn], TargetOf[link])>> : link \in Links}
      /\ order' = Append(order, turn) /\ ready' = Tail(ready)
  BY DEF Place
<1>2. PICK k \in 1 .. Len(pending) : pending[k] = turn /\ pending' = RemoveAt(pending, k)
  BY <1>1, RemovesItsOwn
<1>3. /\ pending \in Seq(Nat) /\ ready \in Seq(Nat) /\ order \in Seq(Nat)
      /\ Increasing(pending) /\ Increasing(ready)
  BY PlacesAreNaturals DEF Inv, PlaceInvariant, InOrder
<1>4. Increasing(pending') /\ ToSet(pending') = ToSet(pending) \ {turn}
  BY <1>2, <1>3, RemovedFromIncreasing
<1>5. /\ turn \in ToSet(ready)
      /\ Increasing(ready') /\ ToSet(ready') = ToSet(ready) \ {turn}
  BY <1>1, <1>3, FirstOfIncreasing
<1>6. /\ turn \in ToSet(pending) /\ turn \in 1 .. Len(table) /\ turn \notin ToSet(order)
      /\ Ready(turn)
  BY <1>5 DEF Inv, PlaceInvariant, RowsKept, StillReady
<1>7. TypeOK'
  <2>1. pending' \in Seq(1 .. Len(table))
    BY <1>2, Removed DEF Inv, TypeOK
  <2>2. order' \in Seq(1 .. Len(table))
    BY <1>1, <1>6, AppendProperties DEF Inv, TypeOK
  <2>3. ready' \in Seq(1 .. Len(table))
    BY <1>1, HeadTailProperties DEF Inv, TypeOK
  <2> QED
    BY <1>1, <2>1, <2>2, <2>3 DEF Inv, TypeOK
<1>8. ToSet(order') = ToSet(order) \cup {turn} /\ IsInjective(order')
  <2>1. /\ Len(order) \in Nat /\ Len(order') = Len(order) + 1
        /\ \A i \in 1 .. Len(order) : order'[i] = order[i]
        /\ order'[Len(order) + 1] = turn
    BY <1>1, <1>6, AppendProperties, LenProperties DEF Inv, TypeOK
  <2>2. /\ ToSet(order) = {order[i] : i \in 1 .. Len(order)}
        /\ ToSet(order') = {order'[i] : i \in 1 .. Len(order')}
    BY <1>7, Elements DEF Inv, TypeOK
  <2>3. DOMAIN order' = 1 .. Len(order) + 1 /\ DOMAIN order = 1 .. Len(order)
    BY <1>7, <2>1, LenProperties DEF Inv, TypeOK
  <2>4. ToSet(order') = ToSet(order) \cup {turn}
    <3>1. 1 .. Len(order') = 1 .. Len(order) \cup {Len(order) + 1}
      BY <2>1
    <3> QED
      BY <2>1, <2>2, <3>1
  <2>5. ASSUME NEW i \in 1 .. Len(order) + 1, NEW j \in 1 .. Len(order) + 1,
               order'[i] = order'[j]
        PROVE  i = j
    <3>1. \A m \in 1 .. Len(order) : order'[m] = order[m] /\ order[m] # turn
      BY <1>6, <2>1, <2>2
    <3>2. CASE i \in 1 .. Len(order) /\ j \in 1 .. Len(order)
      BY <2>1, <2>3, <2>5, <3>2 DEF Inv, PlaceInvariant, RowsKept, IsInjective
    <3>3. CASE ~(i \in 1 .. Len(order) /\ j \in 1 .. Len(order))
      BY <2>1, <2>5, <3>1, <3>3
    <3> QED
      BY <3>2, <3>3
  <2> QED
    BY <2>3, <2>4, <2>5 DEF IsInjective
<1>9. RowsKept'
  <2>1. IsInjective(pending') /\ IsInjective(ready')
    <3>1. pending' \in Seq(Nat) /\ ready' \in Seq(Nat)
      <4>1. 1 .. Len(table') \subseteq Nat
        BY <1>7, LenProperties DEF TypeOK
      <4> QED
        BY <1>7, <4>1, SeqMonotonic DEF TypeOK
    <3> QED
      BY <1>4, <1>5, <3>1, IncreasingIsInjective
  <2>2. placed' = {<<TargetOf[link], Key(table[i], TargetOf[link])>> :
                     link \in Links, i \in ToSet(order')}
    BY <1>1, <1>8 DEF Inv, PlaceInvariant, RowsKept
  <2>3. /\ ToSet(order') \cup ToSet(pending') = 1 .. Len(table)
        /\ ToSet(order') \cap ToSet(pending') = {}
        /\ ToSet(ready') \subseteq ToSet(pending')
    BY <1>4, <1>5, <1>6, <1>8 DEF Inv, PlaceInvariant, RowsKept
  <2> QED
    BY <1>1, <1>8, <2>1, <2>2, <2>3 DEF RowsKept
<1>10. EqualTogether'
  BY <1>1, <1>4, <1>5 DEF Inv, PlaceInvariant, EqualTogether
<1>11. StillReady'
  BY <1>1, <1>5 DEF Inv, PlaceInvariant, StillReady, Ready, Resolved
<1> QED
  BY <1>4, <1>5, <1>6, <1>7, <1>9, <1>10, <1>11 DEF Inv, PlaceInvariant, InOrder

LEMMA InvStep == Inv /\ [Next]_vars => Inv'
<1> SUFFICES ASSUME Inv, [Next]_vars PROVE Inv'
  OBVIOUS
<1> USE DEF Inv, TypeOK, PlaceInvariant, RowsKept, InOrder, Increasing, EqualTogether,
            StillReady, Ready, Resolved
<1>1. CASE Return
  BY <1>1 DEF Return
<1>2. CASE UNCHANGED vars
  BY <1>2 DEF vars
<1> QED
  BY <1>1, <1>2, RoundKeeps, PlaceKeeps DEF Next, Terminated

(* Places, lists and the outcome keep their types, for every table. *)
THEOREM TypeCorrect == Spec => []TypeOK
<1>1. Inv => TypeOK
  BY DEF Inv
<1> QED
  BY <1>1, InvInit, InvStep, PTL DEF Spec

(* No row is lost or repeated, however many equal rows the table has: the   *)
(* removal by value takes the row whose turn it is, since equal rows are    *)
(* ready in the same round and stand in the order of the table.             *)
THEOREM RemovalKeepsRows == Spec => []RowsKept
<1>1. Inv => RowsKept
  BY DEF Inv, PlaceInvariant
<1> QED
  BY <1>1, InvInit, InvStep, PTL DEF Spec

---------------------------------------------------------------------------------
(* The refinement of ReferencesFirst.                                       *)

LEMMA SameElements == Order!ToSet(order) = ToSet(order)
BY DEF Order!ToSet, ToSet

(* A link is resolved by the row itself or by a row placed before. *)
LEMMA ReadyIsFit ==
  ASSUME Inv, NEW i
  PROVE  Ready(i) <=> After(table, ToSet(order), i)
<1>1. ASSUME NEW link \in Links
      PROVE  <<TargetOf[link], Ref(table[i], link)>> \in placed
             <=> \E j \in ToSet(order) : Key(table[j], TargetOf[link]) = Ref(table[i], link)
  BY DEF Inv, PlaceInvariant, RowsKept
<1> QED
  BY <1>1 DEF Ready, Resolved, After

LEMMA PlaceRefines ==
  ASSUME Inv, Place
  PROVE  Order!Place
<1>1. /\ outcome = "working" /\ order' = Append(order, Head(ready))
      /\ UNCHANGED <<table, outcome>>
  BY DEF Place, Working
<1>2. Head(ready) \in Places(table) \ ToSet(order)
  BY PlaceKeeps DEF Inv, PlaceInvariant, RowsKept, Places
<1>3. After(table, ToSet(order), Head(ready))
  BY PlaceKeeps, ReadyIsFit
<1> QED
  BY <1>1, <1>2, <1>3, SameElements DEF Order!Place

LEMMA ReturnRefines ==
  ASSUME Inv, Return
  PROVE  Order!Finish
<1>1. /\ outcome = "working" /\ pending = <<>> /\ outcome' = "ordered"
      /\ UNCHANGED <<table, order>>
  BY DEF Return, Working
<1>2. ToSet(pending) = {}
  BY <1>1 DEF ToSet
<1>3. ToSet(order) = Places(table)
  BY <1>2 DEF Inv, PlaceInvariant, RowsKept, Places
<1> QED
  BY <1>1, <1>3, SameElements DEF Order!Finish

(* When no row is ready, the pending rows wait for each other or for a row   *)
(* that is not there.                                                       *)
LEMMA RoundRefines ==
  ASSUME Inv, Round
  PROVE  UNCHANGED <<table, order, outcome>> \/ Order!Refuse
<1>1. /\ outcome = "working" /\ pending # <<>> /\ UNCHANGED <<table, order>>
      /\ outcome' = IF ready' = <<>> THEN "refused" ELSE outcome
  BY DEF Round, Working
<1>2. CASE ready' = <<>>
  <2>1. \A i \in ToSet(pending) : ~Ready(i)
    <3>1. ToSet(ready') = {}
      BY <1>2 DEF ToSet
    <3> QED
      BY <3>1, RoundKeeps
  <2>2. /\ ToSet(pending) \in (SUBSET Places(table)) \ {{}}
        /\ Places(table) \ ToSet(pending) = ToSet(order)
    <3>1. Len(pending) \in Nat \ {0} /\ ToSet(pending) = {pending[k] : k \in 1 .. Len(pending)}
      BY <1>1, EmptySeq, Elements DEF Inv, TypeOK
    <3>2. pending[1] \in ToSet(pending)
      BY <3>1
    <3> QED
      BY <3>2 DEF Inv, PlaceInvariant, RowsKept, Places
  <2>3. \A i \in ToSet(pending) : ~After(table, Places(table) \ ToSet(pending), i)
    BY <2>1, <2>2, ReadyIsFit
  <2>4. Order!Stuck
    BY <2>2, <2>3 DEF Order!Stuck
  <2> QED
    BY <1>1, <1>2, <2>4 DEF Order!Refuse
<1>3. CASE ready' # <<>>
  BY <1>1, <1>3
<1> QED
  BY <1>2, <1>3

(* _parents_first keeps the promise of ReferencesFirst for every table and   *)
(* all its links: a row placed is a step of it, a round without ready rows  *)
(* is a refusal of rows that really wait for each other, any other round is *)
(* a stutter.                                                               *)
THEOREM OrdersEveryTable == Spec => OrdersReferencesFirst
<1>1. Init => Order!Init
  BY DEF Init, Order!Init
<1>2. Inv /\ [Next]_vars => [Order!Next]_<<table, order, outcome>>
  <2> SUFFICES ASSUME Inv, [Next]_vars
               PROVE  [Order!Next]_<<table, order, outcome>>
    OBVIOUS
  <2>1. CASE UNCHANGED vars
    BY <2>1 DEF vars
  <2> QED
    BY <2>1, PlaceRefines, ReturnRefines, RoundRefines DEF Next, Terminated, Order!Next
<1> QED
  BY <1>1, <1>2, InvInit, InvStep, PTL
  DEF Spec, OrdersReferencesFirst, Order!Spec, Order!orderVars

=================================================================================
