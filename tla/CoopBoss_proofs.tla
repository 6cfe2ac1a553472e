--------------------------- MODULE CoopBoss_proofs ---------------------------
(* The co-op Boss for any crew, health, draws and periods: the books of    *)
(* the shared health, the limit of the shower, and what the shield and the *)
(* cannon block.                                                           *)
EXTENDS CoopBoss, FiniteInduction

LEMMA CrewFacts ==
  /\ Len(Crew) \in Nat /\ IsFiniteSet(Members)
  /\ \A i \in 1..Len(Crew) : Crew[i] \in Members /\ Place(Crew[i]) = i
  /\ \A p \in Members : Place(p) \in 1..Len(Crew) /\ Crew[Place(p)] = p
<1>1. Crew \in Seq(Members) /\ Len(Crew) \in Nat
  BY CrewAssumption
<1>2. IsFiniteSet(1..Len(Crew))
  BY <1>1, FS_Interval
<1>3. IsFiniteSet(Members)
  <2>1. Crew \in [1..Len(Crew) -> Members]
    BY <1>1
  <2>2. \A p \in Members : \E i \in 1..Len(Crew) : Crew[i] = p
    BY DEF Members
  <2>3. Crew \in Surjection(1..Len(Crew), Members)
    BY <2>1, <2>2 DEF Surjection
  <2> QED  BY <1>2, <2>3, FS_Surjection
<1>4. ASSUME NEW i \in 1..Len(Crew) PROVE Crew[i] \in Members /\ Place(Crew[i]) = i
  BY CrewAssumption DEF Members, Place
<1>5. ASSUME NEW p \in Members PROVE Place(p) \in 1..Len(Crew) /\ Crew[Place(p)] = p
  BY DEF Members, Place
<1> QED  BY <1>1, <1>3, <1>4, <1>5

LEMMA CoopNumbers ==
  /\ MaxSeats \in Nat \ {0} /\ MinSeats \in 1..MaxSeats /\ SetHp \in Nat /\ ShieldFrom \in Nat
  /\ ShieldFor \in Nat /\ CannonFrom \in Nat /\ CannonFor \in Nat /\ SpiralFor \in Nat /\ Ahead \in Nat
  /\ LastSeq \in Nat /\ LastTick \in Nat /\ HpPerSeat \in Nat \ {0} /\ Cycle \in Nat \ {0}
  /\ FanEvery \in Nat \ {0} /\ FanSize \in Nat \ {0} /\ SpiralEvery \in Nat \ {0}
  /\ ShowerCap \in Nat \ {0} /\ Powers \subseteq Nat
BY CrewAssumption, CoopNumbersAssumption

(* The share of a product in a circle of m parts.                          *)
LEMMA PartOfCircle ==
  ASSUME NEW m \in Nat \ {0}, NEW a \in 0 .. m - 1, NEW b \in 0..m
  PROVE  (a * b) \div m \in 0 .. m - 1
<1> DEFINE q == (a * b) \div m
<1>1. a * b \in Nat /\ a * b <= a * m
  OBVIOUS
<1>2. q \in Int /\ m * q <= a * b /\ a * b < m * q + m
  BY <1>1
<1> HIDE DEF q
<1>3. q >= 0
  <2> SUFFICES ASSUME q <= -1 PROVE FALSE
    BY <1>2
  <2>1. m * q <= -m
    BY <1>2
  <2> QED  BY <1>1, <1>2, <2>1
<1>4. q <= a
  <2> SUFFICES ASSUME q >= a + 1 PROVE FALSE
    BY <1>2
  <2>1. m * q >= m * (a + 1)
    BY <1>2
  <2>2. m * (a + 1) = a * m + m
    OBVIOUS
  <2> QED  BY <1>1, <1>2, <2>1, <2>2
<1> QED  BY <1>2, <1>3, <1>4 DEF q

(* No more than MaxSeats come aboard, and no damage is credited before the *)
(* match begins.                                                           *)
CoopInv ==
  /\ CoopTypeOK /\ Seats <= MaxSeats
  /\ match = "waiting" => \A p \in Members : share[p] = 0
  /\ match # "waiting" => sharedHp + SumOf(share, Members) = fullHp
  /\ ShowerIsBounded

LEMMA SeatFacts ==
  ASSUME CoopTypeOK
  PROVE  /\ Seats \in Nat /\ IsFiniteSet(aboard)
         /\ \A p \in Members : Seat(p) \in Nat
<1>1. IsFiniteSet(aboard)
  BY CrewFacts, FS_Subset DEF CoopTypeOK
<1>2. ASSUME NEW p PROVE Seat(p) \in Nat
  <2>1. IsFiniteSet({q \in aboard : Place(q) < Place(p)})
    BY <1>1, FS_Subset
  <2> QED  BY <2>1, FS_CardinalityType DEF Seat
<1> QED  BY <1>1, <1>2, FS_CardinalityType DEF Seats

LEMMA WantedIsAPower ==
  ASSUME CoopTypeOK, NEW p \in Members
  PROVE  Wanted(p) \in Powers \cup {0} /\ Wanted(p) \in Nat
<1>1. CASE Filed(p) = {}
  <2>1. keeps[p] \in Powers \cup {0}
    BY DEF CoopTypeOK
  <2>2. Wanted(p) = keeps[p]
    BY <1>1 DEF Wanted
  <2>3. Powers \subseteq Nat
    BY CoopNumbers
  <2>4. ASSUME NEW x \in Powers \cup {0} PROVE x \in Nat
    BY <2>3
  <2>5. keeps[p] \in Nat
    BY <2>1, <2>4
  <2> QED  BY <2>1, <2>2, <2>5
<1>2. CASE Filed(p) # {}
  <2>1. (CHOOSE i \in Filed(p) : TRUE) \in Filed(p)
    BY <1>2
  <2>2. Filed(p) \subseteq [tick : 1..LastTick, player : Members, power : Powers]
    BY DEF Filed, CoopTypeOK
  <2> DEFINE one == CHOOSE i \in Filed(p) : TRUE
  <2>3. Wanted(p) = one.power
    BY <1>2 DEF Wanted
  <2> HIDE DEF one
  <2>4. one.power \in Powers
    BY <2>1, <2>2 DEF one
  <2> QED  BY <2>3, <2>4, CoopNumbers
<1> QED  BY <1>1, <1>2

LEMMA ShotFacts ==
  ASSUME CoopTypeOK, NEW p \in Members, NEW hp \in Nat, NEW sh, NEW lk
  PROVE  /\ Shot(p, hp, sh, lk) \in 0..hp
         /\ Shot(p, hp, sh, lk) # 0 => Seat(p) \notin sh /\ Seat(p) # lk
BY WantedIsAPower DEF Shot

Hit(i, hp, sh, lk) == IF Crew[i] \in aboard THEN Shot(Crew[i], hp, sh, lk) ELSE 0

(* The health that is left is a number before every shot.                  *)
LEMMA HealthLeft ==
  ASSUME CoopTypeOK, NEW hp \in Nat, NEW sh, NEW lk
  PROVE  LET left == LeftBefore(hp, sh, lk)
         IN  /\ left[1] = hp
             /\ \A i \in 1 .. Len(Crew) + 1 : left[i] \in Nat
             /\ \A i \in 1..Len(Crew) : left[i + 1] = left[i] - Hit(i, left[i], sh, lk)
<1> DEFINE n == Len(Crew)
           step == [w \in (1..n) \X Nat |-> w[2] - Hit(w[1], w[2], sh, lk)]
           Drains(f) == f = [i \in 1 .. n + 1 |-> IF i = 1 THEN hp
                               ELSE f[i - 1] - (IF Crew[i - 1] \in aboard THEN Shot(Crew[i - 1], f[i - 1], sh, lk) ELSE 0)]
<1>1. n \in Nat
  BY CrewFacts
<1>2. ASSUME NEW i \in 1..n, NEW x \in Nat PROVE x - Hit(i, x, sh, lk) \in Nat
  <2>1. Hit(i, x, sh, lk) \in 0..x
    BY CrewFacts, ShotFacts DEF Hit
  <2> QED  BY <2>1
<1>3. step \in [(1..n) \X Nat -> Nat]
  BY <1>2
<1>4. PICK f \in [0..n -> Nat] : Counts(n, f, hp, step)
  <2> HIDE DEF n, step
  <2> QED  BY <1>1, <1>3, IntervalRecursion
<1>5. ASSUME NEW i \in 1..n PROVE f[i] = f[i - 1] - Hit(i, f[i - 1], sh, lk)
  <2>1. i - 1 \in 0..n /\ f[i - 1] \in Nat
    BY <1>1
  <2> QED  BY <1>4, <2>1 DEF Counts
<1> DEFINE g == [i \in 1 .. n + 1 |-> f[i - 1]]
<1>6. \A i \in 1 .. n + 1 : g[i] = IF i = 1 THEN hp ELSE g[i - 1] - Hit(i - 1, g[i - 1], sh, lk)
  BY <1>1, <1>4, <1>5 DEF Counts
<1> HIDE DEF n
<1>7. \E h : Drains(h)
  <2>1. g = [i \in 1 .. n + 1 |-> g[i]]
    OBVIOUS
  <2> HIDE DEF g
  <2>2. Drains(g)
    BY <1>6, <2>1 DEF Hit
  <2> HIDE DEF Drains
  <2> QED  BY <2>2
<1> DEFINE left == CHOOSE h : Drains(h)
<1>8. LeftBefore(hp, sh, lk) = left
  BY DEF LeftBefore, n
<1>9. Drains(left)
  <2> HIDE DEF Drains
  <2> QED  BY <1>7
<1> HIDE DEF left
<1>10. \A i \in 1 .. n + 1 : left[i] = IF i = 1 THEN hp ELSE left[i - 1] - Hit(i - 1, left[i - 1], sh, lk)
  BY <1>9 DEF Hit
<1> HIDE DEF Drains, g, step
<1>11. left[1] = hp /\ \A i \in 1..n : left[i + 1] = left[i] - Hit(i, left[i], sh, lk)
  BY <1>1, <1>10
<1> DEFINE K == {i \in 0..n : left[i + 1] \in Nat}
<1>12. 0 \in K /\ \A i \in 0 .. n - 1 : i \in K => i + 1 \in K
  <2>1. 0 \in K
    BY <1>1, <1>11
  <2>2. ASSUME NEW i \in 0 .. n - 1, i \in K PROVE i + 1 \in K
    <3>1. i + 1 \in 1..n /\ left[i + 1] \in Nat
      BY <1>1, <2>2
    <3>2. left[(i + 1) + 1] \in Nat
      BY <1>2, <1>11, <3>1
    <3> QED  BY <1>1, <3>1, <3>2
  <2> QED  BY <2>1, <2>2
<1> HIDE DEF K
<1>13. 0..n \subseteq K
  BY <1>1, <1>12, IntervalInduction
<1>14. ASSUME NEW i \in 1 .. n + 1 PROVE left[i] \in Nat
  <2>1. i - 1 \in K
    BY <1>1, <1>13
  <2>2. (i - 1) + 1 = i
    BY <1>1
  <2> QED  BY <2>1, <2>2 DEF K
<1> QED  BY <1>8, <1>11, <1>14 DEF n

(* What the shots take from the health is what the players are credited.   *)
LEMMA SharesGain ==
  ASSUME CoopTypeOK, NEW hp \in Nat, NEW sh, NEW lk
  PROVE  LET left == LeftBefore(hp, sh, lk)
             gained == [p \in Members |-> IF p \in aboard THEN share[p] + Shot(p, left[Place(p)], sh, lk)
                                          ELSE share[p]]
         IN  /\ gained \in [Members -> Nat] /\ left[Len(Crew) + 1] \in Nat
             /\ left[Len(Crew) + 1] + SumOf(gained, Members) = hp + SumOf(share, Members)
<1> DEFINE n == Len(Crew)
           left == LeftBefore(hp, sh, lk)
           after(i) == [p \in Members |-> share[p] + (IF Place(p) <= i THEN Hit(Place(p), left[Place(p)], sh, lk) ELSE 0)]
           K == {i \in 0..n : left[i + 1] + SumOf(after(i), Members) = hp + SumOf(share, Members)}
<1>1. /\ n \in Nat /\ IsFiniteSet(Members) /\ share \in [Members -> Nat]
      /\ \A i \in 1..n : Crew[i] \in Members /\ Place(Crew[i]) = i
      /\ \A p \in Members : Place(p) \in 1..n /\ Crew[Place(p)] = p
  BY CrewFacts DEF CoopTypeOK
<1>2. /\ left[1] = hp
      /\ \A i \in 1 .. n + 1 : left[i] \in Nat
      /\ \A i \in 1..n : left[i + 1] = left[i] - Hit(i, left[i], sh, lk)
  BY HealthLeft
<1> HIDE DEF left, n
<1>3. ASSUME NEW i \in 1..n PROVE Hit(i, left[i], sh, lk) \in Nat
  <2>1. left[i] \in Nat /\ Crew[i] \in Members
    BY <1>1, <1>2
  <2> QED  BY <2>1, ShotFacts DEF Hit
<1>4. ASSUME NEW i \in 0..n PROVE after(i) \in [Members -> Nat]
  BY <1>1, <1>3
<1>5. after(0) = share
  BY <1>1
<1>6. 0 \in K
  BY <1>1, <1>2, <1>5
<1>7. ASSUME NEW i \in 0 .. n - 1, i \in K PROVE i + 1 \in K
  <2> DEFINE p == Crew[i + 1]
             d == Hit(i + 1, left[i + 1], sh, lk)
  <2>1. i + 1 \in 1..n /\ i \in 0..n /\ p \in Members /\ Place(p) = i + 1
    BY <1>1
  <2>2. d \in Nat /\ left[i + 2] = left[i + 1] - d /\ left[i + 1] \in Nat /\ left[i + 2] \in Nat
    BY <1>1, <1>2, <1>3, <2>1
  <2>3. ASSUME NEW q \in Members PROVE after(i + 1)[q] = after(i)[q] + (IF q = p THEN d ELSE 0)
    <3>1. CASE q = p
      BY <1>1, <2>1, <2>2, <3>1
    <3>2. CASE q # p
      <4>1. Place(q) # i + 1
        BY <1>1, <2>1, <3>2
      <4>2. Place(q) <= i + 1 <=> Place(q) <= i
        BY <1>1, <2>1, <4>1
      <4> QED  BY <1>3, <3>2, <4>2, <1>1
    <3> QED  BY <3>1, <3>2
  <2> DEFINE old == after(i)
             new == after(i + 1)
  <2>4. old \in [Members -> Nat] /\ new \in [Members -> Nat]
    BY <1>4, <2>1
  <2>9. \A q \in Members : new[q] = old[q] + (IF q = p THEN d ELSE 0)
    BY <2>3
  <2>11. new[p] = old[p] + d /\ \A q \in Members : q # p => new[q] = old[q]
    <3> HIDE DEF after, p, d, old, new
    <3> QED  BY <2>1, <2>2, <2>4, <2>9
  <2>5. left[i + 1] + SumOf(old, Members) = hp + SumOf(share, Members)
    BY <1>7
  <2> HIDE DEF after, p, d, old, new
  <2>6. SumOf(new, Members) = SumOf(old, Members) + d
    BY <1>1, <2>1, <2>2, <2>4, <2>11, SumGains
  <2>7. SumOf(old, Members) \in Nat /\ SumOf(share, Members) \in Nat
    BY <1>1, <2>4, SumIsNat
  <2>8. (i + 1) + 1 = i + 2 /\ i + 1 \in 0..n
    BY <2>1
  <2>10. left[(i + 1) + 1] + SumOf(new, Members) = hp + SumOf(share, Members)
    BY <2>2, <2>5, <2>6, <2>7, <2>8
  <2> QED  BY <2>8, <2>10 DEF new
<1>8. n \in K
  <2> HIDE DEF K
  <2>1. 0..n \subseteq K
    BY <1>1, <1>6, <1>7, IntervalInduction
  <2> QED  BY <1>1, <2>1
<1> DEFINE gained == [p \in Members |-> IF p \in aboard THEN share[p] + Shot(p, left[Place(p)], sh, lk)
                                        ELSE share[p]]
<1>9. gained = after(n)
  <2>1. ASSUME NEW p \in Members PROVE gained[p] = after(n)[p]
    BY <1>1, <2>1 DEF Hit
  <2> QED  BY <2>1
<1>10. gained \in [Members -> Nat]
  BY <1>1, <1>4, <1>9
<1>11. left[n + 1] \in Nat
  BY <1>1, <1>2
<1>12. left[n + 1] + SumOf(gained, Members) = hp + SumOf(share, Members)
  BY <1>8, <1>9
<1> QED  BY <1>10, <1>11, <1>12 DEF left, n
-----------------------------------------------------------------------------
CoopMost == ShowerCap + (IF FanSize >= SpiralSize THEN FanSize ELSE SpiralSize) - 1

LEMMA VolleyFacts ==
  ASSUME NEW n \in Nat, n <= CoopMost, NEW size \in {1, FanSize, SpiralSize}
  PROVE  Volley(n, size) \in Nat /\ Volley(n, size) <= CoopMost
BY CoopNumbers DEF Volley, CoopMost, SpiralSize

(* Every volley of a tick looks at the cap before it begins.               *)
LEMMA FansAreBounded ==
  ASSUME NEW t, NEW lk, shower \in Nat, shower <= CoopMost
  PROVE  AfterFans(t, lk) \in Nat /\ AfterFans(t, lk) <= CoopMost
<1> DEFINE n == Len(Crew)
           Low == {x \in Nat : x <= CoopMost}
           fan(x) == IF t % FanEvery = 0 THEN Volley(x, FanSize) ELSE x
           grown(i, x) == IF Crew[i] \notin aboard \/ ~present[Crew[i]] THEN x
                          ELSE IF Seat(Crew[i]) = lk THEN Volley(fan(x), 1) ELSE fan(x)
           step == [w \in (1..n) \X Low |-> grown(w[1], w[2])]
           Fires(f) == f = [i \in 0..n |->
                              IF i = 0 THEN shower
                              ELSE IF Crew[i] \notin aboard \/ ~present[Crew[i]] THEN f[i - 1]
                              ELSE LET fan1 == IF t % FanEvery = 0 THEN Volley(f[i - 1], FanSize) ELSE f[i - 1]
                                   IN  IF Seat(Crew[i]) = lk THEN Volley(fan1, 1) ELSE fan1]
<1>1. n \in Nat
  BY CrewFacts
<1>2. ASSUME NEW x \in Low PROVE fan(x) \in Low
  BY VolleyFacts
<1>3. ASSUME NEW x \in Low, NEW i PROVE grown(i, x) \in Low
  <2>1. Volley(fan(x), 1) \in Low
    <3> HIDE DEF fan
    <3> QED  BY <1>2, VolleyFacts
  <2> QED  BY <1>2, <2>1
<1>4. step \in [(1..n) \X Low -> Low]
  <2> HIDE DEF grown, Low
  <2> QED  BY <1>3
<1>5. PICK f \in [0..n -> Low] : Counts(n, f, shower, step)
  <2>1. shower \in Low
    OBVIOUS
  <2> HIDE DEF n, step, Low
  <2> QED  BY <1>1, <1>4, <2>1, IntervalRecursion
<1>6. ASSUME NEW i \in 1..n PROVE f[i] = grown(i, f[i - 1])
  <2>1. i - 1 \in 0..n /\ f[i - 1] \in Low
    BY <1>1
  <2> HIDE DEF grown, Low
  <2> QED  BY <1>5, <2>1 DEF Counts
<1>7. \E h : Fires(h)
  <2>1. f = [i \in 0..n |-> f[i]]
    OBVIOUS
  <2>2. \A i \in 0..n : f[i] = IF i = 0 THEN shower ELSE grown(i, f[i - 1])
    <3> HIDE DEF grown
    <3> QED  BY <1>1, <1>5, <1>6 DEF Counts
  <2> HIDE DEF n
  <2>3. Fires(f)
    BY <2>1, <2>2
  <2> HIDE DEF Fires
  <2> QED  BY <2>3
<1> DEFINE after == CHOOSE h : Fires(h)
<1>8. AfterFans(t, lk) = after[n]
  BY DEF AfterFans
<1>9. Fires(after)
  <2> HIDE DEF Fires
  <2> QED  BY <1>7
<1> HIDE DEF after
<1>13. ASSUME NEW i \in 0..n PROVE after[i] = IF i = 0 THEN shower ELSE grown(i, after[i - 1])
  <2> HIDE DEF n
  <2> QED  BY <1>9
<1>10. after[0] = shower /\ \A i \in 1..n : after[i] = grown(i, after[i - 1])
  <2> HIDE DEF grown, n
  <2> QED  BY <1>1, <1>13
<1> DEFINE K == {i \in 0..n : after[i] \in Low}
<1>11. 0 \in K /\ \A i \in 0 .. n - 1 : i \in K => i + 1 \in K
  <2>1. 0 \in K
    BY <1>1, <1>10
  <2>2. ASSUME NEW i \in 0 .. n - 1, i \in K PROVE i + 1 \in K
    <3>1. i + 1 \in 1..n /\ (i + 1) - 1 = i /\ after[i] \in Low
      BY <1>1, <2>2
    <3> HIDE DEF grown, Low
    <3>2. after[i + 1] \in Low
      BY <1>3, <1>10, <3>1
    <3> QED  BY <1>1, <3>1, <3>2
  <2> QED  BY <2>1, <2>2
<1>12. n \in K
  <2> HIDE DEF K, n
  <2>1. 0..n \subseteq K
    BY <1>1, <1>11, IntervalInduction
  <2> QED  BY <1>1, <2>1
<1> QED  BY <1>8, <1>12

LEMMA ShowerStaysBounded ==
  ASSUME NEW t, NEW lk, shower \in Nat, shower <= CoopMost
  PROVE  Showered(t, lk) \in Nat /\ Showered(t, lk) <= CoopMost
<1>1. AfterFans(t, lk) \in Nat /\ AfterFans(t, lk) <= CoopMost
  BY FansAreBounded
<1> QED  BY <1>1, VolleyFacts DEF Showered
-----------------------------------------------------------------------------
LEMMA ShieldedSeats ==
  ASSUME CoopTypeOK, Seats <= MaxSeats, NEW t, NEW r
  PROVE  Shielded(t, r) \subseteq Seating
<1>1. Seats \in Nat /\ MaxSeats \in Nat
  BY SeatFacts, CoopNumbers
<1>2. 0 .. Seats - 1 \subseteq Seating
  BY <1>1 DEF Seating
<1>3. Shielded(t, r) \subseteq 0 .. Seats - 1
  BY DEF Shielded
<1> QED  BY <1>2, <1>3

LEMMA LockedSeat ==
  ASSUME CoopTypeOK, Seats <= MaxSeats, NEW t, NEW r \in Rolls
  PROVE  Locked(t, r) \in Seating \cup {NoSeat}
<1>1. Seats \in Nat /\ MaxSeats \in Nat \ {0}
  BY SeatFacts, CoopNumbers
<1>2. r.die \in 0 .. MaxSeats - 1
  BY RollAssumption DEF Seating
<1>3. (r.die * Seats) \div MaxSeats \in 0 .. MaxSeats - 1
  BY <1>1, <1>2, PartOfCircle
<1> QED  BY <1>3 DEF Locked, Seating

LEMMA HpFacts ==
  ASSUME CoopInv
  PROVE  /\ HpAtTick \in Nat
         /\ (Starting \/ match = "running") =>
              HpAtTick + SumOf(share, Members) = (IF Starting THEN HpAtTick ELSE fullHp)
<1>1. Seats \in Nat /\ IsFiniteSet(Members)
  BY SeatFacts, CrewFacts DEF CoopInv
<1>2. HpPerSeat * Seats \in Nat
  BY <1>1, CoopNumbers
<1>3. sharedHp \in Nat /\ fullHp \in Nat /\ share \in [Members -> Nat]
  BY DEF CoopInv, CoopTypeOK
<1>4. HpAtTick \in Nat
  BY <1>2, <1>3 DEF HpAtTick
<1>5. CASE Starting
  <2>1. SumOf(share, Members) = 0
    <3>1. \A p \in Members : share[p] = 0
      BY <1>5 DEF CoopInv, Starting
    <3> QED  BY <1>1, <1>3, <3>1, SumOfNone
  <2> QED  BY <1>4, <1>5, <2>1
<1>6. CASE ~Starting
  BY <1>3, <1>4, <1>6 DEF CoopInv, HpAtTick
<1> QED  BY <1>4, <1>5, <1>6

LEMMA CoopStarts == CoopInit => CoopInv
<1> SUFFICES ASSUME CoopInit PROVE CoopInv
  OBVIOUS
<1>1. Seats = 0
  BY FS_EmptySet DEF CoopInit, Seats
<1>2. CoopTypeOK
  BY CoopNumbers DEF CoopInit, CoopTypeOK
<1>3. ShowerIsBounded
  BY CoopNumbers DEF CoopInit, ShowerIsBounded, SpiralSize
<1> QED  BY <1>1, <1>2, <1>3, CoopNumbers DEF CoopInit, CoopInv

LEMMA CoopStepKeeps == ASSUME CoopInv, CoopStep PROVE CoopInv'
<1> DEFINE left == LeftBefore(HpAtTick, shield', lock')
<1>1. CoopTypeOK /\ Seats <= MaxSeats /\ HpAtTick \in Nat
  BY HpFacts DEF CoopInv
<1>2. /\ share' \in [Members -> Nat] /\ sharedHp' \in Nat
      /\ sharedHp' + SumOf(share', Members) = HpAtTick + SumOf(share, Members)
  <2>1. /\ sharedHp' = left[Len(Crew) + 1]
        /\ share' = [p \in Members |->
             IF p \in aboard THEN share[p] + Shot(p, left[Place(p)], shield', lock') ELSE share[p]]
    BY DEF CoopStep
  <2> DEFINE gained == [p \in Members |-> IF p \in aboard THEN share[p] + Shot(p, left[Place(p)], shield', lock')
                                         ELSE share[p]]
             rest == left[Len(Crew) + 1]
  <2>2. /\ gained \in [Members -> Nat] /\ rest \in Nat
        /\ rest + SumOf(gained, Members) = HpAtTick + SumOf(share, Members)
    BY <1>1, SharesGain
  <2>3. share' = gained /\ sharedHp' = rest
    BY <2>1
  <2> HIDE DEF gained, rest
  <2> QED  BY <2>2, <2>3
<1>3. fullHp' = (IF Starting THEN HpAtTick ELSE fullHp) /\ fullHp' \in Nat
  BY <1>1 DEF CoopStep, CoopTypeOK
<1>4. sharedHp' + SumOf(share', Members) = fullHp'
  BY <1>2, <1>3, HpFacts DEF CoopStep
<1>5. match' \in {"running", "finished"} /\ clock' \in 0..LastTick
  BY <1>1, CoopNumbers DEF CoopStep, CoopTypeOK
<1>6. roll' \in Rolls
  BY <1>1 DEF CoopStep, CoopTypeOK
<1>7. shield' \subseteq Seating /\ lock' \in Seating \cup {NoSeat}
  BY <1>1, <1>6, ShieldedSeats, LockedSeat DEF CoopStep
<1>8. keeps' \in [Members -> Powers \cup {0}]
  BY <1>1, WantedIsAPower DEF CoopStep, CoopTypeOK
<1>9. filed' \subseteq [tick : 1..LastTick, player : Members, power : Powers]
  BY <1>1 DEF CoopStep, CoopTypeOK
<1>10. shower' \in Nat /\ shower' <= CoopMost
  <2>1. Showered(clock', lock') \in Nat /\ Showered(clock', lock') <= CoopMost
    BY <1>1, ShowerStaysBounded DEF CoopInv, CoopTypeOK, ShowerIsBounded, CoopMost
  <2>2. shower' \in 0 .. Showered(clock', lock')
    BY DEF CoopStep
  <2>3. CoopMost \in Int
    BY CoopNumbers DEF CoopMost, SpiralSize
  <2> QED  BY <2>1, <2>2, <2>3
<1>11. UNCHANGED <<aboard, present, numbered>>
  BY DEF CoopStep
<1>12. CoopTypeOK'
  BY <1>1, <1>2, <1>3, <1>5, <1>6, <1>7, <1>8, <1>9, <1>10, <1>11 DEF CoopTypeOK
<1>13. (Seats <= MaxSeats)'
  BY <1>1, <1>11 DEF Seats
<1>14. ShowerIsBounded'
  BY <1>10 DEF ShowerIsBounded, CoopMost
<1> QED  BY <1>4, <1>5, <1>12, <1>13, <1>14 DEF CoopInv

LEMMA CoopNextKeeps == CoopInv /\ [CoopNext]_coopVars => CoopInv'
<1> SUFFICES ASSUME CoopInv, [CoopNext]_coopVars PROVE CoopInv'
  OBVIOUS
<1>1. /\ CoopTypeOK /\ Seats <= MaxSeats
      /\ match = "waiting" => \A p \in Members : share[p] = 0
      /\ match # "waiting" => sharedHp + SumOf(share, Members) = fullHp
      /\ ShowerIsBounded
  BY DEF CoopInv
<1>2. ASSUME NEW p \in Members, CoopAddPlayer(p) PROVE CoopInv'
  <2>1. Seats' = Seats + 1 /\ Seats \in Nat /\ Seats + 1 <= MaxSeats
    <3>1. IsFiniteSet(aboard) /\ p \notin aboard /\ aboard' = aboard \cup {p} /\ Seats \in Nat /\ Seats < MaxSeats
      BY <1>1, <1>2, SeatFacts DEF CoopAddPlayer
    <3>2. Cardinality(aboard \cup {p}) = Cardinality(aboard) + 1
      BY <3>1, FS_AddElement
    <3> QED  BY <3>1, <3>2, CoopNumbers DEF Seats
  <2>2. CoopTypeOK'
    BY <1>1, <1>2 DEF CoopTypeOK, CoopAddPlayer
  <2> QED  BY <1>1, <1>2, <2>1, <2>2 DEF CoopInv, CoopAddPlayer, ShowerIsBounded
<1>3. ASSUME NEW p \in Members, NEW c \in BOOLEAN, CoopSetConnected(p, c) PROVE CoopInv'
  <2>1. CoopTypeOK'
    BY <1>1, <1>3 DEF CoopTypeOK, CoopSetConnected
  <2> QED  BY <1>1, <1>3, <2>1 DEF CoopInv, CoopSetConnected, ShowerIsBounded, Seats
<1>4. ASSUME NEW p \in Members, NEW seq \in 1..LastSeq, NEW at \in 1..LastTick, NEW w \in Powers,
             CoopSubmitInput(p, seq, at, w)
      PROVE  CoopInv'
  <2>1. CoopTypeOK'
    <3>1. numbered' \in [Members -> 0..LastSeq]
      BY <1>1, <1>4, CoopNumbers DEF CoopTypeOK, CoopSubmitInput
    <3>2. filed' \subseteq [tick : 1..LastTick, player : Members, power : Powers]
      BY <1>1, <1>4 DEF CoopTypeOK, CoopSubmitInput
    <3> QED  BY <1>1, <1>4, <3>1, <3>2 DEF CoopTypeOK, CoopSubmitInput
  <2> QED  BY <1>1, <1>4, <2>1 DEF CoopInv, CoopSubmitInput, ShowerIsBounded, Seats
<1>5. CASE CoopWait
  <2>1. CoopTypeOK'
    BY <1>1, <1>5, CoopNumbers DEF CoopTypeOK, CoopWait
  <2> QED  BY <1>1, <1>5, <2>1 DEF CoopInv, CoopWait, ShowerIsBounded, Seats
<1>6. CASE UNCHANGED coopVars
  <2>1. CoopTypeOK'
    BY <1>1, <1>6 DEF CoopTypeOK, coopVars
  <2> QED  BY <1>1, <1>6, <2>1 DEF CoopInv, coopVars, ShowerIsBounded, Seats
<1> QED  BY <1>2, <1>3, <1>4, <1>5, <1>6, CoopStepKeeps DEF CoopNext, CoopTick

(* A step of the co-op Boss credits damage only to a seat that the snapshot *)
(* shows neither shielded nor locked.                                      *)
LEMMA BlockedSeatsStep ==
  ASSUME CoopInv, [CoopNext]_coopVars, NEW p \in aboard, share'[p] # share[p]
  PROVE  Seat(p) \notin shield' /\ Seat(p) # lock'
<1>1. CoopTypeOK /\ p \in Members
  BY DEF CoopInv, CoopTypeOK
<1>2. CASE CoopStep
  <2> DEFINE left == LeftBefore(HpAtTick, shield', lock')
  <2>1. left[Place(p)] \in Nat
    <3>1. Place(p) \in 1 .. Len(Crew) + 1
      BY <1>1, CrewFacts
    <3> QED  BY <1>1, <3>1, HpFacts, HealthLeft
  <2>2. share'[p] = share[p] + Shot(p, left[Place(p)], shield', lock')
    BY <1>1, <1>2 DEF CoopStep
  <2> HIDE DEF left
  <2>3. share[p] \in Nat
    BY <1>1 DEF CoopTypeOK
  <2>4. Shot(p, left[Place(p)], shield', lock') # 0
    BY <2>2, <2>3
  <2> QED  BY <1>1, <2>1, <2>4, ShotFacts
<1>3. CASE ~CoopStep
  <2>1. share' = share
    BY <1>3 DEF CoopNext, CoopTick, CoopAddPlayer, CoopSetConnected, CoopSubmitInput, CoopWait, coopVars
  <2> QED  BY <2>1
<1> QED  BY <1>2, <1>3

LEMMA SharedDamage == CoopInv => SharedDamageAddsUp
BY DEF CoopInv, SharedDamageAddsUp, SumOf
=============================================================================
