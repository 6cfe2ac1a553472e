------------------------- MODULE HostedMatch_proofs -------------------------
(* The Boss race a match server holds, for any catalog, decks, health,     *)
(* phases and lives: the bookkeeping of damage and captures, who wins,     *)
(* what a held input may do, how long a ship is safe, and the stalemate.   *)
EXTENDS HostedMatch, CoopBoss_proofs, SequenceTheorems

LEMMA Numbers ==
  /\ BossMaxHp \in Nat \ {0} /\ Phases \in Nat \ {0} /\ ReportEvery \in Nat /\ ShotDamage \in Nat
  /\ BombDamage \in Nat /\ Lives \in Nat /\ Bombs \in Nat /\ Mercy \in Nat /\ BulletCap \in Nat
  /\ Burst \in Nat /\ Window \in Nat /\ MaxSeq \in Nat /\ MaxTick \in Nat
BY NumbersAssumption

Copies ==
  [hp : 0..BossMaxHp, dealt : Nat, owed : Nat, phase : 0 .. Phases - 1, got : Nat, total : Nat, touched : BOOLEAN]

(* The end of the last phase is the fall of the Boss.  Of the phases that  *)
(* ended, and the one that goes on if it was touched, those not captured   *)
(* cost a life each.                                                       *)
Ended(copy) == copy.phase + (IF copy.hp = 0 THEN 1 ELSE 0)
Spoiled(copy) == IF copy.hp > 0 /\ copy.touched THEN 1 ELSE 0

Honest(copy, lost, heard) ==
  /\ copy \in Copies
  /\ copy.hp + copy.dealt = BossMaxHp
  /\ Mechanics => /\ heard + copy.owed = copy.dealt
                  /\ copy.total = copy.phase + 1
                  /\ copy.got <= Ended(copy)
                  /\ Ended(copy) + Spoiled(copy) <= copy.got + lost

LEMMA PhaseGrows ==
  ASSUME NEW phase \in 0 .. Phases - 1, NEW hp \in Nat
  PROVE  PhaseFor(phase, hp) \in 0 .. Phases - 1 /\ PhaseFor(phase, hp) >= phase
<1> DEFINE entered == {k \in 1 .. Phases - 1 : hp * Phases <= BossMaxHp * (Phases - k)}
<1>1. IsFiniteSet(1 .. Phases - 1) /\ Cardinality(1 .. Phases - 1) = Phases - 1
  <2>1. 1 \in Int /\ Phases - 1 \in Int /\ (IF 1 > Phases - 1 THEN 0 ELSE (Phases - 1) - 1 + 1) = Phases - 1
    BY Numbers
  <2> QED  BY <2>1, FS_Interval
<1>2. Cardinality(entered) \in Nat /\ Cardinality(entered) <= Phases - 1
  BY <1>1, FS_Subset, FS_CardinalityType
<1> HIDE DEF entered
<1>3. PhaseFor(phase, hp) = IF Cardinality(entered) > phase THEN Cardinality(entered) ELSE phase
  BY DEF PhaseFor, entered
<1> QED  BY <1>2, <1>3, Numbers

LEMMA Wounded ==
  ASSUME NEW copy \in Copies, NEW applied \in 1..copy.hp
  PROVE  LET w == Wound(copy, applied)
         IN  /\ w \in Copies
             /\ w.hp = copy.hp - applied /\ w.dealt = copy.dealt + applied /\ w.owed = copy.owed
             /\ w.phase \in Nat /\ w.phase >= copy.phase
             /\ w.total = copy.total + (w.phase - copy.phase)
             /\ w.touched <=> (copy.touched /\ w.phase = copy.phase)
             /\ w.got = copy.got
                  + (IF copy.touched /\ w.phase > copy.phase THEN w.phase - copy.phase - 1
                     ELSE w.phase - copy.phase)
                  + (IF w.hp = 0 /\ ~(copy.touched /\ w.phase = copy.phase) THEN 1 ELSE 0)
<1> DEFINE hp == copy.hp - applied
           phase == PhaseFor(copy.phase, hp)
           passed == phase - copy.phase
           spoiled == copy.touched /\ passed = 0
           won == (IF copy.touched /\ passed > 0 THEN passed - 1 ELSE passed)
           last == (IF hp = 0 /\ ~spoiled THEN 1 ELSE 0)
<1>1. /\ copy.hp \in 0..BossMaxHp /\ copy.dealt \in Nat /\ copy.owed \in Nat /\ copy.phase \in 0 .. Phases - 1
      /\ copy.got \in Nat /\ copy.total \in Nat /\ copy.touched \in BOOLEAN
  BY DEF Copies
<1>2. hp \in 0..BossMaxHp /\ hp \in Nat
  BY <1>1, Numbers
<1> HIDE DEF hp
<1>12. phase \in 0 .. Phases - 1 /\ phase >= copy.phase
  BY <1>1, <1>2, PhaseGrows
<1> HIDE DEF phase
<1>3. phase \in Nat /\ phase >= copy.phase /\ passed \in Nat
  BY <1>1, <1>12, Numbers
<1>4. won \in Nat /\ last \in Nat /\ copy.dealt + applied \in Nat /\ spoiled \in BOOLEAN
  BY <1>1, <1>3
<1> HIDE DEF passed, spoiled, won, last
<1>5. Wound(copy, applied) =
        [copy EXCEPT !.hp = hp, !.dealt = @ + applied, !.phase = phase, !.total = @ + passed,
                     !.touched = spoiled, !.got = @ + won + last]
  BY DEF Wound, hp, phase, passed, spoiled, won, last
<1> DEFINE w == Wound(copy, applied)
<1>6. /\ w.hp = hp /\ w.dealt = copy.dealt + applied /\ w.phase = phase /\ w.owed = copy.owed
      /\ w.total = copy.total + passed /\ w.touched = spoiled /\ w.got = copy.got + won + last
  BY <1>5 DEF Copies
<1>7. w \in Copies
  <2>1. copy.got + won + last \in Nat /\ copy.total + passed \in Nat
    BY <1>1, <1>3, <1>4
  <2> QED  BY <1>1, <1>2, <1>4, <1>5, <1>12, <2>1 DEF Copies
<1>8. phase \in Nat /\ phase >= copy.phase /\ (passed > 0 <=> phase > copy.phase)
      /\ (passed = 0 <=> phase = copy.phase) /\ passed = phase - copy.phase
  BY <1>1, <1>3, Numbers DEF passed
<1>9. spoiled <=> (copy.touched /\ phase = copy.phase)
  BY <1>8 DEF spoiled
<1>10. /\ won = IF copy.touched /\ phase > copy.phase THEN phase - copy.phase - 1 ELSE phase - copy.phase
       /\ last = IF hp = 0 /\ ~(copy.touched /\ phase = copy.phase) THEN 1 ELSE 0
  BY <1>8, <1>9 DEF won, last
<1>11. hp = copy.hp - applied
  BY DEF hp
<1> QED  BY <1>6, <1>7, <1>8, <1>9, <1>10, <1>11

LEMMA Applied ==
  ASSUME NEW copy \in Copies, NEW damage \in Nat
  PROVE  /\ Least(damage, copy.hp) \in 0..copy.hp
         /\ Least(damage, copy.hp) # 0 => Least(damage, copy.hp) \in 1..copy.hp
<1>1. copy.hp \in Nat
  BY Numbers DEF Copies
<1> QED  BY <1>1 DEF Least

LEMMA StrikeHonest ==
  ASSUME NEW copy, NEW lost \in Nat, NEW heard \in Nat, NEW damage \in Nat, Honest(copy, lost, heard)
  PROVE  Honest(Strike(copy, damage), lost, heard)
<1> DEFINE applied == Least(damage, copy.hp)
           w == Wound(copy, applied)
           s == [w EXCEPT !.owed = @ + applied]
<1>1. copy \in Copies
  BY DEF Honest
<1>2. CASE applied = 0
  BY <1>2 DEF Strike
<1>3. CASE applied # 0
  <2>1. applied \in 1..copy.hp
    BY <1>1, <1>3, Applied
  <2>2. Strike(copy, damage) = s
    BY <1>3 DEF Strike
  <2> HIDE DEF applied
  <2>3. /\ w \in Copies
        /\ w.hp = copy.hp - applied /\ w.dealt = copy.dealt + applied /\ w.owed = copy.owed
        /\ w.phase \in Nat /\ w.phase >= copy.phase
        /\ w.total = copy.total + (w.phase - copy.phase)
        /\ w.touched <=> (copy.touched /\ w.phase = copy.phase)
        /\ w.got = copy.got
              + (IF copy.touched /\ w.phase > copy.phase THEN w.phase - copy.phase - 1
                 ELSE w.phase - copy.phase)
              + (IF w.hp = 0 /\ ~(copy.touched /\ w.phase = copy.phase) THEN 1 ELSE 0)
    BY <1>1, <2>1, Wounded
  <2> HIDE DEF w
  <2>4. /\ copy.hp \in Nat /\ copy.dealt \in Nat /\ copy.owed \in Nat /\ copy.phase \in Nat
        /\ copy.got \in Nat /\ copy.total \in Nat /\ copy.touched \in BOOLEAN
        /\ applied \in Nat /\ applied <= copy.hp /\ applied > 0
    BY <1>1, <2>1, Numbers DEF Copies
  <2>5. w.owed + applied \in Nat
    BY <2>3, <2>4
  <2>6. /\ s \in Copies
        /\ s.hp = w.hp /\ s.dealt = w.dealt /\ s.owed = w.owed + applied /\ s.phase = w.phase
        /\ s.total = w.total /\ s.touched = w.touched /\ s.got = w.got
    BY <2>3, <2>5 DEF Copies
  <2> HIDE DEF s
  <2>7. s.hp + s.dealt = BossMaxHp
    BY <2>3, <2>4, <2>6, Numbers DEF Honest
  <2>8. ASSUME Mechanics
        PROVE  /\ heard + s.owed = s.dealt
               /\ s.total = s.phase + 1
               /\ s.got <= Ended(s)
               /\ Ended(s) + Spoiled(s) <= s.got + lost
    <3>1. /\ heard + copy.owed = copy.dealt /\ copy.total = copy.phase + 1
          /\ copy.got <= copy.phase
          /\ copy.phase + (IF copy.touched THEN 1 ELSE 0) <= copy.got + lost
      <4>1. /\ heard + copy.owed = copy.dealt /\ copy.total = copy.phase + 1
            /\ copy.got <= Ended(copy) /\ Ended(copy) + Spoiled(copy) <= copy.got + lost
        BY <2>8 DEF Honest
      <4>2. copy.hp > 0
        BY <2>4
      <4>3. Ended(copy) = copy.phase
        BY <2>4, <4>2 DEF Ended
      <4>4. Spoiled(copy) = IF copy.touched THEN 1 ELSE 0
        BY <4>2 DEF Spoiled
      <4> QED  BY <4>1, <4>3, <4>4
    <3>2. heard + s.owed = s.dealt /\ s.total = s.phase + 1
      BY <2>3, <2>4, <2>6, <3>1
    <3>3. s.hp \in Nat /\ s.phase \in Nat
      BY <2>3, <2>4, <2>6
    <3>4. CASE w.phase = copy.phase
      <4>1. s.phase = copy.phase /\ (s.touched <=> copy.touched)
            /\ s.got = copy.got + (IF s.hp = 0 /\ ~copy.touched THEN 1 ELSE 0)
        BY <2>3, <2>4, <2>6, <3>4
      <4>2. CASE copy.touched
        BY <2>4, <3>1, <3>2, <3>3, <4>1, <4>2 DEF Ended, Spoiled
      <4>3. CASE ~copy.touched
        BY <2>4, <3>1, <3>2, <3>3, <4>1, <4>3 DEF Ended, Spoiled
      <4> QED  BY <4>2, <4>3
    <3>5. CASE w.phase > copy.phase
      <4>1. w.phase \in Nat /\ s.phase = w.phase /\ ~s.touched /\ s.got = w.got /\ s.hp = w.hp
        BY <2>3, <2>4, <2>6, <3>5
      <4>2. Ended(s) = w.phase + (IF s.hp = 0 THEN 1 ELSE 0) /\ Spoiled(s) = 0
        BY <4>1 DEF Ended, Spoiled
      <4>3. s.got = copy.got + (IF copy.touched THEN w.phase - copy.phase - 1 ELSE w.phase - copy.phase)
                      + (IF s.hp = 0 THEN 1 ELSE 0)
        BY <2>3, <2>4, <3>5, <4>1
      <4> QED  BY <2>4, <3>1, <3>2, <3>5, <4>1, <4>2, <4>3
    <3>6. w.phase = copy.phase \/ w.phase > copy.phase
      BY <2>3, <2>4
    <3> QED  BY <3>4, <3>5, <3>6
  <2> QED  BY <2>2, <2>6, <2>7, <2>8 DEF Honest
<1> QED  BY <1>2, <1>3

LEMMA ChipHonest ==
  ASSUME NEW copy, NEW lost, NEW heard, NEW damage \in Nat, Honest(copy, lost, heard), ~Mechanics
  PROVE  Honest(Chip(copy, damage), lost, heard)
<1> DEFINE applied == Least(damage, copy.hp)
<1>1. copy \in Copies /\ copy.hp + copy.dealt = BossMaxHp /\ applied \in 0..copy.hp
  BY Applied DEF Honest
<1>2. Chip(copy, damage) = [copy EXCEPT !.hp = @ - applied, !.dealt = @ + applied]
  BY DEF Chip
<1> HIDE DEF applied
<1>3. /\ copy.hp \in 0..BossMaxHp /\ copy.dealt \in Nat
      /\ copy.hp - applied \in 0..BossMaxHp /\ copy.dealt + applied \in Nat
      /\ (copy.hp - applied) + (copy.dealt + applied) = BossMaxHp
  BY <1>1, Numbers DEF Copies
<1>4. /\ Chip(copy, damage) \in Copies
      /\ Chip(copy, damage).hp = copy.hp - applied /\ Chip(copy, damage).dealt = copy.dealt + applied
  BY <1>1, <1>2, <1>3 DEF Copies
<1> QED  BY <1>3, <1>4 DEF Honest

(* A hit costs a life, so what the touched phase loses is paid for.        *)
LEMMA TouchHonest ==
  ASSUME NEW copy, NEW lost \in Nat, NEW heard, Honest(copy, lost, heard)
  PROVE  Honest([copy EXCEPT !.touched = TRUE], lost + 1, heard)
<1> DEFINE t == [copy EXCEPT !.touched = TRUE]
<1>1. copy \in Copies
  BY DEF Honest
<1>2. /\ t \in Copies /\ t.hp = copy.hp /\ t.dealt = copy.dealt /\ t.owed = copy.owed
      /\ t.phase = copy.phase /\ t.total = copy.total /\ t.got = copy.got
  BY <1>1 DEF Copies
<1> HIDE DEF t
<1>3. copy.hp \in Nat /\ copy.phase \in Nat /\ copy.got \in Nat
  BY <1>1, Numbers DEF Copies
<1>4. Ended(t) = Ended(copy) /\ Spoiled(t) <= 1 /\ Spoiled(copy) >= 0 /\ Spoiled(t) \in Nat
      /\ Spoiled(copy) \in Nat /\ Ended(copy) \in Nat
  BY <1>2, <1>3 DEF Ended, Spoiled
<1>5. Mechanics => Ended(t) + Spoiled(t) <= t.got + (lost + 1)
  BY <1>2, <1>3, <1>4 DEF Honest
<1> QED  BY <1>2, <1>4, <1>5 DEF Honest, t

(* A row tells what was owed.                                              *)
LEMMA TellHonest ==
  ASSUME NEW copy, NEW lost, NEW heard \in Nat, Honest(copy, lost, heard)
  PROVE  /\ heard + copy.owed \in Nat
         /\ Honest([copy EXCEPT !.owed = 0], lost, heard + copy.owed)
<1> DEFINE t == [copy EXCEPT !.owed = 0]
<1>1. copy \in Copies
  BY DEF Honest
<1>2. /\ t \in Copies /\ t.hp = copy.hp /\ t.dealt = copy.dealt /\ t.owed = 0
      /\ t.phase = copy.phase /\ t.total = copy.total /\ t.got = copy.got /\ t.touched = copy.touched
  BY <1>1 DEF Copies
<1> HIDE DEF t
<1>3. heard + copy.owed \in Nat /\ (heard + copy.owed) + 0 = heard + copy.owed
  BY <1>1 DEF Copies
<1>4. Ended(t) = Ended(copy) /\ Spoiled(t) = Spoiled(copy)
  BY <1>2 DEF Ended, Spoiled
<1> QED  BY <1>2, <1>3, <1>4 DEF Honest, t

-----------------------------------------------------------------------------
(* The hands.                                                              *)
Hands ==
  [cards : Seq(Cards), deck : Seq(Cards), cursor : Nat, energy : 0..MaxEnergy, cooling : [Cards -> Nat]]

HandOK(h) == h \in Hands /\ Len(h.cards) <= HandLimit

LEMMA CatalogFacts ==
  /\ HandLimit \in Nat \ {0} /\ MaxEnergy \in Nat
  /\ \A c \in Cards : /\ Definition[c].cost \in Nat /\ Definition[c].cooldown \in Nat
                      /\ Definition[c].duration \in Nat /\ Definition[c].damage \in Nat
BY CatalogAssumption

LEMMA RegainOK == ASSUME NEW h, HandOK(h) PROVE HandOK(Regain(h)) /\ Regain(h).cards = h.cards
<1> DEFINE energy == IF h.energy + 1 <= MaxEnergy THEN h.energy + 1 ELSE MaxEnergy
<1>1. h \in Hands /\ energy \in 0..MaxEnergy
  BY CatalogFacts DEF HandOK, Hands
<1>2. Regain(h) = [h EXCEPT !.energy = energy]
  BY DEF Regain
<1> HIDE DEF energy
<1> QED  BY <1>1, <1>2 DEF HandOK, Hands

LEMMA DrawOK == ASSUME NEW h, HandOK(h) PROVE HandOK(DrawServerCard(h))
<1>1. CASE ~CanDraw(h)
  BY <1>1 DEF DrawServerCard
<1>2. CASE CanDraw(h)
  <2> DEFINE next == h.deck[(h.cursor % Len(h.deck)) + 1]
             cards == Append(h.cards, next)
  <2>1. /\ h \in Hands /\ h.cards \in Seq(Cards) /\ h.deck \in Seq(Cards) /\ h.cursor \in Nat
        /\ h.deck # << >> /\ Len(h.cards) < HandLimit
    BY <1>2 DEF HandOK, Hands, CanDraw
  <2>2. Len(h.deck) \in Nat \ {0} /\ Len(h.cards) \in Nat
    BY <2>1, LenProperties, EmptySeq
  <2>3. h.cursor % Len(h.deck) \in 0 .. Len(h.deck) - 1
    BY <2>1, <2>2
  <2>4. (h.cursor % Len(h.deck)) + 1 \in 1 .. Len(h.deck)
    BY <2>2, <2>3
  <2>5. next \in Cards
    BY <2>1, <2>4, ElementOfSeq
  <2> HIDE DEF next
  <2>6. cards \in Seq(Cards) /\ Len(cards) = Len(h.cards) + 1
    BY <2>1, <2>5, AppendProperties
  <2>7. DrawServerCard(h) = [h EXCEPT !.cards = cards, !.cursor = @ + 1]
    BY <1>2 DEF DrawServerCard, next
  <2> HIDE DEF cards
  <2> DEFINE d == DrawServerCard(h)
  <2>8. /\ d.cards = cards /\ d.deck = h.deck /\ d.cursor = h.cursor + 1
        /\ d.energy = h.energy /\ d.cooling = h.cooling
        /\ d = [cards |-> d.cards, deck |-> d.deck, cursor |-> d.cursor,
                energy |-> d.energy, cooling |-> d.cooling]
    BY <2>1, <2>7 DEF Hands
  <2>9. h.cursor + 1 \in Nat /\ h.energy \in 0..MaxEnergy /\ h.cooling \in [Cards -> Nat]
    BY <2>1 DEF Hands
  <2> HIDE DEF d
  <2>10. d \in Hands
    BY <2>1, <2>6, <2>8, <2>9 DEF Hands
  <2> QED  BY <2>1, <2>2, <2>6, <2>8, <2>10, CatalogFacts DEF HandOK, d
<1> QED  BY <1>1, <1>2

LEMMA Removed ==
  ASSUME NEW s \in Seq(Cards), NEW i \in 1..Len(s)
  PROVE  RemoveAt(s, i) \in Seq(Cards) /\ Len(RemoveAt(s, i)) = Len(s) - 1
<1>1. Len(s) \in Nat /\ \A k \in 1..Len(s) : s[k] \in Cards
  BY LenProperties, ElementOfSeq
<1>2. SubSeq(s, 1, i - 1) \in Seq(Cards) /\ Len(SubSeq(s, 1, i - 1)) = i - 1
  <2>1. /\ 1 \in Int /\ i - 1 \in Int /\ \A k \in 1 .. i - 1 : s[k] \in Cards
        /\ (IF 1 <= i - 1 THEN (i - 1) - 1 + 1 ELSE 0) = i - 1
    BY <1>1
  <2> QED  BY <2>1, SubSeqProperties
<1>3. SubSeq(s, i + 1, Len(s)) \in Seq(Cards) /\ Len(SubSeq(s, i + 1, Len(s))) = Len(s) - i
  <2>1. /\ i + 1 \in Int /\ Len(s) \in Int /\ \A k \in i + 1 .. Len(s) : s[k] \in Cards
        /\ (IF i + 1 <= Len(s) THEN Len(s) - (i + 1) + 1 ELSE 0) = Len(s) - i
    BY <1>1
  <2> QED  BY <2>1, SubSeqProperties
<1> DEFINE before == SubSeq(s, 1, i - 1)
           after == SubSeq(s, i + 1, Len(s))
<1>4. before \o after \in Seq(Cards) /\ Len(before \o after) = Len(before) + Len(after)
  BY <1>2, <1>3, ConcatProperties
<1>5. RemoveAt(s, i) = before \o after
  BY DEF RemoveAt
<1>6. Len(before) = i - 1 /\ Len(after) = Len(s) - i
  BY <1>2, <1>3
<1> HIDE DEF before, after
<1>7. Len(before \o after) = Len(s) - 1
  BY <1>1, <1>4, <1>6
<1> QED  BY <1>4, <1>5, <1>7

LEMMA CastOK ==
  ASSUME NEW h, HandOK(h), NEW slot, NEW t \in Nat, CastAccepted(h, slot, t)
  PROVE  HandOK(ApplyCast(h, slot, t)) /\ CardAt(h, slot) \in Cards
<1> DEFINE card == CardAt(h, slot)
           cards == RemoveAt(h.cards, slot + 1)
           paid == [h EXCEPT !.energy = @ - Definition[card].cost,
                             !.cooling[card] = t + Definition[card].cooldown,
                             !.cards = cards]
<1>1. /\ h \in Hands /\ h.cards \in Seq(Cards) /\ Len(h.cards) <= HandLimit /\ h.energy \in 0..MaxEnergy
      /\ h.cooling \in [Cards -> Nat]
  BY DEF HandOK, Hands
<1>2. Len(h.cards) \in Nat
  BY <1>1, LenProperties
<1>3. slot + 1 \in 1..Len(h.cards) /\ h.energy >= Definition[card].cost
  BY <1>2 DEF CastAccepted, CardAt
<1>4. card \in Cards
  BY <1>1, <1>3, ElementOfSeq DEF CardAt
<1>5. cards \in Seq(Cards) /\ Len(cards) = Len(h.cards) - 1
  BY <1>1, <1>3, Removed
<1>6. ApplyCast(h, slot, t) = DrawServerCard(paid)
  BY DEF ApplyCast
<1> HIDE DEF card, cards
<1>7. h.energy - Definition[card].cost \in 0..MaxEnergy /\ t + Definition[card].cooldown \in Nat
  <2> DEFINE cost == Definition[card].cost
             pause == Definition[card].cooldown
  <2>1. cost \in Nat /\ pause \in Nat /\ h.energy >= cost /\ h.energy \in 0..MaxEnergy /\ MaxEnergy \in Nat
    BY <1>1, <1>3, <1>4, CatalogFacts
  <2> HIDE DEF cost, pause
  <2>2. h.energy - cost \in 0..MaxEnergy /\ t + pause \in Nat
    BY <2>1
  <2> QED  BY <2>2 DEF cost, pause
<1>8. paid \in Hands /\ paid.cards = cards
  BY <1>1, <1>4, <1>5, <1>7 DEF Hands
<1> HIDE DEF paid
<1>9. HandOK(paid)
  BY <1>1, <1>2, <1>5, <1>8, CatalogFacts DEF HandOK
<1> QED  BY <1>4, <1>6, <1>9, DrawOK DEF card

LEMMA DealtOK ==
  ASSUME NEW p \in Players
  PROVE  HandOK(DealtHand(Dealt(p), Decks[p], StartEnergy))
<1> DEFINE size == Least(DealtSize, Len(Decks[p]))
           h == DealtHand(Dealt(p), Decks[p], StartEnergy)
<1>1. /\ Decks[p] \in Seq(Cards) /\ DealtSize \in Nat /\ DealtSize <= HandLimit
      /\ StartEnergy \in 0..MaxEnergy
  BY RaceAssumption, CatalogFacts
<1>2. Len(Decks[p]) \in Nat /\ \A k \in 1..Len(Decks[p]) : Decks[p][k] \in Cards
  BY <1>1, LenProperties, ElementOfSeq
<1>3. size \in Nat /\ size <= DealtSize /\ size <= Len(Decks[p])
  BY <1>1, <1>2 DEF Least
<1>4. Dealt(p) = SubSeq(Decks[p], 1, size)
  BY DEF Dealt
<1> HIDE DEF size
<1>5. /\ 1 \in Int /\ size \in Int /\ \A k \in 1..size : Decks[p][k] \in Cards
      /\ (IF 1 <= size THEN size - 1 + 1 ELSE 0) = size
  BY <1>2, <1>3
<1>6. Dealt(p) \in Seq(Cards) /\ Len(Dealt(p)) = size
  BY <1>4, <1>5, SubSeqProperties
<1>7. h.cards = Dealt(p) /\ h \in Hands
  BY <1>1, <1>3, <1>6 DEF DealtHand, Hands
<1> HIDE DEF h
<1>8. HandOK(h)
  BY <1>1, <1>3, <1>6, <1>7, CatalogFacts DEF HandOK
<1> QED  BY <1>8 DEF h

LEMMA NoHandOK == HandOK(NoHand)
<1>1. /\ NoHand = [cards |-> << >>, deck |-> << >>, cursor |-> 0, energy |-> 0, cooling |-> [c \in Cards |-> 0]]
      /\ << >> \in Seq(Cards) /\ Len(<< >>) = 0
  BY EmptySeq DEF NoHand, DealtHand
<1> QED  BY <1>1, CatalogFacts DEF HandOK, Hands

-----------------------------------------------------------------------------
(* What holds between the calls of a race.                                 *)
RaceTypes ==
  /\ tick \in 0..MaxTick /\ online \in [Players -> BOOLEAN]
  /\ boss \in [Players -> Copies] /\ told \in [Players -> Nat]
  /\ ship \in [Players -> Ships] /\ hand \in [Players -> Hands]

HandsOK == \A p \in Players : HandOK(hand[p])

Lost(p) == Lives - ship[p].lives

BooksOK ==
  \A p \in Players : /\ Honest(boss[p], Lost(p), told[p])
                     /\ Mechanics /\ boss[p].hp = 0 => boss[p].owed = 0

RaceInv == RaceTypes /\ HandsOK /\ BooksOK /\ WinnerIsFair

LEMMA PlayerFacts == First \in Players /\ Second \in Players /\ First # Second /\ Nobody \notin Players
BY RaceAssumption DEF Players

LEMMA ShipFacts ==
  ASSUME RaceInv, NEW p \in Players
  PROVE  /\ ship[p] \in Ships /\ ship[p].lives \in 0..Lives /\ ship[p].bombs \in 0..Bombs
         /\ ship[p].safe \in Nat /\ tick \in Nat /\ Lost(p) \in Nat
         /\ boss[p] \in Copies /\ told[p] \in Nat
BY Numbers DEF RaceInv, RaceTypes, Ships, Lost

LEMMA PlayedCard ==
  ASSUME RaceInv, NEW p \in Players, Casts(p)
  PROVE  /\ CardPlayed(p).damage \in Nat
         /\ CardPlayed(p).duration \in Nat /\ CardPlayed(p) = Definition[CardAt(hand[p], CastSlot(p))]
         /\ CardAt(hand[p], CastSlot(p)) \in Cards
         /\ HandOK(ApplyCast(Regain(hand[p]), CastSlot(p), tick + 1))
<1>1. HandOK(hand[p]) /\ tick + 1 \in Nat
  BY ShipFacts DEF RaceInv, HandsOK
<1>2. HandOK(Regain(hand[p])) /\ Regain(hand[p]).cards = hand[p].cards
  BY <1>1, RegainOK
<1>3. CastAccepted(Regain(hand[p]), CastSlot(p), tick + 1)
  BY DEF Casts
<1>4. /\ HandOK(ApplyCast(Regain(hand[p]), CastSlot(p), tick + 1))
      /\ CardAt(Regain(hand[p]), CastSlot(p)) \in Cards
  BY <1>1, <1>2, <1>3, CastOK
<1>5. CardAt(Regain(hand[p]), CastSlot(p)) = CardAt(hand[p], CastSlot(p))
  BY <1>2 DEF CardAt
<1> QED  BY <1>4, <1>5, CatalogFacts DEF CardPlayed

LEMMA TurnBoss ==
  ASSUME RaceInv, NEW p \in Players
  PROVE  Honest(BossAfterTurn(p), Lost(p), told[p])
<1> DEFINE bombed == IF Drops(p) THEN Strike(boss[p], BombDamage) ELSE boss[p]
           worn == IF ~Mechanics /\ Alive(p) THEN Chip(bombed, TriggerDamage(p)) ELSE bombed
<1>1. Honest(boss[p], Lost(p), told[p]) /\ Lost(p) \in Nat /\ told[p] \in Nat
  BY ShipFacts DEF RaceInv, BooksOK
<1>2. Honest(bombed, Lost(p), told[p])
  BY <1>1, StrikeHonest, Numbers
<1> HIDE DEF bombed
<1>3. TriggerDamage(p) \in Nat
  BY Numbers DEF TriggerDamage
<1>4. Honest(worn, Lost(p), told[p])
  BY <1>2, <1>3, ChipHonest
<1>5. BossAfterTurn(p) = IF ~online[p] THEN boss[p]
                         ELSE IF Casts(p) THEN Strike(worn, CardPlayed(p).damage) ELSE worn
  BY DEF BossAfterTurn, bombed
<1> HIDE DEF worn
<1> QED  BY <1>1, <1>4, <1>5, PlayedCard, StrikeHonest

LEMMA TurnShip ==
  ASSUME RaceInv, NEW p \in Players, tick < MaxTick
  PROVE  /\ ShipAfterTurn(p) \in Ships /\ ShipAfterTurn(p).lives = ship[p].lives
         /\ ShipAfterTurn(p).safe = ship[p].safe \/ ShipAfterTurn(p).safe >= tick + 1
<1> DEFINE t == tick + 1
           bombed == IF Drops(p) THEN [ship[p] EXCEPT !.bombs = @ - 1, !.safe = t + Mercy] ELSE ship[p]
           fired == IF Fires(p) THEN [bombed EXCEPT !.fired = t] ELSE bombed
           ward == ExpiresTick(CardAt(hand[p], CastSlot(p)), t)
<1>1. ship[p] \in Ships /\ ship[p].bombs \in 0..Bombs /\ t \in 0..MaxTick /\ t \in Nat /\ t + Mercy \in Nat
      /\ t + Mercy >= t
  BY ShipFacts, Numbers
<1> HIDE DEF t
<1>2. bombed \in Ships /\ bombed.lives = ship[p].lives /\ bombed.safe \in {ship[p].safe, t + Mercy}
  <2>1. CASE Drops(p)
    <3>1. ship[p].bombs - 1 \in 0..Bombs
      BY <1>1, <2>1, Numbers DEF Drops
    <3> QED  BY <1>1, <2>1, <3>1 DEF Ships
  <2>2. CASE ~Drops(p)
    BY <1>1, <2>2
  <2> QED  BY <2>1, <2>2
<1> HIDE DEF bombed
<1>3. fired \in Ships /\ fired.lives = bombed.lives /\ fired.safe = bombed.safe
  BY <1>1, <1>2 DEF Ships
<1> HIDE DEF fired
<1>4. Casts(p) => ward \in Nat /\ ward >= t
  BY <1>1, PlayedCard DEF ExpiresTick
<1>5. ShipAfterTurn(p) = IF ~online[p] THEN ship[p]
                         ELSE IF Casts(p) /\ CardPlayed(p).kind = "invulnerable"
                         THEN [fired EXCEPT !.safe = ward] ELSE fired
  BY DEF ShipAfterTurn, bombed, fired, t
<1> HIDE DEF ward
<1>6. /\ ShipAfterTurn(p) \in Ships /\ ShipAfterTurn(p).lives = ship[p].lives
      /\ ShipAfterTurn(p).safe \in {ship[p].safe, t + Mercy} \/ ShipAfterTurn(p).safe >= t
  BY <1>1, <1>2, <1>3, <1>4, <1>5 DEF Ships
<1> QED  BY <1>1, <1>6 DEF t

LEMMA TurnHand ==
  ASSUME RaceInv, NEW p \in Players
  PROVE  HandOK(HandAfterTurn(p))
<1> DEFINE regained == IF seeded[p] THEN Regain(hand[p]) ELSE hand[p]
           cast == IF Casts(p) THEN ApplyCast(regained, CastSlot(p), tick + 1) ELSE regained
<1>1. HandOK(hand[p])
  BY DEF RaceInv, HandsOK
<1>2. HandOK(regained)
  BY <1>1, RegainOK
<1>3. Casts(p) => regained = Regain(hand[p])
  BY DEF Casts
<1> HIDE DEF regained
<1>4. HandOK(cast)
  BY <1>2, <1>3, PlayedCard
<1> HIDE DEF cast
<1>5. HandAfterTurn(p) = IF ~online[p] THEN hand[p]
                         ELSE IF seeded[p] /\ Real(p) /\ Intent(p).draw THEN DrawServerCard(cast) ELSE cast
  BY DEF HandAfterTurn, cast, regained
<1> QED  BY <1>1, <1>4, <1>5, DrawOK

-----------------------------------------------------------------------------
(* What a tick of the fight does to one player: shots hit, perhaps a       *)
(* bullet does, and perhaps a row is told.                                 *)
Vulnerable(p) == Mechanics /\ online[p] /\ Alive(p) /\ tick + 1 > ShipAfterTurn(p).safe

Hurt(p, hits, struck) ==
  LET copy == Strike(BossAfterTurn(p), hits * ShotDamage)
  IN  IF struck THEN [copy EXCEPT !.touched = TRUE] ELSE copy

HitShip(p, struck) ==
  IF struck THEN [ShipAfterTurn(p) EXCEPT !.lives = @ - 1, !.safe = tick + 1 + Mercy]
  ELSE ShipAfterTurn(p)

LEMMA OutcomeShape ==
  ASSUME NEW p, NEW field, NEW o \in Outcomes(p, field)
  PROVE  \E hits \in 0..InFlight(p), struck \in BOOLEAN :
           /\ struck => Vulnerable(p)
           /\ o.struck = struck /\ o.copy = Hurt(p, hits, struck)
<1>1. PICK hits \in 0..InFlight(p), b \in Advanced(field, p) :
        LET copy == Strike(BossAfterTurn(p), hits * ShotDamage)
            moved == IF copy.phase = BossAfterTurn(p).phase THEN b
                     ELSE [live |-> 0, fading |-> b.fading + b.live]
        IN  o \in {[copy |-> IF struck THEN [copy EXCEPT !.touched = TRUE] ELSE copy,
                    bullets |-> moved, struck |-> struck, shots |-> left] :
                     struck \in {s \in BOOLEAN : s => MayBeHit(p, moved.live)},
                     left \in 0 .. InFlight(p) - hits}
  BY DEF Outcomes
<1> DEFINE copy == Strike(BossAfterTurn(p), hits * ShotDamage)
           moved == IF copy.phase = BossAfterTurn(p).phase THEN b
                    ELSE [live |-> 0, fading |-> b.fading + b.live]
<1>2. PICK struck \in {s \in BOOLEAN : s => MayBeHit(p, moved.live)}, left \in 0 .. InFlight(p) - hits :
        o = [copy |-> IF struck THEN [copy EXCEPT !.touched = TRUE] ELSE copy,
             bullets |-> moved, struck |-> struck, shots |-> left]
  BY <1>1
<1>3. struck \in BOOLEAN /\ (struck => Vulnerable(p))
  BY <1>2 DEF MayBeHit, Vulnerable
<1>4. o.struck = struck /\ o.copy = Hurt(p, hits, struck)
  BY <1>2 DEF Hurt
<1> QED  BY <1>3, <1>4

LEMMA FightShape ==
  ASSUME Fight, NEW p \in Players
  PROVE  \E hits \in 0..InFlight(p), struck \in BOOLEAN :
           /\ struck => Vulnerable(p)
           /\ boss'[p] = IF Tells(Hurt(p, hits, struck)) THEN [Hurt(p, hits, struck) EXCEPT !.owed = 0]
                        ELSE Hurt(p, hits, struck)
           /\ told'[p] = told[p] + (IF Tells(Hurt(p, hits, struck)) THEN Hurt(p, hits, struck).owed ELSE 0)
           /\ ship'[p] = HitShip(p, struck)
<1>1. PICK field \in AfterTurns : \E a \in Outcomes(First, field), b \in Outcomes(Second, field) :
        LET of(q) == IF q = First THEN a ELSE b
            copy(q) == of(q).copy
        IN  /\ shots' = [q \in Players |-> of(q).shots]
            /\ bullets' = [q \in Players |-> of(q).bullets]
            /\ boss' = [q \in Players |-> IF Tells(copy(q)) THEN [copy(q) EXCEPT !.owed = 0] ELSE copy(q)]
            /\ told' = [q \in Players |-> told[q] + (IF Tells(copy(q)) THEN copy(q).owed ELSE 0)]
            /\ ship' = [q \in Players |->
                          IF of(q).struck
                          THEN [ShipAfterTurn(q) EXCEPT !.lives = @ - 1, !.safe = tick + 1 + Mercy]
                          ELSE ShipAfterTurn(q)]
  BY Zenon DEF Fight
<1>2. PICK a \in Outcomes(First, field), b \in Outcomes(Second, field) :
        LET of(q) == IF q = First THEN a ELSE b
            copy(q) == of(q).copy
        IN  /\ boss' = [q \in Players |-> IF Tells(copy(q)) THEN [copy(q) EXCEPT !.owed = 0] ELSE copy(q)]
            /\ told' = [q \in Players |-> told[q] + (IF Tells(copy(q)) THEN copy(q).owed ELSE 0)]
            /\ ship' = [q \in Players |->
                          IF of(q).struck
                          THEN [ShipAfterTurn(q) EXCEPT !.lives = @ - 1, !.safe = tick + 1 + Mercy]
                          ELSE ShipAfterTurn(q)]
  BY <1>1
<1> DEFINE o == IF p = First THEN a ELSE b
<1>3. o \in Outcomes(p, field)
  BY <1>2 DEF Players
<1>4. /\ boss'[p] = IF Tells(o.copy) THEN [o.copy EXCEPT !.owed = 0] ELSE o.copy
      /\ told'[p] = told[p] + (IF Tells(o.copy) THEN o.copy.owed ELSE 0)
      /\ ship'[p] = IF o.struck
                    THEN [ShipAfterTurn(p) EXCEPT !.lives = @ - 1, !.safe = tick + 1 + Mercy]
                    ELSE ShipAfterTurn(p)
  BY <1>2
<1> HIDE DEF o
<1>5. PICK hits \in 0..InFlight(p), struck \in BOOLEAN :
        (struck => Vulnerable(p)) /\ o.struck = struck /\ o.copy = Hurt(p, hits, struck)
  BY <1>3, OutcomeShape
<1>6. ship'[p] = HitShip(p, struck)
  BY <1>4, <1>5 DEF HitShip
<1> QED  BY <1>4, <1>5, <1>6

LEMMA FightDomains ==
  ASSUME Fight
  PROVE  /\ boss' = [p \in Players |-> boss'[p]] /\ told' = [p \in Players |-> told'[p]]
         /\ ship' = [p \in Players |-> ship'[p]]
BY DEF Fight

LEMMA FightKeeps ==
  ASSUME RaceInv, Fight, NEW p \in Players, tick < MaxTick
  PROVE  /\ boss'[p] \in Copies /\ told'[p] \in Nat /\ ship'[p] \in Ships
         /\ Honest(boss'[p], Lives - ship'[p].lives, told'[p])
         /\ Mechanics /\ boss'[p].hp = 0 => boss'[p].owed = 0
         /\ ship'[p].lives # ship[p].lives =>
              /\ ship'[p].lives = ship[p].lives - 1
              /\ tick + 1 > ship[p].safe
              /\ ship'[p].safe = tick + 1 + Mercy
<1>1. PICK hits \in 0..InFlight(p), struck \in BOOLEAN :
        /\ struck => Vulnerable(p)
        /\ boss'[p] = IF Tells(Hurt(p, hits, struck)) THEN [Hurt(p, hits, struck) EXCEPT !.owed = 0]
                     ELSE Hurt(p, hits, struck)
        /\ told'[p] = told[p] + (IF Tells(Hurt(p, hits, struck)) THEN Hurt(p, hits, struck).owed ELSE 0)
        /\ ship'[p] = HitShip(p, struck)
  BY FightShape
<1> DEFINE hurt == Hurt(p, hits, struck)
           struckCopy == Strike(BossAfterTurn(p), hits * ShotDamage)
<1>2. /\ ship[p].lives \in 0..Lives /\ tick \in Nat /\ Lost(p) \in Nat /\ told[p] \in Nat
      /\ ship[p].safe \in Nat /\ Lives \in Nat /\ Mercy \in Nat
  BY ShipFacts, Numbers
<1>3. hits * ShotDamage \in Nat
  <2>1. hits \in Nat /\ ShotDamage \in Nat
    BY Numbers
  <2> QED  BY <2>1
<1>4. Honest(struckCopy, Lost(p), told[p])
  BY <1>2, <1>3, TurnBoss, StrikeHonest
<1>5. /\ ShipAfterTurn(p) \in Ships /\ ShipAfterTurn(p).lives = ship[p].lives
      /\ ShipAfterTurn(p).safe = ship[p].safe \/ ShipAfterTurn(p).safe >= tick + 1
      /\ ShipAfterTurn(p).safe \in Nat
  BY TurnShip DEF Ships
<1>6. CASE struck
  <2>1. Alive(p) /\ tick + 1 > ShipAfterTurn(p).safe
    BY <1>1, <1>6 DEF Vulnerable
  <2>2. ship[p].lives > 0 /\ ship[p].lives - 1 \in 0..Lives /\ tick + 1 + Mercy \in Nat
    BY <1>2, <2>1 DEF Alive
  <2>3. ship'[p] = [ShipAfterTurn(p) EXCEPT !.lives = @ - 1, !.safe = tick + 1 + Mercy]
    BY <1>1, <1>6 DEF HitShip
  <2>4. ship'[p] \in Ships /\ ship'[p].lives = ship[p].lives - 1 /\ ship'[p].safe = tick + 1 + Mercy
    BY <1>5, <2>2, <2>3 DEF Ships
  <2>5. tick + 1 > ship[p].safe
    BY <1>2, <1>5, <2>1
  <2>6. Lives - ship'[p].lives = Lost(p) + 1
    BY <1>2, <2>4 DEF Lost
  <2>7. Honest(hurt, Lives - ship'[p].lives, told[p])
    <3>1. hurt = [struckCopy EXCEPT !.touched = TRUE]
      BY <1>6 DEF Hurt
    <3> QED  BY <1>2, <1>4, <2>6, <3>1, TouchHonest
  <2> HIDE DEF hurt
  <2>8. Tells(hurt) => /\ told[p] + hurt.owed \in Nat
                       /\ Honest([hurt EXCEPT !.owed = 0], Lives - ship'[p].lives, told[p] + hurt.owed)
    BY <1>2, <2>7, TellHonest
  <2>9. Honest(boss'[p], Lives - ship'[p].lives, told'[p]) /\ told'[p] \in Nat
    BY <1>1, <1>2, <2>7, <2>8 DEF hurt
  <2>10. Mechanics /\ boss'[p].hp = 0 => boss'[p].owed = 0
    <3>1. hurt \in Copies
      BY <2>7 DEF Honest
    <3>2. boss'[p] = IF Tells(hurt) THEN [hurt EXCEPT !.owed = 0] ELSE hurt
      BY <1>1 DEF hurt
    <3> QED  BY <3>1, <3>2 DEF Copies, Tells
  <2> QED  BY <2>4, <2>5, <2>9, <2>10 DEF Honest
<1>7. CASE ~struck
  <2>1. ship'[p] = ShipAfterTurn(p) /\ Lives - ship'[p].lives = Lost(p)
    BY <1>1, <1>5, <1>7 DEF HitShip, Lost
  <2>2. Honest(hurt, Lives - ship'[p].lives, told[p])
    BY <1>4, <1>7, <2>1 DEF Hurt
  <2> HIDE DEF hurt
  <2>3. Tells(hurt) => /\ told[p] + hurt.owed \in Nat
                       /\ Honest([hurt EXCEPT !.owed = 0], Lives - ship'[p].lives, told[p] + hurt.owed)
    BY <1>2, <2>2, TellHonest
  <2>4. Honest(boss'[p], Lives - ship'[p].lives, told'[p]) /\ told'[p] \in Nat
    BY <1>1, <1>2, <2>2, <2>3 DEF hurt
  <2>5. Mechanics /\ boss'[p].hp = 0 => boss'[p].owed = 0
    <3>1. hurt \in Copies
      BY <2>2 DEF Honest
    <3>2. boss'[p] = IF Tells(hurt) THEN [hurt EXCEPT !.owed = 0] ELSE hurt
      BY <1>1 DEF hurt
    <3> QED  BY <3>1, <3>2 DEF Copies, Tells
  <2> QED  BY <1>5, <2>1, <2>4, <2>5 DEF Honest
<1> QED  BY <1>6, <1>7

-----------------------------------------------------------------------------
LEMMA RaceInit == Init => RaceInv
<1> SUFFICES ASSUME Init PROVE RaceInv
  OBVIOUS
<1>1. FreshBoss \in Copies /\ FreshBoss.hp = BossMaxHp /\ FreshBoss.dealt = 0 /\ FreshBoss.owed = 0
      /\ FreshBoss.phase = 0 /\ FreshBoss.got = 0 /\ (Mechanics => FreshBoss.total = 1) /\ ~FreshBoss.touched
  BY Numbers DEF FreshBoss, Copies
<1>2. ASSUME NEW p \in Players
      PROVE  boss[p] = FreshBoss /\ told[p] = 0 /\ Lost(p) = 0 /\ hand[p] = NoHand
  BY Numbers DEF Init, Lost
<1>3. Honest(FreshBoss, 0, 0)
  BY <1>1, Numbers DEF Honest, Ended, Spoiled
<1>4. BooksOK
  BY <1>1, <1>2, <1>3, Numbers DEF BooksOK
<1>5. HandsOK
  BY <1>2, NoHandOK DEF HandsOK
<1>6. WinnerIsFair
  BY <1>1, <1>2, Numbers DEF Init, WinnerIsFair
<1>7. RaceTypes
  <2>1. ship \in [Players -> Ships]
    BY Numbers DEF Init, Ships
  <2>2. online \in [Players -> BOOLEAN]
    BY DEF Init
  <2>3. tick \in 0..MaxTick /\ told \in [Players -> Nat]
    BY Numbers DEF Init
  <2>4. boss \in [Players -> Copies]
    BY <1>1 DEF Init
  <2>5. hand \in [Players -> Hands]
    BY NoHandOK DEF Init, HandOK
  <2> QED  BY <2>1, <2>2, <2>3, <2>4, <2>5 DEF RaceTypes
<1> QED  BY <1>4, <1>5, <1>6, <1>7 DEF RaceInv

(* What does not touch the fight leaves its books alone.                   *)
LEMMA QuietStep ==
  ASSUME RaceInv, UNCHANGED <<ruleset, state, winner, boss, told>>,
         tick' \in 0..MaxTick, online' \in [Players -> BOOLEAN],
         ship' \in [Players -> Ships], \A p \in Players : ship'[p].lives = ship[p].lives,
         hand' \in [Players -> Hands], \A p \in Players : HandOK(hand'[p])
  PROVE  RaceInv'
<1>1. RaceTypes'
  BY DEF RaceInv, RaceTypes
<1>2. HandsOK'
  BY DEF HandsOK, HandOK
<1>3. BooksOK'
  BY DEF RaceInv, BooksOK, Honest, Lost, Ended, Spoiled, Mechanics
<1>4. WinnerIsFair'
  BY DEF RaceInv, WinnerIsFair
<1> QED  BY <1>1, <1>2, <1>3, <1>4 DEF RaceInv

LEMMA StepKeeps == ASSUME RaceInv, Step PROVE RaceInv'
<1>1. /\ tick < MaxTick /\ Fight /\ tick' = tick + 1 /\ ruleset' = ruleset /\ online' = online
      /\ winner' = Winner /\ state' = IF winner' = Nobody THEN "running" ELSE "finished"
      /\ hand' = [p \in Players |-> HandAfterTurn(p)]
  BY DEF Step, rosterVars
<1>2. ASSUME NEW p \in Players
      PROVE  /\ boss'[p] \in Copies /\ told'[p] \in Nat /\ ship'[p] \in Ships
             /\ Honest(boss'[p], Lives - ship'[p].lives, told'[p])
             /\ Mechanics /\ boss'[p].hp = 0 => boss'[p].owed = 0
  BY <1>1, FightKeeps
<1>3. HandsOK' /\ hand' \in [Players -> Hands]
  <2>1. \A p \in Players : HandOK(HandAfterTurn(p))
    BY TurnHand
  <2> QED  BY <1>1, <2>1 DEF HandsOK, HandOK
<1>4. BooksOK'
  BY <1>1, <1>2 DEF BooksOK, Honest, Lost, Ended, Spoiled, Mechanics
<1>5. RaceTypes'
  <2>1. boss' \in [Players -> Copies] /\ told' \in [Players -> Nat] /\ ship' \in [Players -> Ships]
    BY <1>1, <1>2, FightDomains
  <2>2. tick' \in 0..MaxTick
    BY <1>1, Numbers DEF RaceInv, RaceTypes
  <2> QED  BY <1>1, <1>3, <2>1, <2>2 DEF RaceInv, RaceTypes
<1>6. WinnerIsFair'
  <2>1. boss'[First].hp \in Nat /\ boss'[Second].hp \in Nat
    BY <1>2, PlayerFacts, Numbers DEF Copies
  <2>2. winner' = IF boss'[First].hp = 0 THEN First ELSE IF boss'[Second].hp = 0 THEN Second ELSE Nobody
    BY <1>1 DEF Winner
  <2> QED  BY <1>1, <2>1, <2>2, PlayerFacts DEF WinnerIsFair, Players
<1> QED  BY <1>3, <1>4, <1>5, <1>6 DEF RaceInv

LEMMA RaceStep == RaceInv /\ [Next]_raceVars => RaceInv'
<1> SUFFICES ASSUME RaceInv, [Next]_raceVars PROVE RaceInv'
  OBVIOUS
<1>0. /\ tick \in 0..MaxTick /\ online \in [Players -> BOOLEAN] /\ ship \in [Players -> Ships]
      /\ hand \in [Players -> Hands] /\ \A q \in Players : HandOK(hand[q])
  BY DEF RaceInv, RaceTypes, HandsOK
<1>1. ASSUME UNCHANGED <<ruleset, state, tick, winner, boss, told, ship, hand>>,
             online' \in [Players -> BOOLEAN]
      PROVE  RaceInv'
  BY <1>0, <1>1, QuietStep
<1>2. ASSUME NEW p \in Players, AddPlayer(p) PROVE RaceInv'
  <2>1. online' = [online EXCEPT ![p] = TRUE]
        /\ UNCHANGED <<ruleset, state, tick, winner, boss, told, ship, hand>>
    BY <1>2 DEF AddPlayer, fightVars, cardVars
  <2>2. online' \in [Players -> BOOLEAN]
    BY <1>0, <2>1
  <2> QED  BY <1>1, <2>1, <2>2
<1>3. ASSUME NEW p \in Players, NEW c \in BOOLEAN, SetPlayerConnected(p, c) PROVE RaceInv'
  <2>1. online' = [online EXCEPT ![p] = c]
        /\ UNCHANGED <<ruleset, state, tick, winner, boss, told, ship, hand>>
    BY <1>3 DEF SetPlayerConnected, fightVars, cardVars
  <2>2. online' \in [Players -> BOOLEAN]
    BY <1>0, <2>1
  <2> QED  BY <1>1, <2>1, <2>2
<1>4. ASSUME NEW p \in Players, NEW s \in Seeds, SeedHand(p, s) PROVE RaceInv'
  <2>1. /\ hand' = [hand EXCEPT ![p] = DealtHand(Dealt(p), Decks[p], StartEnergy)]
        /\ ship' = [ship EXCEPT ![p].safe = 0]
        /\ UNCHANGED <<ruleset, state, tick, winner, online, boss, told>>
    BY <1>4 DEF SeedHand, rosterVars
  <2>2. ship' \in [Players -> Ships] /\ \A q \in Players : ship'[q].lives = ship[q].lives
    BY <1>0, <2>1 DEF Ships
  <2>3. HandOK(DealtHand(Dealt(p), Decks[p], StartEnergy))
    BY DealtOK
  <2>4. hand' \in [Players -> Hands] /\ \A q \in Players : HandOK(hand'[q])
    BY <1>0, <2>1, <2>3 DEF HandOK
  <2>5. tick' \in 0..MaxTick /\ online' \in [Players -> BOOLEAN]
    BY <1>0, <2>1
  <2>6. UNCHANGED <<ruleset, state, winner, boss, told>>
    BY <2>1
  <2> QED  BY <2>2, <2>4, <2>5, <2>6, QuietStep
<1>5. ASSUME NEW p \in Players, NEW seq, NEW at, NEW i, SubmitInput(p, seq, at, i) PROVE RaceInv'
  BY <1>0, <1>1, <1>5 DEF SubmitInput, rosterVars, fightVars, cardVars
<1>6. CASE Step
  BY <1>6, StepKeeps
<1>7. CASE Wait
  <2>1. tick' = tick + 1 /\ tick < MaxTick
        /\ UNCHANGED <<ruleset, state, winner, online, boss, told, ship, hand>>
    BY <1>7 DEF Wait, rosterVars, fightVars, cardVars
  <2>2. tick' \in 0..MaxTick
    BY <1>0, <2>1, Numbers
  <2> QED  BY <1>0, <2>1, <2>2, QuietStep
<1>8. CASE UNCHANGED raceVars
  BY <1>0, <1>1, <1>8 DEF raceVars, rosterVars, fightVars, cardVars
<1> QED  BY <1>2, <1>3, <1>4, <1>5, <1>6, <1>7, <1>8 DEF Next, Tick

(* A hosted match is a race, or a race that stands still.                  *)
LEMMA HostedRaces == (HostedInit => Init) /\ ([HostedNext]_hostedVars => [Next]_raceVars)
BY DEF HostedInit, HostedNext, HostedRace, HostedCoop, hostedVars

(* What holds between the calls of a race holds in every hosted match.     *)
THEOREM RaceIsSound == HostedSpec => []RaceInv
BY HostedRaces, RaceInit, RaceStep, PTL DEF HostedSpec

(* What a copy of the Boss lost is what its player is credited with and    *)
(* what the clients are told, whatever damage, phases and cards there are. *)
THEOREM DamageIsAccounted == HostedSpec => []DamageAddsUp
<1>1. RaceInv => DamageAddsUp
  BY DEF RaceInv, BooksOK, Honest, DamageAddsUp
<1> QED  BY <1>1, RaceIsSound, PTL

(* Every phase that ended without a capture cost its player a life.        *)
THEOREM CapturesAreHonest == HostedSpec => []CapturesAreEarned
<1>1. ASSUME RaceInv, Mechanics, NEW p \in Players
      PROVE  /\ boss[p].total = boss[p].phase + 1
             /\ boss[p].got <= Ended(boss[p])
             /\ Ended(boss[p]) <= boss[p].got + Lives - ship[p].lives
  <2>1. /\ boss[p].got \in Nat /\ boss[p].phase \in Nat /\ boss[p].hp \in Nat /\ Lost(p) = Lives - ship[p].lives
        /\ ship[p].lives \in Nat /\ Lives \in Nat
    BY <1>1, ShipFacts, Numbers DEF Copies, Lost
  <2>2. Ended(boss[p]) \in Nat /\ Spoiled(boss[p]) \in Nat
    BY <2>1 DEF Ended, Spoiled
  <2> QED  BY <1>1, <2>1, <2>2 DEF RaceInv, BooksOK, Honest
<1>2. RaceInv => CapturesAreEarned
  BY <1>1 DEF CapturesAreEarned, Ended
<1> QED  BY <1>2, RaceIsSound, PTL

(* A finished race has the winner it should have.                          *)
THEOREM TheWinnerIsFair == HostedSpec => []WinnerIsFair
<1>1. RaceInv => WinnerIsFair
  BY DEF RaceInv
<1> QED  BY <1>1, RaceIsSound, PTL

(* A hand holds no more cards than its limit, only cards of the catalog,   *)
(* and its energy stays within bounds, however the cards are paid for.     *)
THEOREM HandsStayLegal == HostedSpec => []HandsOK
<1>1. RaceInv => HandsOK
  BY DEF RaceInv
<1> QED  BY <1>1, RaceIsSound, PTL

-----------------------------------------------------------------------------
(* A hit costs one life, and none is lost before the mercy time is over    *)
(* that the last hit, bomb or card has left.                               *)
THEOREM MercyAlwaysKept == HostedSpec => MercyIsKept
<1>1. ASSUME RaceInv, [Next]_raceVars, NEW p \in Players, ship'[p].lives # ship[p].lives
      PROVE  /\ ship'[p].lives = ship[p].lives - 1
             /\ tick' > ship[p].safe
             /\ ship'[p].safe = tick' + Mercy
  <2>1. ASSUME NEW q \in Players, NEW s \in Seeds, SeedHand(q, s) PROVE FALSE
    <3>1. ship' = [ship EXCEPT ![q].safe = 0] /\ ship \in [Players -> Ships]
      BY <1>1, <2>1 DEF SeedHand, RaceInv, RaceTypes
    <3> QED  BY <1>1, <3>1 DEF Ships
  <2>2. Step
    BY <1>1, <2>1
    DEF Next, Tick, Wait, AddPlayer, SetPlayerConnected, SubmitInput, raceVars, fightVars
  <2>3. tick' = tick + 1 /\ tick < MaxTick /\ Fight
    BY <2>2 DEF Step
  <2> QED  BY <1>1, <2>3, FightKeeps
<1>2. RaceInv /\ [Next]_raceVars =>
        [\A p \in Players : ship'[p].lives # ship[p].lives =>
           /\ ship'[p].lives = ship[p].lives - 1
           /\ tick' > ship[p].safe
           /\ ship'[p].safe = tick' + Mercy]_raceVars
  BY <1>1
<1> QED  BY <1>2, HostedRaces, RaceIsSound, PTL DEF HostedSpec, MercyIsKept

(* Two dead ships without shots and hands decide nothing any more.         *)
LEMMA DeadShip ==
  ASSUME RaceInv, Stalemate, Fight, tick < MaxTick, NEW p \in Players
  PROVE  boss'[p].hp = boss[p].hp
<1>1. Mechanics /\ ~Alive(p) /\ shots[p] = 0 /\ ~seeded[p]
  BY DEF Stalemate, Alive
<1>2. ~Drops(p) /\ ~Fires(p) /\ ~Casts(p)
  BY <1>1 DEF Drops, Fires, Casts
<1>3. BossAfterTurn(p) = boss[p]
  BY <1>1, <1>2 DEF BossAfterTurn
<1>4. InFlight(p) = 0
  BY <1>1, <1>2 DEF InFlight
<1>5. PICK hits \in 0..InFlight(p), struck \in BOOLEAN :
        /\ struck => Vulnerable(p)
        /\ boss'[p] = IF Tells(Hurt(p, hits, struck)) THEN [Hurt(p, hits, struck) EXCEPT !.owed = 0]
                     ELSE Hurt(p, hits, struck)
  BY FightShape
<1>6. ~struck /\ hits = 0
  BY <1>1, <1>4, <1>5 DEF Vulnerable
<1>7. boss[p] \in Copies /\ boss[p].hp \in Nat
  BY ShipFacts, Numbers DEF Copies
<1>8. Strike(boss[p], hits * ShotDamage) = boss[p]
  <2>1. hits * ShotDamage = 0
    BY <1>6, Numbers
  <2> QED  BY <1>7, <2>1 DEF Strike, Least
<1>9. Hurt(p, hits, struck) = boss[p]
  BY <1>3, <1>6, <1>8 DEF Hurt
<1> QED  BY <1>5, <1>7, <1>9 DEF Copies

(* A race in a stalemate stays undecided until a hand is dealt.            *)
THEOREM StalemateStands == HostedSpec => StalemateLasts
<1>1. ASSUME RaceInv, [Next]_raceVars, Stalemate
      PROVE  (\A p \in Players : boss'[p].hp = boss[p].hp) /\ state' = "running"
  <2>1. CASE Step
    <3>1. tick < MaxTick /\ Fight /\ winner' = Winner
          /\ state' = IF winner' = Nobody THEN "running" ELSE "finished"
      BY <2>1 DEF Step
    <3>2. \A p \in Players : boss'[p].hp = boss[p].hp
      BY <1>1, <3>1, DeadShip
    <3>3. winner = Nobody
      BY <1>1 DEF Stalemate, RaceInv, WinnerIsFair
    <3>4. \A p \in Players : boss[p].hp > 0
      BY <1>1, <3>3 DEF RaceInv, WinnerIsFair
    <3>5. winner' = Nobody
      BY <3>1, <3>2, <3>4, PlayerFacts DEF Winner
    <3> QED  BY <3>1, <3>2, <3>5
  <2>2. CASE ~Step
    <3>1. boss' = boss /\ state' = state
      BY <1>1, <2>2
      DEF Next, Tick, Wait, AddPlayer, SetPlayerConnected, SubmitInput, SeedHand, raceVars, fightVars
    <3> QED  BY <1>1, <3>1 DEF Stalemate
  <2> QED  BY <2>1, <2>2
<1>2. RaceInv /\ [Next]_raceVars =>
        [Stalemate => (\A p \in Players : boss'[p].hp = boss[p].hp) /\ state' = "running"]_raceVars
  BY <1>1
<1> QED  BY <1>2, HostedRaces, RaceIsSound, PTL DEF HostedSpec, StalemateLasts

-----------------------------------------------------------------------------
(* A card is played on an input that was filed for the very tick, and an   *)
(* input that is still filed can play one more.                            *)
Coming(p) == {i \in pending : i.player = p}

InputsPay ==
  /\ IsFiniteSet(pending) /\ lastSeq \in [Players -> Nat] /\ played \in [Players -> Nat]
  /\ \A p \in Players : played[p] + Cardinality(Coming(p)) <= lastSeq[p]

LEMMA ComingFacts ==
  ASSUME InputsPay, NEW p
  PROVE  IsFiniteSet(Coming(p)) /\ Cardinality(Coming(p)) \in Nat
BY FS_Subset, FS_CardinalityType DEF InputsPay, Coming

LEMMA FewerComing ==
  ASSUME InputsPay, NEW S, NEW p, S \subseteq Coming(p)
  PROVE  IsFiniteSet(S) /\ Cardinality(S) \in Nat /\ Cardinality(S) <= Cardinality(Coming(p))
BY ComingFacts, FS_Subset, FS_CardinalityType

LEMMA InputsInit == Init => InputsPay
<1> SUFFICES ASSUME Init PROVE InputsPay
  OBVIOUS
<1>1. pending = {} /\ lastSeq = [p \in Players |-> 0] /\ played = [p \in Players |-> 0]
  BY DEF Init
<1>2. \A p \in Players : Coming(p) = {}
  BY <1>1 DEF Coming
<1>3. \A p \in Players : played[p] + Cardinality(Coming(p)) <= lastSeq[p]
  BY <1>1, <1>2, FS_EmptySet
<1> QED  BY <1>1, <1>3, FS_EmptySet DEF InputsPay

LEMMA InputsStep == InputsPay /\ [Next]_raceVars => InputsPay'
<1> SUFFICES ASSUME InputsPay, [Next]_raceVars PROVE InputsPay'
  OBVIOUS
<1>0. /\ IsFiniteSet(pending) /\ lastSeq \in [Players -> Nat] /\ played \in [Players -> Nat]
      /\ \A p \in Players : played[p] + Cardinality(Coming(p)) <= lastSeq[p]
  BY DEF InputsPay
<1>1. ASSUME UNCHANGED <<pending, lastSeq, played>> PROVE InputsPay'
  BY <1>1 DEF InputsPay, Coming
<1>2. ASSUME NEW p \in Players, NEW seq \in 1..MaxSeq, NEW at \in 1..MaxTick, NEW intent,
             SubmitInput(p, seq, at, intent)
      PROVE  InputsPay'
  <2> DEFINE new == [tick |-> at, player |-> p, intent |-> intent]
             kept == {i \in pending : i.tick # at \/ i.player # p}
  <2>1. /\ pending' = kept \cup {new} /\ lastSeq' = [lastSeq EXCEPT ![p] = seq] /\ played' = played
        /\ seq > lastSeq[p] /\ seq \in Nat /\ new.player = p
    BY <1>2 DEF SubmitInput, cardVars
  <2>2. IsFiniteSet(kept) /\ IsFiniteSet(pending')
    <3>1. IsFiniteSet(kept)
      BY <1>0, FS_Subset
    <3> QED  BY <2>1, <3>1, FS_AddElement
  <2>3. ASSUME NEW q \in Players PROVE played'[q] + Cardinality(Coming(q)') <= lastSeq'[q]
    <3>1. CASE q # p
      <4>1. Coming(q)' \subseteq Coming(q)
        BY <2>1, <3>1 DEF Coming
      <4> QED  BY <1>0, <2>1, <3>1, <4>1, FewerComing, ComingFacts
    <3>2. CASE q = p
      <4> DEFINE rest == {i \in kept : i.player = p}
      <4>1. Coming(q)' = rest \cup {new}
        BY <2>1, <3>2 DEF Coming
      <4>2. rest \subseteq Coming(p)
        BY DEF Coming
      <4>3. IsFiniteSet(rest) /\ Cardinality(rest) \in Nat /\ Cardinality(rest) <= Cardinality(Coming(p))
        BY <4>2, FewerComing
      <4> HIDE DEF rest, new
      <4>4. Cardinality(rest \cup {new}) <= Cardinality(rest) + 1 /\ Cardinality(rest \cup {new}) \in Nat
        BY <4>3, FS_AddElement
      <4>5. played[p] + Cardinality(Coming(p)) <= lastSeq[p] /\ played[p] \in Nat /\ lastSeq[p] \in Nat
            /\ Cardinality(Coming(p)) \in Nat /\ lastSeq'[p] = seq
        BY <1>0, <2>1, ComingFacts
      <4> QED  BY <2>1, <3>2, <4>1, <4>3, <4>4, <4>5
    <3> QED  BY <3>1, <3>2
  <2>4. lastSeq' \in [Players -> Nat] /\ played' \in [Players -> Nat]
    BY <1>0, <2>1
  <2> QED  BY <2>2, <2>3, <2>4 DEF InputsPay
<1>3. CASE Step
  <2>1. /\ pending' = {i \in pending : i.tick # tick + 1} /\ lastSeq' = lastSeq
        /\ played' = [p \in Players |-> played[p] + (IF online[p] /\ Casts(p) THEN 1 ELSE 0)]
    BY <1>3 DEF Step
  <2>2. IsFiniteSet(pending')
    BY <1>0, <2>1, FS_Subset
  <2>3. ASSUME NEW p \in Players PROVE played'[p] + Cardinality(Coming(p)') <= lastSeq'[p]
    <3>1. played[p] + Cardinality(Coming(p)) <= lastSeq[p] /\ played[p] \in Nat /\ lastSeq[p] \in Nat
          /\ IsFiniteSet(Coming(p)) /\ Cardinality(Coming(p)) \in Nat
      BY <1>0, ComingFacts
    <3>2. CASE Casts(p)
      <4>1. PICK d : d \in pending /\ d.tick = tick + 1 /\ d.player = p
        BY <3>2 DEF Casts, Real, Due
      <4>2. d \in Coming(p) /\ Coming(p)' \subseteq Coming(p) \ {d}
        BY <2>1, <4>1 DEF Coming
      <4>3. IsFiniteSet(Coming(p) \ {d}) /\ Cardinality(Coming(p) \ {d}) = Cardinality(Coming(p)) - 1
        BY <3>1, <4>2, FS_RemoveElement
      <4>4. Cardinality(Coming(p)') <= Cardinality(Coming(p)) - 1 /\ Cardinality(Coming(p)') \in Nat
        BY <4>2, <4>3, FS_Subset, FS_CardinalityType
      <4>5. played'[p] \in {played[p], played[p] + 1}
        BY <2>1, <3>1
      <4> QED  BY <2>1, <3>1, <4>4, <4>5
    <3>3. CASE ~Casts(p)
      <4>1. Coming(p)' \subseteq Coming(p)
        BY <2>1 DEF Coming
      <4>2. Cardinality(Coming(p)') <= Cardinality(Coming(p)) /\ Cardinality(Coming(p)') \in Nat
        BY <4>1, FewerComing
      <4>3. played'[p] = played[p]
        BY <2>1, <3>1, <3>3
      <4> QED  BY <2>1, <3>1, <4>2, <4>3
    <3> QED  BY <3>2, <3>3
  <2>4. played' \in [Players -> Nat]
    BY <1>0, <2>1
  <2> QED  BY <1>0, <2>1, <2>2, <2>3, <2>4 DEF InputsPay
<1> QED
  BY <1>1, <1>2, <1>3
  DEF Next, Tick, Wait, AddPlayer, SetPlayerConnected, SeedHand, raceVars, inputVars, cardVars

(* No player plays more cards than inputs were accepted from that player.  *)
THEOREM HeldInputsPlayNothing == HostedSpec => []HeldInputPlaysNothing
<1>1. ASSUME InputsPay, NEW p \in Players PROVE played[p] <= lastSeq[p]
  <2>1. played[p] + Cardinality(Coming(p)) <= lastSeq[p] /\ played[p] \in Nat /\ lastSeq[p] \in Nat
        /\ Cardinality(Coming(p)) \in Nat
    BY <1>1, ComingFacts DEF InputsPay
  <2> QED  BY <2>1
<1>2. InputsPay => HeldInputPlaysNothing
  BY <1>1 DEF HeldInputPlaysNothing
<1> QED  BY <1>2, HostedRaces, InputsInit, InputsStep, PTL DEF HostedSpec

-----------------------------------------------------------------------------
(* The bullets of a tick: a card, a pattern or a split adds no more than   *)
(* the cap of their owner leaves room for.                                 *)
FieldOK(field) ==
  /\ field \in [Players -> [live : Nat, old : Nat, new : Nat]]
  /\ \A p \in Players : Own(field, p) <= BulletCap

BulletsOK ==
  /\ bullets \in [Players -> [live : 0..BulletCap, fading : 0..BulletCap]] /\ BulletsWithinCap
  /\ shots \in [Players -> 0 .. 2 * BulletCap]

LEMMA OwnFacts ==
  ASSUME NEW field, FieldOK(field), NEW p \in Players
  PROVE  /\ field[p].live \in Nat /\ field[p].old \in Nat /\ field[p].new \in Nat
         /\ field[p].live + field[p].old + field[p].new <= BulletCap
         /\ Own(field, p) \in Nat /\ Own(field, p) <= Total(field)
<1>1. \A q \in Players : /\ field[q].live \in Nat /\ field[q].old \in Nat /\ field[q].new \in Nat
                         /\ field[q].live + field[q].old + field[q].new <= BulletCap
  BY DEF FieldOK, Own
<1>2. \A q \in Players : Own(field, q) \in Nat
  BY <1>1 DEF Own
<1>3. Own(field, p) <= Total(field)
  BY <1>2, PlayerFacts DEF Total, Players
<1> QED  BY <1>1, <1>2, <1>3

LEMMA FieldStarts == ASSUME BulletsOK PROVE FieldOK(Field)
<1>1. \A p \in Players : /\ bullets[p].live \in Nat /\ bullets[p].fading \in Nat
                         /\ bullets[p].live + bullets[p].fading <= BulletCap
  BY Numbers DEF BulletsOK, BulletsWithinCap
<1>2. Field \in [Players -> [live : Nat, old : Nat, new : Nat]]
  BY <1>1 DEF Field
<1>3. \A p \in Players : Own(Field, p) <= BulletCap
  BY <1>1 DEF Field, Own
<1> QED  BY <1>2, <1>3 DEF FieldOK

LEMMA ClearedOK ==
  ASSUME NEW field, FieldOK(field), NEW p \in Players, NEW before, NEW after
  PROVE  FieldOK(Cleared(field, p, before, after))
<1> DEFINE cleared == [field EXCEPT ![p].live = 0, ![p].new = @ + field[p].live]
<1>1. \A q \in Players : /\ field[q].live \in Nat /\ field[q].old \in Nat /\ field[q].new \in Nat
                         /\ field[q].live + field[q].old + field[q].new <= BulletCap
  BY OwnFacts
<1>2. field \in [Players -> [live : Nat, old : Nat, new : Nat]]
  BY DEF FieldOK
<1>3. \A q \in Players : cleared[q] = IF q = p THEN [live |-> 0, old |-> field[p].old, new |-> field[p].new + field[p].live]
                                      ELSE field[q]
  <2>1. ASSUME NEW q \in Players, q # p PROVE cleared[q] = field[q]
    BY <1>2, <2>1
  <2>2. cleared[p] = [[field[p] EXCEPT !.live = 0] EXCEPT !.new = @ + field[p].live]
    BY <1>2
  <2>3. field[p] \in [live : Nat, old : Nat, new : Nat]
    BY <1>2
  <2>4. cleared[p] = [live |-> 0, old |-> field[p].old, new |-> field[p].new + field[p].live]
    BY <2>2, <2>3
  <2> QED  BY <2>1, <2>4
<1>4. cleared = [q \in Players |-> cleared[q]]
  BY <1>2
<1> HIDE DEF cleared
<1>5. cleared \in [Players -> [live : Nat, old : Nat, new : Nat]]
  BY <1>1, <1>2, <1>3, <1>4
<1>6. \A q \in Players : Own(cleared, q) <= BulletCap
  BY <1>1, <1>3, Numbers DEF Own
<1>7. FieldOK(cleared)
  BY <1>5, <1>6 DEF FieldOK
<1> QED  BY <1>7 DEF Cleared, cleared

LEMMA EffectsOK ==
  ASSUME RaceInv, NEW field, FieldOK(field), NEW p \in Players, NEW g \in Effects(field, p)
  PROVE  FieldOK(g)
<1>1. \A q \in Players : /\ field[q].live \in Nat /\ field[q].old \in Nat /\ field[q].new \in Nat
                         /\ field[q].live + field[q].old + field[q].new <= BulletCap
                         /\ Own(field, q) \in Nat /\ Own(field, q) <= Total(field)
  BY OwnFacts
<1>2. field \in [Players -> [live : Nat, old : Nat, new : Nat]] /\ Total(field) \in Nat
  BY <1>1, PlayerFacts DEF FieldOK, Total
<1>3. CASE ~(online[p] /\ Casts(p))
  BY <1>3 DEF Effects
<1>4. CASE online[p] /\ Casts(p) /\ CardPlayed(p).kind = "opponent_pattern"
  <2> DEFINE more == PatternSize(CardPlayed(p).count, Total(field), BulletCap)
             grown == [field EXCEPT ![p].live = @ + more]
  <2>1. CardPlayed(p).count \in Nat
    BY <1>4, PlayedCard, CatalogAssumption
  <2>2. more \in Nat /\ Own(field, p) + more <= BulletCap
    <3> DEFINE count == CardPlayed(p).count
               total == Total(field)
               own == Own(field, p)
    <3>1. count \in Nat /\ total \in Nat /\ own \in Nat /\ own <= total /\ own <= BulletCap /\ BulletCap \in Nat
      BY <1>1, <1>2, <2>1, Numbers DEF FieldOK
    <3>2. more = IF total >= BulletCap THEN 0 ELSE IF count <= BulletCap - total THEN count ELSE BulletCap - total
      BY DEF PatternSize
    <3> HIDE DEF count, total, own, more
    <3>3. more \in Nat /\ own + more <= BulletCap
      BY <3>1, <3>2
    <3> QED  BY <3>3 DEF own
  <2>3. g = grown
    BY <1>4 DEF Effects
  <2> HIDE DEF more
  <2>4. \A q \in Players : grown[q] = IF q = p THEN [live |-> field[p].live + more, old |-> field[p].old, new |-> field[p].new]
                                      ELSE field[q]
    BY <1>2
  <2>5. grown = [q \in Players |-> grown[q]]
    BY <1>2
  <2> HIDE DEF grown
  <2>6. grown \in [Players -> [live : Nat, old : Nat, new : Nat]]
    BY <1>1, <1>2, <2>2, <2>4, <2>5
  <2>7. \A q \in Players : Own(grown, q) <= BulletCap
    BY <1>1, <2>2, <2>4, Numbers DEF Own
  <2> QED  BY <2>3, <2>6, <2>7 DEF FieldOK
<1>5. CASE online[p] /\ Casts(p) /\ CardPlayed(p).kind = "bullet_purge"
  <2> DEFINE Part(r) == [live : 0..r.live, old : 0..r.old, new : 0..r.new]
  <2>1. g \in Fewer(field, CardPlayed(p).count)
    BY <1>5 DEF Effects
  <2>2. PICK a \in Part(field[First]), b \in Part(field[Second]) :
          g = [q \in Players |-> IF q = First THEN a ELSE b]
    BY <2>1 DEF Fewer
  <2>3. ASSUME NEW q \in Players PROVE g[q] \in Part(field[q])
    BY <2>2 DEF Players
  <2>4. ASSUME NEW q \in Players
        PROVE  /\ g[q] \in [live : Nat, old : Nat, new : Nat]
               /\ g[q].live + g[q].old + g[q].new <= BulletCap
    BY <1>1, <2>3, Numbers
  <2>5. g = [q \in Players |-> g[q]]
    BY <2>2
  <2> QED  BY <2>4, <2>5 DEF FieldOK, Own
<1>6. CASE online[p] /\ Casts(p) /\ CardPlayed(p).kind = "finisher"
  <2>1. g = [q \in Players |-> [live |-> 0, old |-> 0, new |-> 0]]
    BY <1>6 DEF Effects
  <2> QED  BY <2>1, Numbers DEF FieldOK, Own
<1>7. CASE online[p] /\ Casts(p) /\ CardPlayed(p).kind \notin {"opponent_pattern", "bullet_purge", "finisher"}
  <2>1. g = field
    BY <1>7 DEF Effects
  <2> QED  BY <2>1
<1> QED  BY <1>3, <1>4, <1>5, <1>6, <1>7

LEMMA AfterTurnsOK ==
  ASSUME RaceInv, BulletsOK, NEW field \in AfterTurns
  PROVE  FieldOK(field)
<1>1. PICK one \in AfterTurn(Field, First) : field \in AfterTurn(one, Second)
  BY DEF AfterTurns
<1>2. FieldOK(one)
  <2>1. FieldOK(Cleared(Field, First, boss[First], BossAfterTurn(First)))
    BY FieldStarts, ClearedOK, PlayerFacts
  <2> QED  BY <1>1, <2>1, EffectsOK, PlayerFacts DEF AfterTurn
<1>3. FieldOK(Cleared(one, Second, boss[Second], BossAfterTurn(Second)))
  BY <1>2, ClearedOK, PlayerFacts
<1> QED  BY <1>1, <1>3, EffectsOK, PlayerFacts DEF AfterTurn

LEMMA AdvancedOK ==
  ASSUME NEW field, FieldOK(field), NEW p \in Players, NEW b \in Advanced(field, p)
  PROVE  b.live \in Nat /\ b.fading \in Nat /\ b.live + b.fading <= BulletCap
<1> DEFINE live == Spawned(field, p)
           split == IF live = 0 THEN 0 ELSE live + Least(Burst, Room(live + field[p].new))
<1>1. /\ field[p].live \in Nat /\ field[p].old \in Nat /\ field[p].new \in Nat
      /\ field[p].live + field[p].old + field[p].new <= BulletCap
      /\ Own(field, p) = field[p].live + field[p].old + field[p].new
  BY OwnFacts DEF Own
<1>2. live \in Nat /\ live + field[p].new <= BulletCap
  BY <1>1, Numbers DEF Spawned, Least, Room
<1>3. b \in [live : 0..split, fading : 0..field[p].new]
  BY DEF Advanced
<1> HIDE DEF live
<1>4. split \in Nat /\ split + field[p].new <= BulletCap
  BY <1>1, <1>2, Numbers DEF Least, Room
<1> HIDE DEF split
<1> QED  BY <1>1, <1>3, <1>4, Numbers

LEMMA FightKeepsBullets ==
  ASSUME RaceInv, BulletsOK, Fight
  PROVE  BulletsOK'
<1>1. PICK field \in AfterTurns : \E a \in Outcomes(First, field), b \in Outcomes(Second, field) :
        LET of(q) == IF q = First THEN a ELSE b
            copy(q) == of(q).copy
        IN  /\ shots' = [q \in Players |-> of(q).shots]
            /\ bullets' = [q \in Players |-> of(q).bullets]
            /\ boss' = [q \in Players |-> IF Tells(copy(q)) THEN [copy(q) EXCEPT !.owed = 0] ELSE copy(q)]
            /\ told' = [q \in Players |-> told[q] + (IF Tells(copy(q)) THEN copy(q).owed ELSE 0)]
            /\ ship' = [q \in Players |->
                          IF of(q).struck
                          THEN [ShipAfterTurn(q) EXCEPT !.lives = @ - 1, !.safe = tick + 1 + Mercy]
                          ELSE ShipAfterTurn(q)]
  BY Zenon DEF Fight
<1>2. PICK a \in Outcomes(First, field), b \in Outcomes(Second, field) :
        LET of(q) == IF q = First THEN a ELSE b
        IN  /\ shots' = [q \in Players |-> of(q).shots]
            /\ bullets' = [q \in Players |-> of(q).bullets]
  BY <1>1
<1>3. FieldOK(field)
  BY AfterTurnsOK
<1>4. ASSUME NEW p \in Players, NEW o \in Outcomes(p, field)
      PROVE  /\ o.shots \in 0 .. 2 * BulletCap
             /\ o.bullets \in [live : 0..BulletCap, fading : 0..BulletCap]
             /\ o.bullets.live + o.bullets.fading <= BulletCap
  <2>1. PICK hits \in 0..InFlight(p), adv \in Advanced(field, p) :
          LET copy == Strike(BossAfterTurn(p), hits * ShotDamage)
              moved == IF copy.phase = BossAfterTurn(p).phase THEN adv
                       ELSE [live |-> 0, fading |-> adv.fading + adv.live]
          IN  o \in {[copy |-> IF struck THEN [copy EXCEPT !.touched = TRUE] ELSE copy,
                      bullets |-> moved, struck |-> struck, shots |-> left] :
                       struck \in {s \in BOOLEAN : s => MayBeHit(p, moved.live)},
                       left \in 0 .. InFlight(p) - hits}
    BY <1>4 DEF Outcomes
  <2> DEFINE copy == Strike(BossAfterTurn(p), hits * ShotDamage)
             moved == IF copy.phase = BossAfterTurn(p).phase THEN adv
                      ELSE [live |-> 0, fading |-> adv.fading + adv.live]
  <2>2. o.bullets = moved /\ o.shots \in 0 .. InFlight(p) - hits
    BY <2>1
  <2>3. adv.live \in Nat /\ adv.fading \in Nat /\ adv.live + adv.fading <= BulletCap
        /\ adv = [live |-> adv.live, fading |-> adv.fading]
    BY <1>3, AdvancedOK DEF Advanced
  <2>4. moved \in [live : 0..BulletCap, fading : 0..BulletCap] /\ moved.live + moved.fading <= BulletCap
    <3> HIDE DEF copy
    <3>1. CASE copy.phase = BossAfterTurn(p).phase
      <4>1. adv.live \in 0..BulletCap /\ adv.fading \in 0..BulletCap
        BY <2>3, Numbers
      <4> QED  BY <2>3, <3>1, <4>1
    <3>2. CASE copy.phase # BossAfterTurn(p).phase
      <4>1. adv.fading + adv.live \in 0..BulletCap /\ 0 \in 0..BulletCap
        BY <2>3, Numbers
      <4> QED  BY <2>3, <3>2, <4>1
    <3> QED  BY <3>1, <3>2
  <2>5. InFlight(p) \in 0 .. 2 * BulletCap
    <3>1. shots[First] \in 0 .. 2 * BulletCap /\ shots[Second] \in 0 .. 2 * BulletCap
          /\ (p = First \/ p = Second)
      BY PlayerFacts DEF BulletsOK, Players
    <3> QED  BY <3>1, Numbers DEF InFlight
  <2> QED  BY <2>2, <2>4, <2>5, Numbers
<1>5. \A p \in Players : /\ shots'[p] \in 0 .. 2 * BulletCap
                         /\ bullets'[p] \in [live : 0..BulletCap, fading : 0..BulletCap]
                         /\ bullets'[p].live + bullets'[p].fading <= BulletCap
  BY <1>2, <1>4 DEF Players
<1>6. shots' = [p \in Players |-> shots'[p]] /\ bullets' = [p \in Players |-> bullets'[p]]
  BY <1>2
<1>7. shots' \in [Players -> 0 .. 2 * BulletCap] /\ bullets' \in [Players -> [live : 0..BulletCap, fading : 0..BulletCap]]
  BY <1>5, <1>6
<1> QED  BY <1>5, <1>7 DEF BulletsOK, BulletsWithinCap

-----------------------------------------------------------------------------
(* The roster, the inputs that are filed and what is held between them.    *)
RosterOK ==
  /\ ruleset \in Rulesets /\ state \in {"waiting", "running", "finished"}
  /\ winner \in Players \cup {Nobody} /\ joined \subseteq Players
  /\ lastSeq \in [Players -> 0..MaxSeq]
  /\ \A i \in pending : i.tick \in 1..MaxTick /\ i.player \in Players /\ i.intent \in Intents[i.player]
  /\ \A p \in Players : held[p] \in Intents[p] \cup {Rest}
  /\ seeded \in [Players -> BOOLEAN] /\ purgeSeed \in Seeds \cup {0}

RaceTyped == RaceInv /\ InputsPay /\ BulletsOK /\ RosterOK

LEMMA TypedStarts == Init => BulletsOK /\ RosterOK
<1> SUFFICES ASSUME Init PROVE BulletsOK /\ RosterOK
  OBVIOUS
<1>1. BulletsOK
  <2>1. 0 \in 0..BulletCap /\ 0 \in 0 .. 2 * BulletCap /\ 0 + 0 <= BulletCap
    BY Numbers
  <2> QED  BY <2>1 DEF Init, BulletsOK, BulletsWithinCap
<1>2. RosterOK
  BY Numbers DEF Init, RosterOK
<1> QED  BY <1>1, <1>2

LEMMA HeldIntent ==
  ASSUME RosterOK, NEW p \in Players
  PROVE  Intent(p) \in Intents[p] \cup {Rest}
<1>1. CASE ~Real(p)
  BY <1>1 DEF Intent, RosterOK
<1>2. CASE Real(p)
  <2> DEFINE one == CHOOSE i \in Due(p) : TRUE
  <2>1. one \in Due(p)
    BY <1>2 DEF Real
  <2>2. Intent(p) = one.intent
    BY <1>2 DEF Intent
  <2> HIDE DEF one
  <2> QED  BY <2>1, <2>2 DEF Due, RosterOK
<1> QED  BY <1>1, <1>2

LEMMA TypedStep == ASSUME RaceTyped, [Next]_raceVars PROVE (BulletsOK /\ RosterOK)'
<1>1. RaceInv /\ BulletsOK /\ RosterOK
  BY DEF RaceTyped
<1>2. ASSUME NEW p \in Players, AddPlayer(p) PROVE (BulletsOK /\ RosterOK)'
  <2>1. BulletsOK'
    BY <1>1, <1>2 DEF AddPlayer, fightVars, BulletsOK, BulletsWithinCap
  <2> QED  BY <1>1, <1>2, <2>1 DEF AddPlayer, inputVars, cardVars, RosterOK
<1>3. ASSUME NEW p \in Players, NEW c \in BOOLEAN, SetPlayerConnected(p, c) PROVE (BulletsOK /\ RosterOK)'
  <2>1. BulletsOK'
    BY <1>1, <1>3 DEF SetPlayerConnected, fightVars, BulletsOK, BulletsWithinCap
  <2> QED  BY <1>1, <1>3, <2>1 DEF SetPlayerConnected, inputVars, cardVars, RosterOK
<1>4. ASSUME NEW p \in Players, NEW s \in Seeds, SeedHand(p, s) PROVE (BulletsOK /\ RosterOK)'
  <2>1. BulletsOK'
    BY <1>1, <1>4 DEF SeedHand, BulletsOK, BulletsWithinCap
  <2>2. purgeSeed' \in Seeds \cup {0} /\ seeded' \in [Players -> BOOLEAN]
    BY <1>1, <1>4 DEF SeedHand, RosterOK
  <2> QED  BY <1>1, <1>4, <2>1, <2>2 DEF SeedHand, rosterVars, inputVars, RosterOK
<1>5. ASSUME NEW p \in Players, NEW seq \in 1..MaxSeq, NEW at \in 1..MaxTick, NEW intent \in Intents[p],
             SubmitInput(p, seq, at, intent)
      PROVE  (BulletsOK /\ RosterOK)'
  <2>1. BulletsOK'
    BY <1>1, <1>5 DEF SubmitInput, fightVars, BulletsOK, BulletsWithinCap
  <2>2. lastSeq' \in [Players -> 0..MaxSeq]
    BY <1>1, <1>5, Numbers DEF SubmitInput, RosterOK
  <2>3. \A i \in pending' : i.tick \in 1..MaxTick /\ i.player \in Players /\ i.intent \in Intents[i.player]
    BY <1>1, <1>5 DEF SubmitInput, RosterOK
  <2> QED  BY <1>1, <1>5, <2>1, <2>2, <2>3 DEF SubmitInput, rosterVars, cardVars, RosterOK
<1>6. CASE Step
  <2>1. BulletsOK'
    BY <1>1, <1>6, FightKeepsBullets DEF Step
  <2>2. winner' \in Players \cup {Nobody} /\ state' \in {"waiting", "running", "finished"}
    BY <1>6, PlayerFacts DEF Step, Winner
  <2>3. \A p \in Players : held'[p] \in Intents[p] \cup {Rest}
    <3>1. \A p \in Players : held'[p] = IF online[p] THEN Intent(p) ELSE held[p]
      BY <1>6 DEF Step
    <3> QED  BY <1>1, <3>1, HeldIntent DEF RosterOK
  <2>4. \A i \in pending' : i.tick \in 1..MaxTick /\ i.player \in Players /\ i.intent \in Intents[i.player]
    BY <1>1, <1>6 DEF Step, RosterOK
  <2> QED  BY <1>1, <1>6, <2>1, <2>2, <2>3, <2>4 DEF Step, rosterVars, RosterOK
<1>7. CASE Wait
  <2>1. BulletsOK'
    BY <1>1, <1>7 DEF Wait, fightVars, BulletsOK, BulletsWithinCap
  <2> QED  BY <1>1, <1>7, <2>1 DEF Wait, rosterVars, inputVars, cardVars, RosterOK
<1>8. CASE UNCHANGED raceVars
  <2>1. BulletsOK'
    BY <1>1, <1>8 DEF raceVars, fightVars, BulletsOK, BulletsWithinCap
  <2> QED  BY <1>1, <1>8, <2>1 DEF raceVars, rosterVars, inputVars, cardVars, RosterOK
<1> QED  BY <1>2, <1>3, <1>4, <1>5, <1>6, <1>7, <1>8 DEF Next, Tick

LEMMA RaceInRange == RaceTyped => RaceTypeOK
<1> SUFFICES ASSUME RaceTyped PROVE RaceTypeOK
  OBVIOUS
<1>1. RaceTypes /\ HandsOK /\ BulletsOK /\ RosterOK /\ played \in [Players -> Nat]
  BY DEF RaceTyped, RaceInv, InputsPay
<1>2. boss \in [Players -> Shares]
  <2>1. ASSUME NEW p \in Players PROVE boss[p] \in Shares
    <3>1. boss[p] \in Copies /\ boss[p].hp + boss[p].dealt = BossMaxHp
      BY DEF RaceTyped, RaceInv, BooksOK, Honest
    <3>2. boss[p].dealt \in 0..BossMaxHp
      BY <3>1, Numbers DEF Copies
    <3> QED  BY <3>1, <3>2 DEF Copies, Shares
  <2> QED  BY <1>1, <2>1 DEF RaceTypes
<1>3. \A p \in Players : Len(hand[p].cards) <= HandLimit /\ hand[p].energy \in 0..MaxEnergy
  BY <1>1 DEF HandsOK, HandOK, Hands
<1> QED  BY <1>1, <1>2, <1>3 DEF RaceTypeOK, RaceTypes, BulletsOK, RosterOK

(* A hosted match is a co-op match, or one that stands still.              *)
LEMMA HostedCoops == (HostedInit => CoopInit) /\ ([HostedNext]_hostedVars => [CoopNext]_coopVars)
BY DEF HostedInit, HostedNext, HostedRace, HostedCoop, hostedVars

(* What holds between the calls of a co-op match.                          *)
THEOREM CoopIsSound == HostedSpec => []CoopInv
BY HostedCoops, CoopStarts, CoopNextKeeps, PTL DEF HostedSpec

(* Both simulations keep their state in range for every catalog, crew and  *)
(* number: a hand its limit, energy, health, lives and phases theirs, the  *)
(* bullets of a player their cap however patterns, splits, purges and      *)
(* phases follow each other within a tick, and the cannon a seat.          *)
THEOREM HostedTypes == HostedSpec => []HostedTypeOK
<1>1. HostedInit => RaceTyped /\ mode \in Modes
  BY HostedRaces, RaceInit, InputsInit, TypedStarts DEF HostedInit, RaceTyped
<1>2. RaceTyped /\ mode \in Modes /\ [HostedNext]_hostedVars => (RaceTyped /\ mode \in Modes)'
  <2> SUFFICES ASSUME RaceTyped, mode \in Modes, [HostedNext]_hostedVars
               PROVE  (RaceTyped /\ mode \in Modes)'
    OBVIOUS
  <2>1. [Next]_raceVars
    BY HostedRaces
  <2>2. RaceInv' /\ InputsPay'
    BY <2>1, RaceStep, InputsStep DEF RaceTyped
  <2>3. (BulletsOK /\ RosterOK)'
    BY <2>1, TypedStep
  <2>4. mode' = mode
    BY DEF HostedNext, HostedRace, HostedCoop, hostedVars
  <2> QED  BY <2>2, <2>3, <2>4 DEF RaceTyped
<1>3. RaceTyped /\ mode \in Modes /\ CoopInv => HostedTypeOK
  BY RaceInRange DEF HostedTypeOK, CoopInv
<1> QED  BY <1>1, <1>2, <1>3, CoopIsSound, PTL DEF HostedSpec

(* The health of the shared Boss and the damage credited to the crew add   *)
(* up to the health it started with, whoever shoots, in whatever order of  *)
(* seats, and whoever comes late.                                          *)
THEOREM SharedDamageIsAccounted == HostedSpec => []SharedDamageAddsUp
BY CoopIsSound, SharedDamage, PTL

(* A tick never fills the arena with more than a volley over its cap.      *)
THEOREM TheShowerIsBounded == HostedSpec => []ShowerIsBounded
<1>1. CoopInv => ShowerIsBounded
  BY DEF CoopInv
<1> QED  BY <1>1, CoopIsSound, PTL

(* No seat that is shown shielded or locked dealt damage in that tick.     *)
THEOREM BlockedSeatsAreSilent == HostedSpec => BlockedSeatsDealNothing
<1>1. CoopInv /\ [CoopNext]_coopVars =>
        [\A p \in aboard : share'[p] # share[p] => Seat(p) \notin shield' /\ Seat(p) # lock']_coopVars
  BY BlockedSeatsStep
<1> QED  BY <1>1, HostedCoops, CoopIsSound, PTL DEF HostedSpec, BlockedSeatsDealNothing
=============================================================================
