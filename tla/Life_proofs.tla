----------------------------- MODULE Life_proofs -----------------------------
(* What the stamp arithmetic of Life computes, for every clock and age. *)
EXTENDS Life, TLAPS

\* CDiv cuts a dividend that is not negative to the quotient below it.
LEMMA CutBounds ==
  ASSUME NEW a \in Nat, NEW b \in Nat \ {0}
  PROVE  /\ CDiv(a, b) \in Nat
         /\ CDiv(a, b) * b <= a
         /\ a < (CDiv(a, b) + 1) * b
<1>1. CDiv(a, b) = a \div b
  BY DEF CDiv
<1>2. /\ a \div b \in Nat
      /\ a = b * (a \div b) + (a % b)
      /\ 0 <= a % b /\ a % b < b
  BY Z3
<1>3. b * (a \div b) = (a \div b) * b /\ (a \div b + 1) * b = b * (a \div b) + b
  BY <1>2, Z3
<1> QED  BY <1>1, <1>2, <1>3

\* Quotient and remainder of C belong together, whatever the signs.
LEMMA CutAndRest ==
  ASSUME NEW a \in Int, NEW b \in Nat \ {0}
  PROVE  /\ CDiv(a, b) \in Int /\ CMod(a, b) \in Int
         /\ a = b * CDiv(a, b) + CMod(a, b)
<1>1. CDiv(a, b) \in Int
  <2>1. CASE a >= 0  BY <2>1 DEF CDiv
  <2>2. CASE ~(a >= 0)  BY <2>2 DEF CDiv
  <2> QED  BY <2>1, <2>2
<1>2. b * CDiv(a, b) \in Int
  BY <1>1
<1> QED  BY <1>1, <1>2 DEF CMod

\* The units are positive, and so is a second in microseconds.
LEMMA UnitsAreNat ==
  /\ Milli \in Nat \ {0} /\ Second \in Nat \ {0}
  /\ Second * Milli \in Nat \ {0}
BY LifeConstants, Z3

\* A time is a whole number of microseconds.
LEMMA MicrosIsInt == ASSUME NEW t \in Time PROVE Micros(t) \in Int
BY UnitsAreNat DEF Time, Micros

\* gettimeofday splits its microseconds without a loss.
LEMMA ClockExact ==
  ASSUME NEW us \in Nat
  PROVE  TimeOfDay(us) \in Time /\ Micros(TimeOfDay(us)) = us
<1> DEFINE S == Second * Milli
<1>1. S \in Nat \ {0}
  BY UnitsAreNat
<1> HIDE DEF S
<1>2. us \div S \in Int /\ us % S \in Int /\ us = S * (us \div S) + (us % S)
  BY <1>1, Z3
<1>3. S * (us \div S) = (us \div S) * S
  BY <1>1, <1>2, Z3
<1>4. TimeOfDay(us) = [sec |-> us \div S, usec |-> us % S]
  BY DEF TimeOfDay, S
<1>5. Micros(TimeOfDay(us)) = (us \div S) * S + (us % S)
  BY <1>4 DEF Micros, S
<1> QED  BY <1>2, <1>3, <1>4, <1>5 DEF Time

\* A stamp is the clock less the age, to the microsecond, although seconds and
\* microseconds are lowered each on its own and without a carry
\* (RtDB2.cpp:153-164).
THEOREM StampExact ==
  ASSUME NEW clock \in Time, NEW life \in Int
  PROVE  /\ PutTimestamp(clock, life) \in Time
         /\ Micros(PutTimestamp(clock, life)) = Micros(clock) - life * Milli
<1> DEFINE q == CDiv(life, Second)
           r == CMod(life, Second)
<1>1. q \in Int /\ r \in Int /\ life = Second * q + r
  BY CutAndRest, UnitsAreNat
<1>2. clock.sec \in Int /\ clock.usec \in Int
  BY DEF Time
<1>3. PutTimestamp(clock, life)
        = [sec |-> clock.sec - q, usec |-> clock.usec - r * Milli]
  BY DEF PutTimestamp
<1> HIDE DEF q, r
<1>4. r * Milli \in Int /\ q * (Second * Milli) \in Int
  BY <1>1, UnitsAreNat
<1>5. PutTimestamp(clock, life) \in Time
  BY <1>1, <1>2, <1>3, <1>4 DEF Time
<1>6. Micros(PutTimestamp(clock, life))
        = (clock.sec - q) * (Second * Milli) + (clock.usec - r * Milli)
  BY <1>3 DEF Micros
<1>7. (clock.sec - q) * (Second * Milli)
        = clock.sec * (Second * Milli) - q * (Second * Milli)
  BY <1>1, <1>2, UnitsAreNat, Z3
<1>8. life * Milli = q * (Second * Milli) + r * Milli
  BY <1>1, UnitsAreNat, Z3
<1>9. clock.sec * (Second * Milli) \in Int
  BY <1>2, UnitsAreNat
<1> QED  BY <1>2, <1>4, <1>5, <1>6, <1>7, <1>8, <1>9 DEF Micros

\* The age that is read is the difference of clock and stamp, cut to
\* milliseconds (RtDB2.cpp:166-177).
THEOREM AgeExact ==
  ASSUME NEW clock \in Time, NEW stamp \in Time
  PROVE  GetTimestamp(clock, stamp) = CDiv(Micros(clock) - Micros(stamp), Milli)
<1> DEFINE S == Second * Milli
<1>1. S \in Int
  BY UnitsAreNat
<1>2. /\ clock.sec \in Int /\ clock.usec \in Int
      /\ stamp.sec \in Int /\ stamp.usec \in Int
  BY DEF Time
<1> HIDE DEF S
<1>3. (clock.sec - stamp.sec) * S = clock.sec * S - stamp.sec * S
  BY <1>1, <1>2, Z3
<1>4. clock.sec * S \in Int /\ stamp.sec * S \in Int
  BY <1>1, <1>2
<1>5. (clock.sec - stamp.sec) * S + (clock.usec - stamp.usec)
        = (clock.sec * S + clock.usec) - (stamp.sec * S + stamp.usec)
  BY <1>2, <1>3, <1>4
<1> QED  BY <1>5 DEF GetTimestamp, Micros, S
=============================================================================
