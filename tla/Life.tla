-------------------------------- MODULE Life --------------------------------
(***************************************************************************)
(* Time stamps and ages of records (src/src/rtdb2/RtDB2.cpp:153-177).  A   *)
(* record in a store ends with the moment, on the clock of that host, at   *)
(* which its value was new; a record in a frame ends with its age.         *)
(***************************************************************************)
EXTENDS CInt

CONSTANTS
  Milli,     \* microseconds in a millisecond, 1000
  Second     \* milliseconds in a second, 1000

ASSUME LifeConstants == Milli \in Nat \ {0} /\ Second \in Nat \ {0}

Time == [sec : Int, usec : Int]

Micros(t) == t.sec * (Second * Milli) + t.usec

\* gettimeofday on a clock that shows us microseconds.
TimeOfDay(us) == [sec |-> us \div (Second * Milli), usec |-> us % (Second * Milli)]

\* Faulty variant of PutTimestamp: only the part below a second counts.
PutTimestampBelowSecond(clock, life) ==
  [sec |-> clock.sec, usec |-> clock.usec - CMod(life, Second) * Milli]

\* The stamp of a value that is `life' milliseconds old.  Seconds and
\* microseconds are lowered separately, so usec may leave its range.
PutTimestamp(clock, life) ==
  [sec  |-> clock.sec - CDiv(life, Second),
   usec |-> clock.usec - CMod(life, Second) * Milli]

\* The age in whole milliseconds; the cast to int cuts towards zero.
GetTimestamp(clock, stamp) ==
  CDiv((clock.sec - stamp.sec) * (Second * Milli) + (clock.usec - stamp.usec),
       Milli)
=============================================================================
