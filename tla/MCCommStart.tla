---------------------------- MODULE MCCommStart ----------------------------
(* An instance of CommStart for TLC: every file of up to four of these lines. *)
EXTENDS CommStart

Lines ==
  {[network |-> "A"], [network |-> "B"],
   [ip |-> 1, port |-> 1, frequency |-> 50],
   [ip |-> 2], [port |-> 65537, frequency |-> -50],
   [default |-> TRUE], [default |-> FALSE, frequency |-> 20],
   [comment |-> TRUE, default |-> TRUE, ip |-> 3]}

ShortFiles == BoundedSeq(Lines, 4) \union {Unreadable}
=============================================================================
