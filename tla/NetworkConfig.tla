---------------------------- MODULE NetworkConfig ----------------------------
(***************************************************************************)
(* NetworkConfig::get_network_config (src/src/comm/NetworkConfig.cpp): how *)
(* comm finds its network in comm_network.conf.  A line is a record of     *)
(* what is in it: that it is a comment, the name after NETWORK, the        *)
(* settings ip, port and frequency, and whether it says default = true.    *)
(***************************************************************************)
EXTENDS Integers, SequencesExt

Null == "NULL"                             \* no network named
Unreadable == << [unreadable |-> TRUE] >>  \* fopen fails

reset == [ip |-> 0, port |-> 0, frequency |-> 0]

In(field, line) == field \in DOMAIN line
IsHeader(line) == ~In("comment", line) /\ In("network", line)
SaysDefault(line) == In("default", line) /\ line.default

\* name is *network_name.  (A default network before the first NETWORK has for its
\* name what happens to be in the buffer, here Null.)
Opened(asked) ==
  [config |-> reset, name |-> asked, section |-> Null, found |-> FALSE, stopped |-> FALSE]

\* Faulty variant of Header: reading goes on into the next network.
HeaderPassed(r, asked, line) ==
  IF ~IsHeader(line) THEN r
  ELSE [r EXCEPT !.section = line.network, !.found = @ \/ line.network = asked]

\* A line that begins with NETWORK ends the reading if the network has been found.
Header(r, asked, line) ==
  IF ~IsHeader(line) THEN r
  ELSE IF r.found THEN [r EXCEPT !.stopped = TRUE]
  ELSE [r EXCEPT !.section = line.network, !.found = line.network = asked]

\* Settings are taken where the network has been found, and everywhere if none was
\* named, up to the end of the network that is marked as default.
Settings(r, asked, line) ==
  IF r.stopped \/ ~(r.found \/ asked = Null) THEN r
  ELSE [r EXCEPT
          !.config = [f \in DOMAIN @ |-> IF In(f, line) THEN line[f] ELSE @[f]],
          !.found = @ \/ SaysDefault(line),
          !.name = IF SaysDefault(line) THEN r.section ELSE @]

TakeLine(r, asked, line) ==
  IF r.stopped \/ In("comment", line) THEN r
  ELSE Settings(Header(r, asked, line), asked, line)

\* What is asked of the settings in the end, whatever they are.
Complete(r) == r.found /\ \A f \in DOMAIN r.config : r.config[f] # 0
=============================================================================
