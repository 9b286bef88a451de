----------------------------- MODULE MCToolChain -----------------------------
(* Instances of ToolChain for TLC: two items, which may have names that differ *)
(* in case only, and a file an earlier run has left, which someone may edit.   *)
EXTENDS ToolChain

Text == {"ball", "BALL", "pose", "POSE", "true", "TRUE", "false", "FALSE", "on", "ON",
         "0", "1", "2", "zstd", "ZSTD", "x", "X"}

Pairs == {<<"ball", "BALL">>, <<"pose", "POSE">>, <<"true", "TRUE">>,
          <<"false", "FALSE">>, <<"on", "ON">>, <<"zstd", "ZSTD">>, <<"x", "X">>}

Uppercase == [s \in Text |-> IF \E p \in Pairs : p[1] = s
                             THEN (CHOOSE p \in Pairs : p[1] = s)[2] ELSE s]
Lowercase == [s \in Text |-> IF \E p \in Pairs : p[2] = s
                             THEN (CHOOSE p \in Pairs : p[2] = s)[1] ELSE s]
Digits == {"0", "1", "2"}
Integer == [s \in Text |-> CASE s = "1" -> 1 [] s = "2" -> 2 [] OTHER -> 0]

\* strcmp has capitals before small letters.
Order == [id \in ItemNames |->
            CASE id = "BALL" -> 0 [] id = "ball" -> 1 [] OTHER -> 2]

OldXml ==
  [kind |-> "xml",
   general |-> << << [tag |-> "DefaultKeyValue",
                      attr |-> [shared |-> "true", period |-> "1", phase |-> "0"]] >> >>,
   keys |-> << << [tag |-> "key", attr |-> [id |-> "pose", oid |-> "0"]],
                  [tag |-> "key", attr |-> [id |-> "ball", oid |-> "1",
                                            shared |-> "false"]] >> >>]

OldUsers == {NoFile, [kind |-> "user", agents |-> <<>>, items |-> <<"pose", "ball">>]}
OldXmls == {NoFile, OldXml}
=============================================================================
