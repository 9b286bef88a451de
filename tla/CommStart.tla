------------------------------ MODULE CommStart ------------------------------
(***************************************************************************)
(* How a comm process starts and ends (main of src/src/comm/comm.cpp): the *)
(* network it looks up, the socket it opens for it (multicast.cpp), the    *)
(* receive thread, and the way out.  What the two threads do in between is *)
(* module Comm.                                                            *)
(***************************************************************************)
EXTENDS NetworkConfig

CONSTANTS
  Files,        \* comm_network.conf
  Names,        \* of networks
  TTUP_US_DEFAULT

\* What a line may say.
IsLine(l) ==
  /\ In("network", l) => l.network \in Names
  /\ \A f \in DOMAIN reset : In(f, l) => l[f] \in Int
  /\ In("default", l) => l.default \in BOOLEAN

ASSUME CommStartConstants ==
  /\ Null \notin Names
  /\ TTUP_US_DEFAULT \in Nat
  /\ \A f \in Files \ {Unreadable} :
       /\ Len(f) \in Nat /\ DOMAIN f = 1 .. Len(f)
       /\ \A i \in DOMAIN f : IsLine(f[i])

VARIABLES
  file,
  network_name, \* the argument of -network
  place,        \* of main
  network,      \* what get_network_config has found so far
  line,         \* the next line of the file
  ok,           \* what get_network_config returns
  TTUP_US,
  address,      \* of the socket, group and port, or NoAddress
  shut,         \* the socket is shut down
  thread,       \* the receive thread
  end           \* SIGINTs

argVars  == <<file, network_name>>
netVars  == <<network, line, ok, TTUP_US>>
sockVars == <<address, shut>>
vars == <<argVars, place, netVars, sockVars, thread, end>>

NoAddress == <<>>

Init ==
  /\ file \in Files
  /\ network_name \in Names \union {Null}
  /\ place = "configure"
  /\ network = Opened(network_name) /\ line = 1 /\ ok = FALSE
  /\ TTUP_US = TTUP_US_DEFAULT
  /\ address = NoAddress /\ shut = FALSE
  /\ thread = "none"
  /\ end = 0

\* main moves on, or returns.
Goto(next) == place' = next
Return == place' = "over"
-----------------------------------------------------------------------------
(* The way in.  Nothing looks at what get_network_config returns. *)

Period(frequency) ==
  CASE frequency = 0 -> TTUP_US_DEFAULT
    [] frequency > 0 -> 1000000 \div frequency
    [] frequency < 0 -> -(1000000 \div (-frequency))

ReadLine ==
  /\ place = "configure"
  /\ file # Unreadable /\ line <= Len(file) /\ ~network.stopped
  /\ network' = TakeLine(network, network_name, file[line])
  /\ line' = line + 1
  /\ UNCHANGED <<argVars, place, ok, TTUP_US, sockVars, thread, end>>

Configure ==
  /\ place = "configure"
  /\ file = Unreadable \/ line > Len(file) \/ network.stopped
  /\ ok' = Complete(network)
  /\ TTUP_US' = Period(network.config.frequency)
  /\ Goto("scheduler")
  /\ UNCHANGED <<argVars, network, line, sockVars, thread, end>>

\* sched_setscheduler may be refused.
Schedule ==
  /\ place = "scheduler"
  /\ Goto("socket") \/ Return
  /\ UNCHANGED <<argVars, netVars, sockVars, thread, end>>

\* Faulty variant of MayJoin: the memberships that the kernel refuses do not matter.
MayJoinAny == TRUE

\* IP_ADD_MEMBERSHIP needs a multicast address.
MayJoin == network.config.ip # 0

Address(config) == <<config.ip, config.port % 65536>>

\* Any of the calls may fail, for want of the interface or else, and then main returns.
OpenSocket ==
  /\ place = "socket"
  /\ \/ MayJoin /\ address' = Address(network.config) /\ Goto("thread")
     \/ Return /\ UNCHANGED address
  /\ UNCHANGED <<argVars, netVars, shut, thread, end>>

\* After DB_init, which cannot fail.  If there can be no thread the socket is given back.
StartThread ==
  /\ place = "thread"
  /\ \/ thread' = "top" /\ Goto("loop") /\ UNCHANGED shut
     \/ shut' = TRUE /\ Return /\ UNCHANGED thread
  /\ UNCHANGED <<argVars, netVars, address, end>>
-----------------------------------------------------------------------------
(* The way out. *)

\* Faulty variant of CloseSocket: the thread is joined with the socket open.
CloseNothing ==
  /\ place = "loop" /\ end # 0
  /\ Goto("join")
  /\ UNCHANGED <<argVars, netVars, sockVars, thread, end>>

CloseSocket ==
  /\ place = "loop" /\ end # 0
  /\ shut' = TRUE
  /\ Goto("join")
  /\ UNCHANGED <<argVars, netVars, address, thread, end>>

\* pthread_join; DB_free frees nothing.
Join ==
  /\ place = "join" /\ thread = "done"
  /\ Return
  /\ UNCHANGED <<argVars, netVars, sockVars, thread, end>>

Main ==
  ReadLine \/ Configure \/ Schedule \/ OpenSocket \/ StartThread \/ CloseSocket \/ Join

\* Faulty variant of Interrupt: the third is like the others.
InterruptMildly ==
  /\ place \notin {"configure", "scheduler", "over"} /\ end < 4
  /\ end' = end + 1
  /\ UNCHANGED <<argVars, place, netVars, sockVars, thread>>

\* SIGINT ends the process as long as signal_catch is not installed, and the third time.
Interrupt ==
  /\ place # "over"
  /\ IF place \in {"configure", "scheduler"} THEN Return /\ UNCHANGED end
     ELSE /\ end' = end + 1
          /\ IF end' = 3 THEN Return ELSE UNCHANGED place
  /\ UNCHANGED <<argVars, netVars, sockVars, thread>>
-----------------------------------------------------------------------------
(* The receive thread. *)

ThreadTop ==
  /\ place # "over" /\ thread = "top"
  /\ thread' = IF end = 0 THEN "recv" ELSE "done"
  /\ UNCHANGED <<argVars, place, netVars, sockVars, end>>

\* recvfrom returns with a frame, which is handled, or because the socket is shut down.
Received ==
  /\ place # "over" /\ thread = "recv"
  /\ thread' = "top"
  /\ UNCHANGED <<argVars, place, netVars, sockVars, end>>

Thread == ThreadTop \/ Received

Next == Main \/ Interrupt \/ Thread

\* Both threads are scheduled, but there need not be another frame.
FairSpec ==
  /\ Init /\ [][Next]_vars
  /\ WF_vars(Main)
  /\ WF_vars(ThreadTop) /\ WF_vars(shut /\ Received)
-----------------------------------------------------------------------------
\* The types of what main and the receive thread share.
TypeOK ==
  /\ place \in {"configure", "scheduler", "socket", "thread", "loop", "join", "over"}
  /\ thread \in {"none", "top", "recv", "done"}
  /\ end \in 0 .. 3
  /\ network.name \in Names \union {Null}
  /\ \A f \in DOMAIN reset : network.config[f] \in Int
  /\ place \in {"thread", "loop", "join"} => address # NoAddress

Headers == {i \in DOMAIN file : IsHeader(file[i])}

\* The last line of the network that line i is in, and the name of that network.
EndOf(i) == Min({j - 1 : j \in {h \in Headers : h > i}} \union {Len(file)})
NameAt(i) == IF \E h \in Headers : h <= i
             THEN file[Max({h \in Headers : h <= i})].network ELSE Null

\* What lines i to j make of a setting: the last counts.
Given(f, i, j) ==
  LET at == {k \in i .. j : In(f, file[k]) /\ ~In("comment", file[k])}
  IN  IF at = {} THEN 0 ELSE file[Max(at)][f]

Named == {h \in Headers : file[h].network = network_name}
Marked == {i \in DOMAIN file : SaysDefault(file[i]) /\ ~In("comment", file[i])}

\* What get_network_config comes to.  A network that is asked for by name is the first
\* of that name, with its own settings only, and without any if there is none.  If none
\* is asked for it is the first that says default = true, wherever in it; it need not
\* repeat what the networks before it have said, and if no network is the default
\* the settings of all are left behind (NetworkConfig.cpp:63-120).
SettingsAsWritten ==
  (place \notin {"configure", "over"} /\ file # Unreadable) =>
    LET range == IF network_name # Null
                 THEN IF Named = {} THEN <<1, 0>> ELSE <<Min(Named), EndOf(Min(Named))>>
                 ELSE IF Marked = {} THEN <<1, Len(file)>> ELSE <<1, EndOf(Min(Marked))>>
    IN  /\ \A f \in DOMAIN reset : network.config[f] = Given(f, range[1], range[2])
        /\ network.name = IF network_name = Null /\ Marked # {}
                          THEN NameAt(Min(Marked)) ELSE network_name
        /\ ok <=> /\ IF network_name = Null THEN Marked # {} ELSE Named # {}
                  /\ \A f \in DOMAIN reset : network.config[f] # 0

\* A comm that was asked for a network runs on the group of that network or not at all,
\* although it goes on when the network is not found or lacks a setting
\* (comm.cpp:431, multicast.cpp:118).
RunsWhereAsked ==
  (address # NoAddress /\ network_name # Null) =>
    /\ file # Unreadable /\ Named # {}
    /\ address[1] = Given("ip", Min(Named), EndOf(Min(Named)))
    /\ address[1] # 0

\* Whenever SIGINT comes, the process is over in the end: a receive thread that waits
\* for a frame, or is about to, is woken (comm.cpp:71-78, 531, 657-658).
InterruptEnds == end # 0 ~> place = "over"
=============================================================================
