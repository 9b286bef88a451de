-------------------------------- MODULE RtDB1 --------------------------------
(***************************************************************************)
(* Version 1 of the database at work (src/src/rtdb/rtdb_api.c): processes  *)
(* of an agent that come, put and get records, go and are killed.  A       *)
(* record has two banks, and read_bank tells which one to read; a put      *)
(* fills the other one, its time stamp last, and then turns read_bank.     *)
(* Nothing is locked: word by word, a get runs against the puts.           *)
(*                                                                         *)
(* A record is put by one process only.  The stores of a put take effect   *)
(* in the order of the program, as the build's -O3 code does them on x86.  *)
(***************************************************************************)
EXTENDS Segments

CONSTANTS
  Puts,     \* who puts what: process, agent, identifier
  Gets,     \* who gets what
  MaxPuts   \* bound: puts of a record

ASSUME RtDB1Constants ==
  /\ Header >= 5
  /\ Puts \subseteq Procs \X Agents \X Ids
  /\ Gets \subseteq Procs \X Agents \X Ids
  /\ \A x, y \in Puts : (x[2] = y[2] /\ x[3] = y[3]) => x = y
  /\ MaxPuts \in Nat

VARIABLES
  mem,      \* per key, the memory: which put wrote what is at an address
  op,       \* per process, the put or get it is in, a record, or Idle
  \* history
  begun,    \* per key and record, puts begun
  newest    \* per key and record, the put that was completed last

vars == <<segVars, mem, op, begun, newest>>

Idle == [kind |-> "idle"]
Places == 1 .. MaxRecs
Nothing == [j \in Places |-> 0]

RtInit ==
  /\ Init
  /\ mem = [k \in SegKeys |-> <<>>]
  /\ op = [p \in Procs |-> Idle]
  /\ begun = [k \in SegKeys |-> Nothing]
  /\ newest = [k \in SegKeys |-> Nothing]

\* Memory nobody has written since the segment was made is zero.
At(k, address) == IF address \in DOMAIN mem[k] THEN mem[k][address] ELSE 0

Write(k, address, put) ==
  mem' = [mem EXCEPT ![k] = [x \in DOMAIN @ \union {address} |->
                               IF x = address THEN put ELSE @[x]]]

\* Where a record is: rec_lut, then p_rec and p_data.
Found(a, i) == def.lut[a][i] # NoRec
IsLocal(a, i) == def.lut[a][i] >= MaxRecs
KeyOf(a, i) == IF IsLocal(a, i) THEN LocalKey ELSE DefKey + a + 1
PlaceIn(a, i) == 1 + (IF IsLocal(a, i) THEN def.lut[a][i] - MaxRecs ELSE def.lut[a][i])

\* The two halves of timestamp[b] in a header.
SecAt(j, b) == (j - 1) * Header + 1 + 2 * b
UsecAt(j, b) == (j - 1) * Header + 2 + 2 * b
-----------------------------------------------------------------------------
(* DB_put_in. *)

\* Faulty variant of WriteBank: the bank that is being read.
WriteBankInUse(h) == h.rb

\* Faulty variant of WriteBank: the remainder is forgotten.
WriteBankNoWrap(h) == h.rb + 1

WriteBank(h) == (h.rb + 1) % 2

PutIn(p, a, i) ==
  LET k == KeyOf(a, i)
      j == PlaceIn(a, i)
  IN  /\ pc[p] = "ready" /\ op[p].kind # "put"
      /\ Found(a, i)
      /\ begun[k][j] < MaxPuts
      /\ begun' = [begun EXCEPT ![k][j] = @ + 1]
      /\ op' = [op EXCEPT ![p] = [kind |-> "put", k |-> k, j |-> j, at |-> 0,
                                  bank |-> WriteBank(hdr[k][j]),
                                  put |-> begun[k][j] + 1]]
      /\ UNCHANGED <<segVars, mem, newest>>

DBPut(p, i) == PutIn(p, Self, i)

DBCommPut(p, a, i) == a # Self /\ ~IsLocal(a, i) /\ PutIn(p, a, i)

\* The addresses a put writes, in its order: value, time stamp.
Cells(h, j, b) ==
  [w \in 1 .. h.size |-> BankAt(h, j, b) + w - 1] \o <<SecAt(j, b), UsecAt(j, b)>>

PutCell(p) ==
  /\ op[p].kind = "put"
  /\ LET o == op[p]
         cells == Cells(hdr[o.k][o.j], o.j, o.bank)
     IN  /\ o.at < Len(cells)
         /\ Write(o.k, cells[o.at + 1], o.put)
         /\ op' = [op EXCEPT ![p].at = @ + 1]
  /\ UNCHANGED <<segVars, begun, newest>>

\* Faulty variant of PutEnd: read_bank turns before the stamp is there.
PutEndEarly(p) ==
  /\ op[p].kind = "put"
  /\ LET o == op[p]
     IN  /\ o.at >= hdr[o.k][o.j].size
         /\ hdr' = [hdr EXCEPT ![o.k][o.j].rb = o.bank]
         /\ newest' = [newest EXCEPT ![o.k][o.j] = o.put]
  /\ op' = [op EXCEPT ![p] = Idle]
  /\ UNCHANGED <<file, seg, def, pc, got, conf, crashes, failures, reused, mem, begun>>

PutEnd(p) ==
  /\ op[p].kind = "put"
  /\ LET o == op[p]
     IN  /\ o.at = Len(Cells(hdr[o.k][o.j], o.j, o.bank))
         /\ hdr' = [hdr EXCEPT ![o.k][o.j].rb = o.bank]
         /\ newest' = [newest EXCEPT ![o.k][o.j] = o.put]
  /\ op' = [op EXCEPT ![p] = Idle]
  /\ UNCHANGED <<file, seg, def, pc, got, conf, crashes, failures, reused, mem, begun>>
-----------------------------------------------------------------------------
(***************************************************************************)
(* DB_get_from.  The bank is looked up for the value, and again for its    *)
(* time stamp: once for both halves in a release build, for each in a      *)
(* debug build.                                                            *)
(***************************************************************************)
DBGet(p, a, i) ==
  LET k == KeyOf(a, i)
      j == PlaceIn(a, i)
  IN  /\ pc[p] = "ready" /\ op[p].kind # "put"
      /\ Found(a, i)
      /\ op' = [op EXCEPT ![p] = [kind |-> "get", k |-> k, j |-> j, seen |-> <<>>,
                                  bank |-> hdr[k][j].rb, first |-> newest[k][j]]]
      /\ UNCHANGED <<segVars, mem, begun, newest>>

\* The bank a get reads its next cell from.
NextBank(o) ==
  LET h == hdr[o.k][o.j]
  IN  CASE Len(o.seen) < h.size     -> {o.bank}
        [] Len(o.seen) = h.size     -> {h.rb}
        [] Len(o.seen) = h.size + 1 -> {o.bank, h.rb}
        [] OTHER                    -> {}

GetCell(p) ==
  /\ op[p].kind = "get"
  /\ \E b \in NextBank(op[p]) :
       LET o == op[p]
           cells == Cells(hdr[o.k][o.j], o.j, b)
       IN  op' = [op EXCEPT ![p].seen = Append(@, At(o.k, cells[Len(o.seen) + 1])),
                            ![p].bank = b]
  /\ UNCHANGED <<segVars, mem, begun, newest>>
-----------------------------------------------------------------------------
\* A segment that is removed takes its memory along, a process that is killed or
\* leaves what it was doing.
SegStep ==
  /\ SegNext
  /\ \A p \in Procs : pc'[p] = "free" => op[p].kind # "put"
  /\ mem' = [k \in SegKeys |-> IF seg'[k].size = 0 THEN <<>> ELSE mem[k]]
  /\ op' = [p \in Procs |-> IF pc'[p] = "ready" THEN op[p] ELSE Idle]
  /\ begun' = [k \in SegKeys |-> IF seg'[k].size = 0 THEN Nothing ELSE begun[k]]
  /\ newest' = [k \in SegKeys |-> IF seg'[k].size = 0 THEN Nothing ELSE newest[k]]

RtNext ==
  \/ SegStep
  \/ \E x \in Puts : DBPut(x[1], x[3]) /\ x[2] = Self
  \/ \E x \in Puts : DBCommPut(x[1], x[2], x[3])
  \/ \E p \in Procs : PutCell(p) \/ PutEnd(p)
  \/ \E x \in Gets : DBGet(x[1], x[2], x[3])
  \/ \E p \in Procs : GetCell(p)

Spec == RtInit /\ [][RtNext]_vars
-----------------------------------------------------------------------------
\* The types of the memory and of the operations under way.
TypeOK ==
  /\ SegTypeOK
  /\ \A k \in SegKeys : DOMAIN mem[k] \subseteq Nat
  /\ \A k \in SegKeys : \A x \in DOMAIN mem[k] : mem[k][x] \in 1 .. MaxPuts
  /\ begun \in [SegKeys -> [Places -> 0 .. MaxPuts]]
  /\ \A k \in SegKeys : \A j \in Places : newest[k][j] \in 0 .. begun[k][j]
  /\ \A p \in Procs : op[p].kind \in {"idle", "put", "get"}
  /\ \A p \in Procs : op[p].kind # "idle" => pc[p] = "ready" /\ op[p].j \in DOMAIN hdr[op[p].k]

\* The gets that are done, and what they return.
DoneGets ==
  {p \in Procs : op[p].kind = "get" /\ Len(op[p].seen) = hdr[op[p].k][op[p].j].size + 2}
ValueOf(o) == {o.seen[w] : w \in 1 .. Len(o.seen) - 2}
StampOf(o) == {o.seen[w] : w \in Len(o.seen) - 1 .. Len(o.seen)}

\* Without a lock, a get returns nothing older than what was there when it began,
\* and a mixture of values only if a put was completed and yet another one begun
\* meanwhile; unless killed processes have left a half written bank that a later
\* start makes the one to read (rtdb_api.c:488-500, 591).
ReadIsRecent ==
  ~reused => \A p \in DoneGets :
    LET o == op[p]
    IN  /\ \A v \in ValueOf(o) : o.first <= v
        /\ \A v, u \in ValueOf(o) : v < u =>
             o.first < newest[o.k][o.j] /\ o.first + 2 <= begun[o.k][o.j]

\* The age a get reports, although looked up after the value, is never that of a
\* value older than the one that was there when the get began
\* (rtdb_api.c:494-498, 593-595).
LifeIsRecent ==
  ~reused => \A p \in DoneGets : \A s \in StampOf(op[p]) : op[p].first <= s

\* Who starts, stops or is killed leaves the database of those who stay alone
\* (rtdb_api.c:279, 354-357, 195-199).
OthersUndisturbed ==
  [][(\E p \in Procs : pc[p] = "ready" /\ pc'[p] = "ready") /\ pc' # pc
       => UNCHANGED <<def, hdr, mem>>]_vars
=============================================================================
