------------------------------- MODULE Segments -------------------------------
(***************************************************************************)
(* The shared memory of version 1 of the database, for one agent           *)
(* (src/src/rtdb/rtdb_api.c): a segment of definitions, a segment for what *)
(* each agent shares and a local one.  Every process of the agent attaches *)
(* all of them in DB_init and detaches them in DB_free.  Who finds himself *)
(* alone lays the segments out, who was the last removes them; both look   *)
(* at the number of attachments only, and there is no lock.                *)
(*                                                                         *)
(* A process may be killed anywhere.  The kernel then detaches its         *)
(* segments, but removes none.  Getting and attaching a segment is one     *)
(* step, and so is detaching it, counting who is left and removing it.     *)
(***************************************************************************)
EXTENDS Integers, FiniteSets, SequencesExt

CONSTANTS
  Procs,       \* the processes of the agent
  Self,        \* the agent's number, AGENT
  Files,       \* configuration files a run may find, as sequences of lines
  Header,      \* sizeof(TRec)
  MaxAgents,   \* MAX_AGENTS
  MaxRecs,     \* MAX_RECS
  Ids,         \* the identifiers of records
  Serial,      \* while a process starts or stops, no other starts, stops or dies
  MaxCrashes   \* bound: processes killed

ASSUME SegmentsConstants ==
  /\ Self \in Nat /\ MaxAgents \in Nat \ {0} /\ MaxRecs \in Nat \ {0}
  /\ Header \in Nat \ {0}
  /\ Ids \subseteq Nat
  /\ \A f \in Files : f \in Seq([kind : {"agent", "shared", "local"}, id : Nat, size : Nat])
  /\ \A f \in Files : \A i \in DOMAIN f : f[i].kind # "agent" => f[i].id \in Ids
  /\ Serial \in BOOLEAN
  /\ MaxCrashes \in Nat

VARIABLES
  file,      \* the configuration file
  seg,       \* per key, a segment: size, 0 if there is none, and who is attached
  def,       \* what the segment of definitions holds, p_def
  hdr,       \* per key, the record headers the segment holds
  pc, got,   \* per process, where it is and the segments it attached, in order
  conf,      \* per process, rtdb_conf, which only read_configuration fills in
  \* history
  crashes,   \* processes killed so far
  failures,  \* starts that returned -1 (two stand for more), since one returned 0
             \* or a process was killed
  reused     \* segments of processes that were killed have been laid out again

segVars == <<file, seg, def, hdr, pc, got, conf, crashes, failures, reused>>

Agents == 0 .. MaxAgents - 1
\* Keys are counted from SHMEM_KEY; an agent has 4 * MAX_AGENTS of them.
DefKey == 0
SegKeys == DefKey .. MaxAgents + 1
NoRec == -1

NoSegment == [size |-> 0, att |-> {}]
\* A new segment is filled with zeros, so a new table sends every id to record 0.
NoDef == [n |-> 0, recs |-> [a \in Agents |-> 0],
          shared |-> [a \in Agents |-> 0], local |-> 0,
          lut |-> [a \in Agents |-> [i \in Ids |-> 0]]]
Uninitialised == <<>>

Init ==
  /\ file \in Files
  /\ seg = [k \in SegKeys |-> NoSegment]
  /\ def = NoDef
  /\ hdr = [k \in SegKeys |-> <<>>]
  /\ pc = [p \in Procs |-> "off"]
  /\ got = [p \in Procs |-> <<>>]
  /\ conf = [p \in Procs |-> Uninitialised]
  /\ crashes = 0 /\ failures = 0 /\ reused = FALSE
-----------------------------------------------------------------------------
(***************************************************************************)
(* read_configuration.  A line begins the next agent or is a record of it. *)
(* Agents are numbered from 0 on in the file; the code counts them, and    *)
(* uses their numbers, as if that were certain.  A file that cannot be     *)
(* read has no lines.                                                      *)
(***************************************************************************)
ReadLine(c, line) ==
  LET rec == [id |-> line.id, size |-> line.size]
  IN  CASE line.kind = "agent"  -> Append(c, [shared |-> <<>>, local |-> <<>>])
        [] line.kind = "shared" -> [c EXCEPT ![Len(c)].shared = Append(@, rec)]
        [] line.kind = "local"  -> [c EXCEPT ![Len(c)].local = Append(@, rec)]

TooLarge(c) ==
  \/ Len(c) > MaxAgents
  \/ \E i \in DOMAIN c : Len(c[i].shared) + Len(c[i].local) > MaxRecs

\* What the file says, <<>> if read_configuration fails.
ReadConfiguration(lines) ==
  LET read[n \in 0 .. Len(lines)] ==
        IF n = 0 THEN <<>> ELSE ReadLine(read[n - 1], lines[n])
      c == read[Len(lines)]
  IN  IF TooLarge(c) THEN <<>> ELSE c

\* The bytes of one bank of the first m records.
DataSize(recs, m) ==
  LET sum[n \in 0 .. Len(recs)] == IF n = 0 THEN 0 ELSE sum[n - 1] + recs[n].size
  IN  sum[m]

\* The sum starts from what the segment of definitions happens to hold.
AreaSize(old, recs) == (old + DataSize(recs, Len(recs))) * 2 + Header * Len(recs)

Loaded(d, c) ==
  [d EXCEPT
     !.n = Len(c),
     !.recs = [a \in Agents |-> IF a < Len(c) THEN Len(c[a + 1].shared) ELSE @[a]],
     !.shared = [a \in Agents |->
                   IF a < Len(c) THEN AreaSize(@[a], c[a + 1].shared) ELSE @[a]],
     !.local = IF Self < Len(c) THEN AreaSize(@, c[Self + 1].local) ELSE @]
-----------------------------------------------------------------------------
(* DB_initialization, in its order. *)

Busy(p) == pc[p] \notin {"off", "ready"}

MayMeddle(p) == Serial => \A q \in Procs \ {p} : ~Busy(q)

\* shmget fails for a new segment without a size, and for one that is smaller.
Shmget(k, size) ==
  IF seg[k].size = 0 THEN size > 0 ELSE size <= seg[k].size

AttachTo(p, k, size) ==
  /\ seg' = [seg EXCEPT ![k] = [size |-> IF @.size = 0 THEN size ELSE @.size,
                                att |-> @.att \union {p}]]
  /\ got' = [got EXCEPT ![p] = Append(@, k)]

Start(p) ==
  /\ pc[p] = "off"
  /\ MayMeddle(p)
  /\ AttachTo(p, DefKey, 1)
  /\ pc' = [pc EXCEPT ![p] = "load"]
  /\ conf' = [conf EXCEPT ![p] = Uninitialised]
  /\ UNCHANGED <<file, def, hdr, crashes, failures, reused>>

\* Faulty variant of IsFirst: nobody ever is.
IsNeverFirst(k) == Cardinality(seg[k].att) < 1

\* Faulty variant of IsFirst: everybody is.
IsAlwaysFirst(k) == Cardinality(seg[k].att) >= 1

IsFirst(k) == Cardinality(seg[k].att) = 1

\* The first to attach the definitions loads them.
Load(p) ==
  /\ pc[p] = "load"
  /\ IF ~IsFirst(DefKey)
     THEN /\ pc' = [pc EXCEPT ![p] = "attach"]
          /\ UNCHANGED <<def, conf>>
     ELSE LET c == ReadConfiguration(file)
          IN  IF Len(c) < 1
              THEN /\ pc' = [pc EXCEPT ![p] = "fail"]
                   /\ def' = [def EXCEPT !.n = 0]
                   /\ UNCHANGED conf
              ELSE /\ pc' = [pc EXCEPT ![p] = "attach"]
                   /\ def' = Loaded(def, c)
                   /\ conf' = [conf EXCEPT ![p] = c]
  /\ UNCHANGED <<file, seg, hdr, got, crashes, failures, reused>>

\* The areas have the keys after the definitions, the local one comes last.
LocalKey == DefKey + def.n + 1

SizeOf(k) ==
  IF k # LocalKey THEN def.shared[k - 1]
  ELSE IF def.local = 0 THEN 1 ELSE def.local

\* A segment that cannot be had ends the start.
Attach(p) ==
  LET k == DefKey + Len(got[p])
  IN  /\ pc[p] = "attach"
      /\ IF Shmget(k, SizeOf(k))
         THEN /\ AttachTo(p, k, SizeOf(k))
              /\ pc' = [pc EXCEPT ![p] = IF k = LocalKey THEN "check" ELSE @]
         ELSE /\ pc' = [pc EXCEPT ![p] = "fail"]
              /\ UNCHANGED <<seg, got>>
      /\ UNCHANGED <<file, def, hdr, conf, crashes, failures, reused>>

\* Faulty variant of NextOffset: as if offsets were counted from the segment.
NextOffsetAbsolute(offset, size) == offset + 2 * size

\* An offset is counted from the record's own header.
NextOffset(offset, size) == offset + 2 * size - Header

\* The headers of an area: its records one after the other, then their banks.
Layout(recs) ==
  LET offset[j \in 0 .. Len(recs)] ==
        IF j = 0 THEN Header * Len(recs) ELSE NextOffset(offset[j - 1], recs[j].size)
  IN  [j \in DOMAIN recs |-> [id |-> recs[j].id, size |-> recs[j].size,
                              offset |-> offset[j - 1], rb |-> 0]]

\* The place of an identifier in a list of records.
PlaceOf(recs, i) == {j \in DOMAIN recs : recs[j].id = i}

\* rec_lut, where the later entry stays and local records follow MAX_RECS.
Lookup(c) ==
  [a \in Agents |-> [i \in Ids |->
     IF a >= Len(c) THEN NoRec
     ELSE IF a = Self /\ PlaceOf(c[a + 1].local, i) # {}
     THEN MaxRecs + Max(PlaceOf(c[a + 1].local, i)) - 1
     ELSE IF PlaceOf(c[a + 1].shared, i) # {}
     THEN Max(PlaceOf(c[a + 1].shared, i)) - 1
     ELSE NoRec]]

\* What the areas hold once they are laid out; the banks stay as they are.
LaidOut(c) ==
  [k \in SegKeys |->
     IF k \in 1 .. Len(c) THEN Layout(c[k].shared)
     ELSE IF k = LocalKey /\ Self < Len(c) THEN Layout(c[Self + 1].local)
     ELSE hdr[k]]

\* The first to attach the local area lays all areas out, from its rtdb_conf.
\* (If that was never filled in, nothing is said of what the areas then hold.)
Check(p) ==
  /\ pc[p] = "check"
  /\ pc' = [pc EXCEPT ![p] = "ready"]
  /\ failures' = 0
  /\ IF IsFirst(LocalKey)
     THEN /\ def' = [def EXCEPT !.lut = Lookup(conf[p])]
          /\ hdr' = LaidOut(conf[p])
          /\ reused' = (reused \/ \E k \in SegKeys : hdr[k] # <<>>)
     ELSE UNCHANGED <<def, hdr, reused>>
  /\ UNCHANGED <<file, seg, got, conf, crashes>>
-----------------------------------------------------------------------------
(* _DB_free, of a process that stops or whose start has failed. *)

Leave(p) ==
  /\ pc[p] = "ready"
  /\ MayMeddle(p)
  /\ pc' = [pc EXCEPT ![p] = "free"]
  /\ UNCHANGED <<file, seg, def, hdr, got, conf, crashes, failures, reused>>

Remaining(p, k) == seg[k].att \ {p}

\* Faulty variant of IsLast: detached is detached, nobody counts anew.
IsLastTooEarly(p, k) == seg[k].att = {}

IsLast(p, k) == Remaining(p, k) = {}

\* The areas, then the local one, then the definitions.
NextDetached(p) == IF Len(got[p]) > 1 THEN 2 ELSE 1

Detach(p) ==
  LET i == NextDetached(p)
      k == got[p][i]
  IN  /\ pc[p] \in {"free", "fail"}
      /\ seg' = [seg EXCEPT ![k] = IF IsLast(p, k) THEN NoSegment
                                   ELSE [@ EXCEPT !.att = Remaining(p, k)]]
      /\ hdr' = [hdr EXCEPT ![k] = IF IsLast(p, k) THEN <<>> ELSE @]
      /\ def' = IF k = DefKey /\ IsLast(p, k) THEN NoDef ELSE def
      /\ got' = [got EXCEPT ![p] = RemoveAt(@, i)]
      /\ pc' = [pc EXCEPT ![p] = IF Len(got[p]) = 1 THEN "off" ELSE @]
      /\ failures' = IF pc[p] = "fail" /\ Len(got[p]) = 1 THEN Min({failures + 1, 2})
                   ELSE failures
      /\ UNCHANGED <<file, conf, crashes, reused>>

\* A process is killed: its segments are detached, and stay.
Crash(p) ==
  /\ crashes < MaxCrashes
  /\ pc[p] # "off"
  /\ MayMeddle(p)
  /\ crashes' = crashes + 1
  /\ seg' = [k \in SegKeys |-> [seg[k] EXCEPT !.att = @ \ {p}]]
  /\ got' = [got EXCEPT ![p] = <<>>]
  /\ pc' = [pc EXCEPT ![p] = "off"]
  /\ failures' = 0
  /\ UNCHANGED <<file, def, hdr, conf, reused>>

SegNext ==
  \E p \in Procs :
    \/ Start(p) \/ Load(p) \/ Attach(p) \/ Check(p)
    \/ Leave(p) \/ Detach(p) \/ Crash(p)
-----------------------------------------------------------------------------
States == {"off", "load", "attach", "check", "ready", "free", "fail"}

\* The types of the segments and of what the processes know of them.
SegTypeOK ==
  /\ seg \in [SegKeys -> [size : Nat, att : SUBSET Procs]]
  /\ def.n \in 0 .. MaxAgents /\ def.local \in Nat
  /\ def.recs \in [Agents -> Nat] /\ def.shared \in [Agents -> Nat]
  /\ def.lut \in [Agents -> [Ids -> Int]]
  /\ \A k \in SegKeys : \A j \in DOMAIN hdr[k] :
       hdr[k][j] \in [id : Ids, size : Nat, offset : Nat, rb : {0, 1}]
  /\ pc \in [Procs -> States]
  /\ \A p \in Procs : got[p] \in Seq(SegKeys)
  /\ \A p \in Procs : \A k \in SegKeys : p \in seg[k].att <=> k \in Range(got[p])
  /\ crashes \in 0 .. MaxCrashes /\ failures \in 0 .. 2 /\ reused \in BOOLEAN

\* DB_comm_ini: what comm is told of the records the agent shares.
CommIni ==
  [j \in 1 .. def.recs[Self] |->
     [id |-> hdr[DefKey + Self + 1][j].id, size |-> hdr[DefKey + Self + 1][j].size]]

\* Whoever has come back from DB_init finds the database as the configuration
\* file has it: every agent's area, every record of it under its identifier, no
\* other record, and everything attached; whoever came first, and whatever
\* processes that were killed have left behind (rtdb_api.c:278-394, 354-357).
ReadyMeansConfigured ==
  LET c == ReadConfiguration(file)
  IN  \A p \in Procs : pc[p] = "ready" =>
        /\ Self < Len(c) /\ def.n = Len(c)
        /\ Range(got[p]) = DefKey .. LocalKey
        /\ def.lut = Lookup(c)
        /\ CommIni = c[Self + 1].shared
        /\ \A k \in 1 .. Len(c) + 1 :
             LET recs == IF k = LocalKey THEN c[Self + 1].local ELSE c[k].shared
             IN  [j \in DOMAIN hdr[k] |-> [id |-> hdr[k][j].id, size |-> hdr[k][j].size]]
                   = recs

\* The bytes of a segment a record occupies: its header, then its two banks.
HeaderOf(j) == (j - 1) * Header .. j * Header - 1
BankAt(h, j, b) == (j - 1) * Header + h.offset + b * h.size
BanksOf(h, j) == BankAt(h, j, 0) .. BankAt(h, j, 1) + h.size - 1

\* No two records share a byte, no record reaches out of its segment, also where
\* the segment is a left over one (rtdb_api.c:306-308, 364-377).
RecordsApart ==
  \A k \in SegKeys : \A j \in DOMAIN hdr[k] :
    /\ BanksOf(hdr[k][j], j) \subseteq 0 .. seg[k].size - 1
    /\ \A i \in DOMAIN hdr[k] : HeaderOf(i) \cap BanksOf(hdr[k][j], j) = {}
    /\ \A i \in DOMAIN hdr[k] \ {j} :
         BanksOf(hdr[k][i], i) \cap BanksOf(hdr[k][j], j) = {}

\* shmget makes no segment of no bytes, which an agent that shares nothing needs.
Startable ==
  LET c == ReadConfiguration(file)
  IN  c # <<>> /\ \A i \in DOMAIN c : c[i].shared # <<>>

\* The segments of killed processes make a start fail, because their sizes are
\* added up once more and no segment is that large; but the failure takes the
\* definitions away, so that the next start succeeds (rtdb_api.c:297-308,
\* 316-321, 212-218).
FailureHeals == Startable => failures <= 1

\* Who comes and goes by DB_init and DB_free leaves nothing behind when the last
\* has gone, failed starts included (rtdb_api.c:184-219).
CleanExit ==
  (crashes = 0 /\ \A p \in Procs : pc[p] = "off") => seg = [k \in SegKeys |-> NoSegment]
=============================================================================
