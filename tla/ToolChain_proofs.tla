--------------------------- MODULE ToolChain_proofs ---------------------------
(***************************************************************************)
(* Theorems about the way from rtdb.conf to the details of a key, for      *)
(* every set of names, every file somebody may have left or edited, and    *)
(* any number of changes by hand.                                          *)
(***************************************************************************)
EXTENDS ToolChain, SequenceTheorems, FiniteSetTheorems, WellFoundedInduction, TLAPS

(***************************************************************************)
(* Induction over the natural numbers, for sets of them.                   *)
(***************************************************************************)
LEMMA SmallestNat ==
  ASSUME NEW T \in SUBSET Nat, T # {}
  PROVE  \E x \in T : \A y \in T : x <= y
<1>1. PICK x \in T : \A y \in T : ~ (<<y, x>> \in OpToRel(<, Nat))
  BY NatLessThanWellFounded, WFMin
<1>2. \A y \in T : ~(y < x)
  BY <1>1 DEF OpToRel
<1> QED  BY <1>2

LEMMA SetInduction ==
  ASSUME NEW S, 0 \in S, \A n \in Nat : n \in S => n + 1 \in S
  PROVE  Nat \subseteq S
<1> DEFINE T == {n \in Nat : n \notin S}
<1> SUFFICES ASSUME T # {} PROVE FALSE
  OBVIOUS
<1>1. PICK x \in T : \A y \in T : x <= y
  BY SmallestNat
<1>2. x - 1 \in Nat /\ x - 1 \notin T
  BY <1>1
<1> QED  BY <1>1, <1>2

\* A function on 0 .. N, given by its first value and its steps.
Goes(f, D, N, a, g) ==
  /\ f \in [0 .. N -> D] /\ f[0] = a
  /\ \A n \in 1 .. N : f[n] = g[<<f[n - 1], n>>]

LEMMA Steps ==
  ASSUME NEW D, NEW N \in Nat, NEW a \in D, NEW g \in [D \X (1 .. N) -> D]
  PROVE  \E f : Goes(f, D, N, a, g)
<1> DEFINE Good(f, m) ==
             /\ f \in [0 .. m -> D] /\ f[0] = a
             /\ \A n \in 1 .. m : f[n] = g[<<f[n - 1], n>>]
           S == {m \in Nat : m <= N => \E f : Good(f, m)}
<1>1. 0 \in S
  <2>1. Good([n \in 0 .. 0 |-> a], 0)
    OBVIOUS
  <2> QED  BY <2>1
<1>2. ASSUME NEW m \in Nat, m \in S PROVE m + 1 \in S
  <2> SUFFICES ASSUME m + 1 <= N PROVE \E f : Good(f, m + 1)
    OBVIOUS
  <2>1. PICK f : Good(f, m)
    BY <1>2
  <2> DEFINE h == [n \in 0 .. m + 1 |-> IF n = m + 1 THEN g[<<f[m], m + 1>>] ELSE f[n]]
  <2>2. h \in [0 .. m + 1 -> D]
    <3>1. \A n \in 0 .. m + 1 : n # m + 1 => n \in 0 .. m
      OBVIOUS
    <3>2. m \in 0 .. m /\ m + 1 \in 1 .. N
      OBVIOUS
    <3>3. g[<<f[m], m + 1>>] \in D
      BY <2>1, <3>2
    <3> QED  BY <2>1, <3>1, <3>3
  <2>3. h[0] = a
    BY <2>1
  <2>4. ASSUME NEW n \in 1 .. m + 1 PROVE h[n] = g[<<h[n - 1], n>>]
    <3>1. n - 1 \in 0 .. m /\ n - 1 # m + 1 /\ n - 1 \in 0 .. m + 1 /\ n \in 0 .. m + 1
      OBVIOUS
    <3>2. h[n - 1] = f[n - 1]
      BY <3>1
    <3>3. CASE n = m + 1
      BY <3>1, <3>2, <3>3
    <3>4. CASE n # m + 1
      BY <2>1, <3>1, <3>2, <3>4
    <3> QED  BY <3>3, <3>4
  <2>5. Good(h, m + 1)
    <3> HIDE DEF h
    <3> QED  BY <2>2, <2>3, <2>4
  <2> QED  BY <2>5
<1>3. N \in S
  <2> HIDE DEF S
  <2> QED  BY <1>1, <1>2, SetInduction
<1> QED  BY <1>3 DEF Goes

(***************************************************************************)
(* The invariant.                                                          *)
(***************************************************************************)
Places == Blocks \union {"user", "xml", "keys", "done", "aborted"}

Schema     == [id : SchemaNames, shared : Seq(Nat), local : Seq(Nat)]
Assignment == [schema : Nat, agents : SUBSET AgentNames]
Mention    == [num : Nat, shared : BOOLEAN]

\* What xrtdb has collected.
ListsInv ==
  /\ place \in Places
  /\ itList \in Seq(ItemNames) /\ Len(itList) <= MaxItems
  /\ \A i, j \in DOMAIN itList : itList[i] = itList[j] => i = j
  /\ schemaList \in Seq(Schema)
  /\ \A i \in DOMAIN schemaList :
       /\ \A j \in DOMAIN schemaList[i].shared : schemaList[i].shared[j] < Len(itList)
       /\ \A j \in DOMAIN schemaList[i].local : schemaList[i].local[j] < Len(itList)
  /\ place = "schema" => pSchema \in DOMAIN schemaList
  /\ assignList \in Seq(Assignment)
  /\ \A i \in DOMAIN assignList : assignList[i].schema <= Len(schemaList)
  /\ place = "assignment" => Len(assignList) # 0
  /\ \A i \in DOMAIN assignList :
       \/ assignList[i].schema # 0 /\ assignList[i].agents # {}
       \/ place = "assignment" /\ i = Len(assignList)

\* What it has made of the assigned items so far.
Met(n) == {j \in 1 .. met : Assigned[j].num = n}

MapInv ==
  /\ met = 0 => map = <<>> /\ answers = <<>>
  /\ place \notin {"keys", "done"} => met = 0
  /\ place = "done" => met = Len(Assigned) \/ met = 0
  /\ met # 0 =>
       /\ met \in 1 .. Len(Assigned)
       /\ map \in [{Assigned[j].num : j \in 1 .. met} -> BOOLEAN]
       /\ answers \in Seq(Mention)
       /\ \A n \in DOMAIN map :
            ~map[n] => Refused(n) \/ \A j \in Met(n) : ~Assigned[j].shared

\* What is in the files, and what is read of them.
FilesInv ==
  /\ xmlFile \in {NoFile, Broken} \/ IsXmlFile(xmlFile)
  /\ edits \in Nat /\ (edits # 0 => place \in {"done", "aborted"})
  /\ "user" \in written => place \in {"xml", "keys", "done", "aborted"}
  /\ "user" \in written /\ edits = 0 /\ place # "aborted" => userFile = UserFile
  /\ "xml" \in written => place = "done"
  /\ "xml" \in written /\ edits = 0 => xmlFile = XmlFile /\ met = Len(Assigned)
  /\ config # NotRead => place \in {"done", "aborted"} /\ config = Parse(xmlFile)

Inv == ListsInv /\ MapInv /\ FilesInv

(***************************************************************************)
(* What xrtdb has collected.                                               *)
(***************************************************************************)
LEMMA ListsStart ==
  ASSUME Init
  PROVE  ListsInv
BY XrtdbConstants DEF Init, XrtdbInit, ListsInv, Places, Blocks

LEMMA ListsForgotten ==
  ASSUME Forgotten, place' \in {"done", "aborted"}
  PROVE  ListsInv'
BY XrtdbConstants DEF Forgotten, ListsInv, Places

\* A step of main.
LEMMA ListsKept ==
  ASSUME ListsInv, UNCHANGED <<itList, schemaList, assignList>>,
         place # "assignment", place' \in Places \ {"schema", "assignment"}
  PROVE  ListsInv'
BY DEF ListsInv

LEMMA ElementSet ==
  ASSUME NEW S, NEW s \in Seq(S), NEW n \in 1 .. Len(s), NEW x \in S,
         NEW t, t = [s EXCEPT ![n] = x]
  PROVE  /\ t \in Seq(S) /\ Len(t) = Len(s) /\ DOMAIN t = 1 .. Len(s) /\ t[n] = x
         /\ \A i \in 1 .. Len(s) : i # n => t[i] = s[i]
OBVIOUS

LEMMA SchemaTypes ==
  ASSUME ListsInv, NEW i \in DOMAIN schemaList
  PROVE  /\ schemaList[i] \in Schema
         /\ schemaList[i].shared \in Seq(Nat) /\ schemaList[i].local \in Seq(Nat)
         /\ \A j \in DOMAIN schemaList[i].shared : schemaList[i].shared[j] \in Nat
         /\ \A j \in DOMAIN schemaList[i].local : schemaList[i].local[j] \in Nat
<1>1. schemaList \in Seq(Schema)
  BY DEF ListsInv
<1>2. schemaList[i] \in Schema
  BY <1>1
<1>3. schemaList[i].shared \in Seq(Nat) /\ schemaList[i].local \in Seq(Nat)
  BY <1>2 DEF Schema
<1> QED  BY <1>2, <1>3

LEMMA AgentsLists ==
  ASSUME ListsInv, NEW id \in AgentNames, AgentCreate(id) \/ AssignmentAddAgent(id)
  PROVE  ListsInv'
<1>1. CASE Abort
  BY <1>1, ListsForgotten DEF Abort
<1>2. CASE AgentCreate(id) /\ ~Abort
  <2>1. UNCHANGED <<place, itList, schemaList, assignList, pSchema>>
    BY <1>2 DEF AgentCreate
  <2> QED  BY <2>1 DEF ListsInv
<1>3. CASE AssignmentAddAgent(id) /\ ~Abort
  <2> DEFINE n == Len(assignList)
             x == [assignList[n] EXCEPT !.agents = @ \union {id}]
  <2>1. /\ place = "assignment" /\ UNCHANGED <<place, itList, schemaList, pSchema>>
        /\ assignList' = [assignList EXCEPT ![n] = x]
    BY <1>3 DEF AssignmentAddAgent
  <2>2. assignList \in Seq(Assignment) /\ Len(assignList) # 0
    BY <2>1 DEF ListsInv
  <2>3. n \in 1 .. n /\ DOMAIN assignList = 1 .. n /\ assignList[n] \in Assignment
    BY <2>2
  <2>4. x \in Assignment /\ x.schema = assignList[n].schema
    BY <2>3 DEF Assignment
  <2> HIDE DEF x
  <2>5. /\ assignList' \in Seq(Assignment) /\ DOMAIN assignList' = 1 .. n
        /\ Len(assignList') = n /\ assignList'[n] = x
        /\ \A i \in 1 .. n : i # n => assignList'[i] = assignList[i]
    <3> HIDE DEF n
    <3>1. n \in 1 .. Len(assignList)
      BY <2>3 DEF n
    <3>2. PICK t : t = assignList'
      OBVIOUS
    <3>3. t = [assignList EXCEPT ![n] = x]
      BY <2>1, <3>2
    <3>4. /\ t \in Seq(Assignment) /\ Len(t) = Len(assignList)
          /\ DOMAIN t = 1 .. Len(assignList) /\ t[n] = x
          /\ \A i \in 1 .. Len(assignList) : i # n => t[i] = assignList[i]
      BY ONLY <2>2, <2>4, <3>1, <3>3, ElementSet
    <3> QED  BY <3>2, <3>4 DEF n
  <2>6. \A i \in DOMAIN assignList' : assignList'[i].schema <= Len(schemaList)
    BY <2>3, <2>4, <2>5 DEF ListsInv
  <2>7. \A i \in DOMAIN assignList' :
          \/ assignList'[i].schema # 0 /\ assignList'[i].agents # {}
          \/ place' = "assignment" /\ i = Len(assignList')
    BY <2>1, <2>3, <2>5 DEF ListsInv
  <2>8. Len(assignList') # 0
    BY <2>2, <2>5
  <2> HIDE DEF n
  <2> QED  BY <2>1, <2>5, <2>6, <2>7, <2>8 DEF ListsInv
<1> QED  BY <1>1, <1>2, <1>3

LEMMA ItemsLists ==
  ASSUME ListsInv,
         \/ \E id \in ItemNames : ItemCreate(id)
         \/ ItemAddDatatype \/ ItemAddHeaderfile \/ ItemAddPeriod \/ ItemVerify
  PROVE  ListsInv'
<1>1. CASE Abort
  BY <1>1, ListsForgotten DEF Abort
<1>2. ASSUME NEW id \in ItemNames, ItemCreate(id), ~Abort PROVE ListsInv'
  <2>1. /\ Len(itList) < MaxItems /\ itList' = Append(itList, id) /\ place' = "item"
        /\ place = "top" /\ ~Contains(itList, id)
        /\ UNCHANGED <<schemaList, assignList, pSchema>>
    BY <1>2 DEF ItemCreate
  <2>2. itList \in Seq(ItemNames) /\ Len(itList) \in Nat /\ DOMAIN itList = 1 .. Len(itList)
    BY DEF ListsInv
  <2>3. /\ itList' \in Seq(ItemNames) /\ Len(itList') = Len(itList) + 1
        /\ DOMAIN itList' = 1 .. Len(itList) + 1 /\ itList'[Len(itList) + 1] = id
        /\ \A i \in 1 .. Len(itList) : itList'[i] = itList[i]
    BY <2>1, <2>2
  <2>4. \A i \in 1 .. Len(itList) : itList[i] # id
    BY <2>1 DEF Contains
  <2>5. ASSUME NEW i \in DOMAIN itList', NEW j \in DOMAIN itList', itList'[i] = itList'[j]
        PROVE  i = j
    <3> DEFINE n == Len(itList)
    <3>1. n \in Nat /\ i \in 1 .. n + 1 /\ j \in 1 .. n + 1
      BY <2>2, <2>3
    <3>2. \A k \in 1 .. n + 1 : k = n + 1 \/ k \in 1 .. n
      BY <3>1
    <3> HIDE DEF n
    <3>3. \A k, l \in 1 .. n : itList[k] = itList[l] => k = l
      BY <2>2 DEF ListsInv, n
    <3>4. /\ \A k \in 1 .. n : itList'[k] = itList[k] /\ itList[k] # id
          /\ itList'[n + 1] = id
      BY <2>3, <2>4 DEF n
    <3> QED  BY <2>5, <3>1, <3>2, <3>3, <3>4
  <2>6. Len(itList') <= MaxItems
    BY <2>1, <2>2, <2>3, XrtdbConstants
  <2>7. ASSUME NEW i \in DOMAIN schemaList
        PROVE  /\ \A j \in DOMAIN schemaList[i].shared : schemaList[i].shared[j] < Len(itList')
               /\ \A j \in DOMAIN schemaList[i].local : schemaList[i].local[j] < Len(itList')
    <3>1. /\ \A j \in DOMAIN schemaList[i].shared : schemaList[i].shared[j] \in Nat
          /\ \A j \in DOMAIN schemaList[i].local : schemaList[i].local[j] \in Nat
      BY SchemaTypes
    <3> DEFINE m == Len(itList)
    <3>2. /\ \A j \in DOMAIN schemaList[i].shared : schemaList[i].shared[j] < m
          /\ \A j \in DOMAIN schemaList[i].local : schemaList[i].local[j] < m
      BY DEF ListsInv
    <3>3. m \in Nat /\ Len(itList') = m + 1
      BY <2>2, <2>3
    <3> HIDE DEF m
    <3> QED  BY <3>1, <3>2, <3>3
  <2> QED  BY <2>1, <2>3, <2>5, <2>6, <2>7 DEF ListsInv, Places, Blocks
<1>3. CASE /\ ItemAddDatatype \/ ItemAddHeaderfile \/ ItemAddPeriod \/ ItemVerify
           /\ ~Abort
  <2>1. /\ place = "item" /\ place' \in {"item", "top"}
        /\ UNCHANGED <<itList, schemaList, assignList, pSchema>>
    BY <1>3 DEF ItemAddDatatype, ItemAddHeaderfile, AddField, ItemAddPeriod, ItemVerify,
                xrtdbVars, listVars
  <2> QED  BY <2>1, ListsKept DEF Places, Blocks
<1> QED  BY <1>1, <1>2, <1>3

LEMMA NumberIsPlace ==
  ASSUME ListsInv, NEW id \in ItemNames, Contains(itList, id)
  PROVE  /\ NumberOf(id) \in 0 .. Len(itList) - 1
         /\ NumberOf(id) \in Nat /\ NumberOf(id) < Len(itList)
<1>1. itList \in Seq(ItemNames) /\ Len(itList) \in Nat
  BY DEF ListsInv
<1>2. PICK i \in 1 .. Len(itList) : itList[i] = id
  BY DEF Contains
<1>3. i - 1 \in 0 .. Len(itList) - 1 /\ itList[(i - 1) + 1] = id
  BY <1>1, <1>2
<1>4. NumberOf(id) \in 0 .. Len(itList) - 1
  BY <1>3 DEF NumberOf
<1> QED  BY <1>1, <1>4

LEMMA ItemAdded ==
  ASSUME NEW items \in Seq(Nat), NEW n \in Nat, NEW m \in Nat, n < m,
         \A j \in DOMAIN items : items[j] < m
  PROVE  /\ WithItem(items, n) \in Seq(Nat)
         /\ \A j \in DOMAIN WithItem(items, n) : WithItem(items, n)[j] < m
<1>1. CASE Contains(items, n)
  BY <1>1 DEF WithItem
<1>2. CASE ~Contains(items, n)
  <2>1. WithItem(items, n) = Append(items, n)
    BY <1>2 DEF WithItem
  <2>2. Append(items, n) \in Seq(Nat) /\ DOMAIN Append(items, n) = 1 .. Len(items) + 1
    OBVIOUS
  <2>3. ASSUME NEW j \in 1 .. Len(items) + 1 PROVE Append(items, n)[j] < m
    <3>1. CASE j = Len(items) + 1
      BY <3>1
    <3>2. CASE j # Len(items) + 1
      <4>1. j \in DOMAIN items
        BY <3>2
      <4> QED  BY <4>1
    <3> QED  BY <3>1, <3>2
  <2> QED  BY <2>1, <2>2, <2>3
<1> QED  BY <1>1, <1>2

\* An item more in the open schema.
LEMMA SchemaExtended ==
  ASSUME ListsInv, place = "schema", NEW x \in Schema,
         \A j \in DOMAIN x.shared : x.shared[j] < Len(itList),
         \A j \in DOMAIN x.local : x.local[j] < Len(itList),
         schemaList' = [schemaList EXCEPT ![pSchema] = x],
         UNCHANGED <<place, itList, assignList, pSchema>>
  PROVE  ListsInv'
<1>1. schemaList \in Seq(Schema) /\ pSchema \in DOMAIN schemaList
  BY DEF ListsInv
<1>2. PICK p, t : p = pSchema /\ t = schemaList'
  OBVIOUS
<1>3. p \in 1 .. Len(schemaList) /\ t = [schemaList EXCEPT ![p] = x]
  BY <1>1, <1>2
<1>4. /\ t \in Seq(Schema) /\ Len(t) = Len(schemaList)
      /\ DOMAIN t = 1 .. Len(schemaList) /\ t[p] = x
      /\ \A i \in 1 .. Len(schemaList) : i # p => t[i] = schemaList[i]
  BY ONLY <1>1, <1>3, ElementSet
<1>5. DOMAIN schemaList' = DOMAIN schemaList
  BY <1>1, <1>2, <1>4
<1>6. \A i \in DOMAIN schemaList' :
        /\ \A j \in DOMAIN schemaList'[i].shared : schemaList'[i].shared[j] < Len(itList)
        /\ \A j \in DOMAIN schemaList'[i].local : schemaList'[i].local[j] < Len(itList)
  <2> SUFFICES ASSUME NEW i \in DOMAIN schemaList'
               PROVE  /\ \A j \in DOMAIN t[i].shared : t[i].shared[j] < Len(itList)
                      /\ \A j \in DOMAIN t[i].local : t[i].local[j] < Len(itList)
    BY <1>2
  <2>1. CASE i = p
    BY <1>4, <2>1
  <2>2. CASE i # p
    BY <1>1, <1>4, <1>5, <2>2 DEF ListsInv
  <2> QED  BY <2>1, <2>2
<1> QED  BY <1>2, <1>4, <1>5, <1>6 DEF ListsInv

LEMMA SchemasLists ==
  ASSUME ListsInv,
         \/ \E id \in SchemaNames : SchemaCreate(id)
         \/ \E id \in ItemNames : SchemaAddSharedItem(id) \/ SchemaAddLocalItem(id)
         \/ SchemaVerify
  PROVE  ListsInv'
<1>1. CASE Abort
  BY <1>1, ListsForgotten DEF Abort
<1>2. ASSUME NEW id \in SchemaNames, SchemaCreate(id) PROVE ListsInv'
  <2>1. /\ place = "top" /\ place' = "schema" /\ UNCHANGED <<itList, assignList>>
        /\ schemaList \in Seq(Schema) /\ Len(schemaList) \in Nat
        /\ DOMAIN schemaList = 1 .. Len(schemaList)
    BY <1>2 DEF SchemaCreate, ListsInv
  <2>2. CASE IndexOfSchema(id) # {}
    <3>1. pSchema' \in DOMAIN schemaList /\ UNCHANGED schemaList
      BY <1>2, <2>2 DEF SchemaCreate, IndexOfSchema
    <3> QED  BY <2>1, <3>1 DEF ListsInv, Places, Blocks
  <2>3. CASE IndexOfSchema(id) = {}
    <3> DEFINE new == [id |-> id, shared |-> <<>>, local |-> <<>>]
    <3>1. /\ schemaList' = Append(schemaList, new) /\ pSchema' = Len(schemaList')
          /\ assignList = <<>>
      BY <1>2, <2>3 DEF SchemaCreate
    <3>2. new \in Schema /\ DOMAIN new.shared = {} /\ DOMAIN new.local = {}
      BY DEF Schema
    <3> HIDE DEF new
    <3>3. /\ schemaList' \in Seq(Schema) /\ Len(schemaList') = Len(schemaList) + 1
          /\ DOMAIN schemaList' = 1 .. Len(schemaList) + 1
          /\ schemaList'[Len(schemaList) + 1] = new
          /\ \A i \in 1 .. Len(schemaList) : schemaList'[i] = schemaList[i]
      BY <2>1, <3>1, <3>2
    <3>4. ASSUME NEW i \in DOMAIN schemaList'
          PROVE  /\ \A j \in DOMAIN schemaList'[i].shared :
                      schemaList'[i].shared[j] < Len(itList)
                 /\ \A j \in DOMAIN schemaList'[i].local :
                      schemaList'[i].local[j] < Len(itList)
      <4>1. CASE i = Len(schemaList) + 1
        BY <3>2, <3>3, <4>1
      <4>2. CASE i # Len(schemaList) + 1
        <5>1. i \in DOMAIN schemaList /\ schemaList'[i] = schemaList[i]
          BY <2>1, <3>3, <4>2
        <5> QED  BY <5>1 DEF ListsInv
      <4> QED  BY <4>1, <4>2
    <3>5. pSchema' \in DOMAIN schemaList' /\ DOMAIN assignList = {}
      BY <2>1, <3>1, <3>3
    <3> QED  BY <2>1, <3>3, <3>4, <3>5 DEF ListsInv, Places, Blocks
  <2> QED  BY <2>2, <2>3
<1>3. ASSUME NEW id \in ItemNames, ~Abort,
             SchemaAddSharedItem(id) \/ SchemaAddLocalItem(id)
      PROVE  ListsInv'
  <2> DEFINE s == schemaList[pSchema]
             a == [s EXCEPT !.shared = WithItem(@, NumberOf(id))]
             b == [s EXCEPT !.local = WithItem(@, NumberOf(id))]
  <2>1. /\ place = "schema" /\ Contains(itList, id)
        /\ UNCHANGED <<place, itList, assignList, pSchema>>
        /\ \/ schemaList' = [schemaList EXCEPT ![pSchema] = a]
           \/ schemaList' = [schemaList EXCEPT ![pSchema] = b]
    BY <1>3 DEF SchemaAddSharedItem, SchemaAddLocalItem
  <2>2. /\ s \in Schema /\ s.shared \in Seq(Nat) /\ s.local \in Seq(Nat)
        /\ \A j \in DOMAIN s.shared : s.shared[j] < Len(itList)
        /\ \A j \in DOMAIN s.local : s.local[j] < Len(itList)
    BY <2>1, SchemaTypes DEF ListsInv
  <2>3. /\ NumberOf(id) \in Nat /\ NumberOf(id) < Len(itList) /\ Len(itList) \in Nat
    BY SMTT(30), <2>1, NumberIsPlace DEF ListsInv
  <2> DEFINE sh == WithItem(s.shared, NumberOf(id))
             lo == WithItem(s.local, NumberOf(id))
  <2>4. /\ sh \in Seq(Nat) /\ \A j \in DOMAIN sh : sh[j] < Len(itList)
        /\ lo \in Seq(Nat) /\ \A j \in DOMAIN lo : lo[j] < Len(itList)
    BY <2>2, <2>3, ItemAdded
  <2>5. /\ a = [s EXCEPT !.shared = sh] /\ b = [s EXCEPT !.local = lo]
    OBVIOUS
  <2> HIDE DEF s, sh, lo, a, b
  <2>6. /\ a \in Schema /\ a.shared = sh /\ a.local = s.local
        /\ b \in Schema /\ b.shared = s.shared /\ b.local = lo
    BY <2>2, <2>4, <2>5 DEF Schema
  <2>7. CASE schemaList' = [schemaList EXCEPT ![pSchema] = a]
    BY <2>1, <2>2, <2>4, <2>6, <2>7, SchemaExtended
  <2>8. CASE schemaList' = [schemaList EXCEPT ![pSchema] = b]
    BY <2>1, <2>2, <2>4, <2>6, <2>8, SchemaExtended
  <2> QED  BY <2>1, <2>7, <2>8
<1>4. CASE SchemaVerify /\ ~Abort
  <2>1. place = "schema" /\ place' = "top" /\ UNCHANGED <<itList, schemaList, assignList>>
    BY <1>4 DEF SchemaVerify
  <2> QED  BY <2>1, ListsKept DEF Places, Blocks
<1> QED  BY <1>1, <1>2, <1>3, <1>4

LEMMA AssignmentsLists ==
  ASSUME ListsInv,
         \/ AssignmentCreate \/ AssignmentVerify
         \/ \E id \in SchemaNames : AssignmentAddSchema(id)
  PROVE  ListsInv'
<1>1. CASE Abort
  BY <1>1, ListsForgotten DEF Abort
<1> DEFINE n == Len(assignList)
<1>2. /\ assignList \in Seq(Assignment) /\ n \in Nat /\ DOMAIN assignList = 1 .. n
      /\ schemaList \in Seq(Schema) /\ Len(schemaList) \in Nat
  BY DEF ListsInv
<1>3. CASE AssignmentCreate
  <2> DEFINE new == [schema |-> 0, agents |-> {}]
  <2>1. /\ place = "top" /\ place' = "assignment" /\ assignList' = Append(assignList, new)
        /\ UNCHANGED <<itList, schemaList, pSchema>>
    BY <1>3 DEF AssignmentCreate
  <2>2. new \in Assignment /\ new.schema = 0
    BY DEF Assignment
  <2> HIDE DEF new
  <2>3. /\ assignList' \in Seq(Assignment) /\ Len(assignList') = n + 1
        /\ DOMAIN assignList' = 1 .. n + 1 /\ assignList'[n + 1] = new
        /\ \A i \in 1 .. n : assignList'[i] = assignList[i]
    BY <1>2, <2>1, <2>2
  <2>4. \A i \in 1 .. n + 1 : i = n + 1 \/ i \in 1 .. n
    BY <1>2
  <2>5. \A i \in DOMAIN assignList' :
          /\ assignList'[i].schema <= Len(schemaList)
          /\ \/ assignList'[i].schema # 0 /\ assignList'[i].agents # {}
             \/ i = n + 1
    <3> HIDE DEF n
    <3>1. \A i \in 1 .. n : /\ assignList[i].schema <= Len(schemaList)
                            /\ assignList[i].schema # 0 /\ assignList[i].agents # {}
      BY <1>2, <2>1 DEF ListsInv
    <3>2. new.schema <= Len(schemaList)
      BY <1>2, <2>2
    <3> QED  BY <2>3, <2>4, <3>1, <3>2
  <2>6. n + 1 # 0
    BY <1>2
  <2> HIDE DEF n
  <2> QED  BY <2>1, <2>3, <2>5, <2>6 DEF ListsInv, Places, Blocks
<1>4. ASSUME NEW id \in SchemaNames, AssignmentAddSchema(id), ~Abort PROVE ListsInv'
  <2>1. PICK k \in IndexOfSchema(id) :
          assignList' = [assignList EXCEPT ![n].schema = k]
    BY <1>4 DEF AssignmentAddSchema
  <2> DEFINE x == [assignList[n] EXCEPT !.schema = k]
  <2>2. /\ place = "assignment" /\ UNCHANGED <<place, itList, schemaList, pSchema>>
        /\ assignList' = [assignList EXCEPT ![n] = x]
    BY <1>4, <2>1 DEF AssignmentAddSchema
  <2>3. n \in 1 .. n /\ assignList[n] \in Assignment
    BY <1>2, <2>2 DEF ListsInv
  <2>4. k \in Nat /\ k <= Len(schemaList)
    BY <1>2 DEF IndexOfSchema
  <2>5. x \in Assignment /\ x.schema = k
    BY <2>3, <2>4 DEF Assignment
  <2> HIDE DEF x
  <2>6. /\ assignList' \in Seq(Assignment) /\ DOMAIN assignList' = 1 .. n
        /\ Len(assignList') = n /\ assignList'[n] = x
        /\ \A i \in 1 .. n : i # n => assignList'[i] = assignList[i]
    <3> HIDE DEF n
    <3>1. n \in 1 .. Len(assignList)
      BY <2>3 DEF n
    <3>2. PICK t : t = assignList'
      OBVIOUS
    <3>3. t = [assignList EXCEPT ![n] = x]
      BY <2>2, <3>2
    <3>4. /\ t \in Seq(Assignment) /\ Len(t) = Len(assignList)
          /\ DOMAIN t = 1 .. Len(assignList) /\ t[n] = x
          /\ \A i \in 1 .. Len(assignList) : i # n => t[i] = assignList[i]
      BY ONLY <1>2, <2>5, <3>1, <3>3, ElementSet
    <3> QED  BY <3>2, <3>4 DEF n
  <2>7. \A i \in DOMAIN assignList' :
          /\ assignList'[i].schema <= Len(schemaList)
          /\ \/ assignList'[i].schema # 0 /\ assignList'[i].agents # {}
             \/ i = n
    BY <1>2, <2>2, <2>4, <2>5, <2>6 DEF ListsInv
  <2>8. n # 0
    BY <2>3
  <2> HIDE DEF n
  <2> QED  BY <2>2, <2>6, <2>7, <2>8 DEF ListsInv
<1>5. CASE AssignmentVerify /\ ~Abort
  <2>1. /\ place = "assignment" /\ place' = "top"
        /\ assignList[n].schema # 0 /\ assignList[n].agents # {}
        /\ UNCHANGED <<itList, schemaList, assignList, pSchema>>
    BY <1>5 DEF AssignmentVerify, pAssign, listVars
  <2>2. \A i \in DOMAIN assignList : assignList[i].schema # 0 /\ assignList[i].agents # {}
    BY <2>1 DEF ListsInv
  <2> HIDE DEF n
  <2> QED  BY <2>1, <2>2 DEF ListsInv, Places, Blocks
<1> QED  BY <1>1, <1>3, <1>4, <1>5

LEMMA MainLists ==
  ASSUME ListsInv, Main \/ EndOfFile \/ RaiseError
  PROVE  ListsInv'
<1>1. CASE Abort
  BY <1>1, ListsForgotten DEF Abort
<1>2. CASE ~Abort
  <2>1. /\ UNCHANGED <<itList, schemaList, assignList>>
        /\ place \notin {"item", "schema", "assignment"}
        /\ place' \in {"user", "aborted", "xml", "done", "keys"}
    BY <1>2 DEF Main, EndOfFile, RaiseError, NoUserFile, PrintUserFile, NoXmlFile,
         OpenXmlFile, AnalyzeAssignmentList, PrintRtDB2File, NoAnswer, AfterUserFile,
         listVars
  <2> QED  BY <2>1, ListsKept DEF Places
<1> QED  BY <1>1, <1>2

LEMMA ListsNext ==
  ASSUME ListsInv, [Next]_vars
  PROVE  ListsInv'
<1>1. CASE Grammar
  BY <1>1, AgentsLists, ItemsLists, SchemasLists, AssignmentsLists, MainLists DEF Grammar
<1>2. CASE Main
  BY <1>2, MainLists
<1>3. CASE Edit
  BY <1>3, ListsForgotten DEF Edit, Editable
<1>4. CASE Load \/ UNCHANGED vars
  BY <1>4 DEF Load, vars, xrtdbVars, listVars, ListsInv
<1> QED  BY <1>1, <1>2, <1>3, <1>4 DEF Next, Generate, XrtdbNext

(***************************************************************************)
(* The assigned items.                                                     *)
(***************************************************************************)
\* The schema of an assignment.
SchemaOf(i) == schemaList[assignList[i].schema]

LEMMA AssignmentTypes ==
  ASSUME ListsInv, place # "assignment", NEW i \in 1 .. Len(assignList)
  PROVE  /\ assignList[i].schema \in DOMAIN schemaList /\ assignList[i].agents # {}
         /\ SchemaOf(i).shared \in Seq(Nat) /\ SchemaOf(i).local \in Seq(Nat)
         /\ \A k \in DOMAIN SchemaOf(i).shared : SchemaOf(i).shared[k] \in 0 .. Len(itList) - 1
         /\ \A k \in DOMAIN SchemaOf(i).local : SchemaOf(i).local[k] \in 0 .. Len(itList) - 1
<1> DEFINE m == Len(itList)
           s == assignList[i].schema
<1>1. assignList \in Seq(Assignment) /\ schemaList \in Seq(Schema) /\ m \in Nat
  BY DEF ListsInv
<1>2. s \in Nat /\ i \in DOMAIN assignList
  <2>1. i \in DOMAIN assignList /\ assignList[i] \in Assignment
    BY <1>1
  <2> QED  BY <2>1 DEF Assignment
<1>3. s # 0 /\ assignList[i].agents # {} /\ s <= Len(schemaList)
  BY <1>2 DEF ListsInv
<1>4. s \in DOMAIN schemaList
  BY <1>1, <1>2, <1>3
<1> HIDE DEF s
<1>5. /\ \A k \in DOMAIN schemaList[s].shared : schemaList[s].shared[k] < m
      /\ \A k \in DOMAIN schemaList[s].local : schemaList[s].local[k] < m
  BY <1>4 DEF ListsInv
<1> HIDE DEF m
<1>6. /\ schemaList[s].shared \in Seq(Nat) /\ schemaList[s].local \in Seq(Nat)
      /\ \A k \in DOMAIN schemaList[s].shared : schemaList[s].shared[k] \in 0 .. m - 1
      /\ \A k \in DOMAIN schemaList[s].local : schemaList[s].local[k] \in 0 .. m - 1
  BY SMTT(30), <1>1, <1>4, <1>5, SchemaTypes
<1> QED  BY <1>3, <1>4, <1>6 DEF SchemaOf, m, s

\* The elements of a concatenation.
LEMMA Joined ==
  ASSUME NEW S, NEW s \in Seq(S), NEW t \in Seq(S)
  PROVE  /\ s \o t \in Seq(S)
         /\ \A x : Contains(s \o t, x) <=> Contains(s, x) \/ Contains(t, x)
<1> DEFINE p == Len(s)
           q == Len(t)
           u == s \o t
<1>1. /\ p \in Nat /\ q \in Nat /\ DOMAIN s = 1 .. p /\ DOMAIN t = 1 .. q
      /\ u \in Seq(S) /\ DOMAIN u = 1 .. p + q
      /\ \A j \in 1 .. p + q : u[j] = IF j <= p THEN s[j] ELSE t[j - p]
  OBVIOUS
<1>0. Len(u) = p + q
  OBVIOUS
<1> SUFFICES \A x : (\E j \in 1 .. p + q : u[j] = x) <=>
               \/ \E j \in 1 .. p : s[j] = x
               \/ \E j \in 1 .. q : t[j] = x
  BY <1>0, <1>1 DEF Contains
<1> HIDE DEF u, p, q
<1>2. ASSUME NEW j \in 1 .. p + q
      PROVE  (\E k \in 1 .. p : s[k] = u[j]) \/ (\E k \in 1 .. q : t[k] = u[j])
  <2>1. CASE j <= p
    <3>1. j \in 1 .. p
      BY <1>1, <2>1
    <3> QED  BY <1>1, <2>1, <3>1
  <2>2. CASE ~(j <= p)
    <3>1. j - p \in 1 .. q
      BY <1>1, <2>2
    <3> QED  BY <1>1, <2>2, <3>1
  <2> QED  BY <2>1, <2>2
<1>3. ASSUME NEW k \in 1 .. p PROVE \E j \in 1 .. p + q : u[j] = s[k]
  <2>1. k \in 1 .. p + q /\ k <= p
    BY <1>1
  <2> QED  BY <1>1, <2>1
<1>4. ASSUME NEW k \in 1 .. q PROVE \E j \in 1 .. p + q : u[j] = t[k]
  <2>1. p + k \in 1 .. p + q /\ ~(p + k <= p) /\ (p + k) - p = k
    BY <1>1
  <2> QED  BY <1>1, <2>1
<1> QED  BY SMTT(30), <1>2, <1>3, <1>4

\* Mentions is the shared items of a schema and then the local ones.
LEMMA MentionsMean ==
  ASSUME NEW sc, sc.shared \in Seq(Nat), sc.local \in Seq(Nat)
  PROVE  /\ Mentions(sc) \in Seq(Mention)
         /\ \A x : Contains(Mentions(sc), x) <=>
              \/ \E k \in DOMAIN sc.shared : [num |-> sc.shared[k], shared |-> TRUE] = x
              \/ \E k \in DOMAIN sc.local : [num |-> sc.local[k], shared |-> FALSE] = x
<1> DEFINE p == Len(sc.shared)
           q == Len(sc.local)
           s == [j \in DOMAIN sc.shared |-> [num |-> sc.shared[j], shared |-> TRUE]]
           l == [j \in DOMAIN sc.local |-> [num |-> sc.local[j], shared |-> FALSE]]
<1>1. /\ p \in Nat /\ DOMAIN sc.shared = 1 .. p /\ \A j \in 1 .. p : sc.shared[j] \in Nat
      /\ q \in Nat /\ DOMAIN sc.local = 1 .. q /\ \A j \in 1 .. q : sc.local[j] \in Nat
  OBVIOUS
<1>2. s \in Seq(Mention)
  <2>1. s \in [1 .. p -> Mention]
    BY <1>1 DEF Mention
  <2> QED  BY <1>1, <2>1
<1>3. l \in Seq(Mention)
  <2>1. l \in [1 .. q -> Mention]
    BY <1>1 DEF Mention
  <2> QED  BY <1>1, <2>1
<1>4. Mentions(sc) = s \o l
  BY DEF Mentions
<1>5. /\ \A x : Contains(s, x) <=>
             \E k \in DOMAIN sc.shared : [num |-> sc.shared[k], shared |-> TRUE] = x
      /\ \A x : Contains(l, x) <=>
             \E k \in DOMAIN sc.local : [num |-> sc.local[k], shared |-> FALSE] = x
  <2>1. Len(s) = p /\ Len(l) = q
    BY <1>1
  <2> HIDE DEF p, q
  <2> QED  BY <1>1, <2>1 DEF Contains
<1> HIDE DEF s, l
<1>6. /\ s \o l \in Seq(Mention)
      /\ \A x : Contains(s \o l, x) <=> Contains(s, x) \/ Contains(l, x)
  BY <1>2, <1>3, Joined
<1> QED  BY <1>4, <1>5, <1>6

\* What is assigned is what the assigned schemas mention.
LEMMA AssignedIsMentioned ==
  ASSUME ListsInv, place # "assignment"
  PROVE  /\ Assigned \in Seq(Mention)
         /\ \A x : Contains(Assigned, x) <=>
              \E i \in DOMAIN assignList : Contains(Mentions(SchemaOf(i)), x)
<1> DEFINE N == Len(assignList)
           D == Seq(Mention)
           M(n) == Mentions(SchemaOf(n))
           J(s, n) == s \o M(n)
           g == [x \in D \X (1 .. N) |-> J(x[1], x[2])]
           Def(r) == r = [n \in 0 .. N |-> IF n = 0 THEN <<>> ELSE J(r[n - 1], n)]
           upTo == CHOOSE r : Def(r)
<1>1. N \in Nat /\ DOMAIN assignList = 1 .. N
  BY DEF ListsInv
<1>2. \A n \in 1 .. N : M(n) \in D
  BY AssignmentTypes, MentionsMean
<1>3. g \in [D \X (1 .. N) -> D]
  <2> HIDE DEF M, N
  <2> QED  BY <1>2
<1>4. PICK r \in [0 .. N -> D] : r[0] = <<>> /\ \A n \in 1 .. N : r[n] = g[<<r[n - 1], n>>]
  <2> DEFINE none == <<>>
  <2>1. none \in D
    OBVIOUS
  <2> HIDE DEF N, D, g, none
  <2>2. \E r : Goes(r, D, N, none, g)
    BY <1>1, <1>3, <2>1, Steps
  <2> QED  BY <2>2 DEF none, Goes
<1>5. Def(r)
  <2>1. \A n \in 1 .. N : r[n] = J(r[n - 1], n)
    <3>1. \A n \in 1 .. N : n - 1 \in 0 .. N
      BY <1>1
    <3> HIDE DEF N, D, J
    <3> QED  BY <1>4, <3>1
  <2> HIDE DEF N, D, g, J
  <2> QED  BY <1>1, <1>4, <2>1
<1>6. Def(upTo)
  <2> HIDE DEF Def
  <2> QED  BY <1>5
<1>7. Assigned = upTo[N]
  BY DEF Assigned, SchemaOf
<1> HIDE DEF upTo
<1>8. /\ upTo[0] = <<>>
      /\ \A n \in 1 .. N : upTo[n] = J(upTo[n - 1], n)
  <2> HIDE DEF N, J
  <2> QED  BY <1>1, <1>6
<1> DEFINE Good(n) == /\ upTo[n] \in D
                      /\ \A x : Contains(upTo[n], x) <=> \E i \in 1 .. n : Contains(M(i), x)
           S == {n \in Nat : n <= N => Good(n)}
<1>9. 0 \in S
  <2>1. Good(0)
    BY <1>8 DEF Contains
  <2> QED  BY <2>1
<1>10. ASSUME NEW n \in Nat, n \in S PROVE n + 1 \in S
  <2> SUFFICES ASSUME n + 1 <= N PROVE Good(n + 1)
    OBVIOUS
  <2>1. n + 1 \in 1 .. N /\ Good(n) /\ (n + 1) - 1 = n
    BY <1>1, <1>10
  <2>2. upTo[n + 1] = upTo[n] \o M(n + 1)
    BY <1>8, <2>1
  <2>3. \A i : i \in 1 .. n + 1 <=> i \in 1 .. n \/ i = n + 1
    OBVIOUS
  <2>4. M(n + 1) \in D /\ upTo[n] \in D
    BY <1>2, <2>1
  <2> HIDE DEF M, N
  <2>5. /\ upTo[n + 1] \in D
        /\ \A x : Contains(upTo[n + 1], x) <=> Contains(upTo[n], x) \/ Contains(M(n + 1), x)
    <3>1. PICK u, v : u = upTo[n] /\ v = M(n + 1)
      OBVIOUS
    <3>2. u \in D /\ v \in D /\ upTo[n + 1] = u \o v
      BY <2>2, <2>4, <3>1
    <3>3. /\ u \o v \in D
          /\ \A x : Contains(u \o v, x) <=> Contains(u, x) \/ Contains(v, x)
      BY <3>2, Joined
    <3> HIDE DEF D
    <3> QED  BY <3>1, <3>2, <3>3
  <2>6. \A x : Contains(upTo[n], x) <=> \E i \in 1 .. n : Contains(M(i), x)
    BY <2>1
  <2> HIDE DEF D
  <2>7. \A x : Contains(upTo[n + 1], x) <=> \E i \in 1 .. n + 1 : Contains(M(i), x)
    BY <2>3, <2>5, <2>6
  <2> QED  BY <2>5, <2>7
<1>11. Good(N)
  <2>1. N \in S
    <3> HIDE DEF S
    <3> QED  BY <1>1, <1>9, <1>10, SetInduction
  <2> HIDE DEF Good
  <2> QED  BY <1>1, <2>1
<1> QED  BY <1>1, <1>7, <1>11

LEMMA AssignedKept ==
  ASSUME UNCHANGED <<assignList, schemaList>>
  PROVE  Assigned' = Assigned
BY DEF Assigned

LEMMA AssignedRange ==
  ASSUME ListsInv, place # "assignment", NEW j \in 1 .. Len(Assigned)
  PROVE  /\ Assigned[j] \in Mention
         /\ Assigned[j].num \in 0 .. Len(itList) - 1 /\ Assigned[j].shared \in BOOLEAN
<1>1. Assigned \in Seq(Mention) /\ Contains(Assigned, Assigned[j])
  BY AssignedIsMentioned DEF Contains
<1>2. Assigned[j] \in Mention
  BY <1>1
<1>3. PICK i \in DOMAIN assignList : Contains(Mentions(SchemaOf(i)), Assigned[j])
  BY <1>1, AssignedIsMentioned
<1>4. i \in 1 .. Len(assignList)
  BY DEF ListsInv
<1>5. \/ \E k \in DOMAIN SchemaOf(i).shared :
           [num |-> SchemaOf(i).shared[k], shared |-> TRUE] = Assigned[j]
      \/ \E k \in DOMAIN SchemaOf(i).local :
           [num |-> SchemaOf(i).local[k], shared |-> FALSE] = Assigned[j]
  BY <1>3, <1>4, AssignmentTypes, MentionsMean
<1>6. Assigned[j].num \in 0 .. Len(itList) - 1
  <2>1. /\ \A k \in DOMAIN SchemaOf(i).shared :
             SchemaOf(i).shared[k] \in 0 .. Len(itList) - 1
        /\ \A k \in DOMAIN SchemaOf(i).local :
             SchemaOf(i).local[k] \in 0 .. Len(itList) - 1
    BY <1>4, AssignmentTypes
  <2>2. \/ \E k \in DOMAIN SchemaOf(i).shared : Assigned[j].num = SchemaOf(i).shared[k]
        \/ \E k \in DOMAIN SchemaOf(i).local : Assigned[j].num = SchemaOf(i).local[k]
    <3>1. \A n, b, y : [num |-> n, shared |-> b] = y => y.num = n
      OBVIOUS
    <3>2. PICK y : y = Assigned[j]
      OBVIOUS
    <3>3. CASE \E k \in DOMAIN SchemaOf(i).shared :
                 [num |-> SchemaOf(i).shared[k], shared |-> TRUE] = y
      BY <3>1, <3>2, <3>3
    <3>4. CASE \E k \in DOMAIN SchemaOf(i).local :
                 [num |-> SchemaOf(i).local[k], shared |-> FALSE] = y
      BY <3>1, <3>2, <3>4
    <3> QED  BY <1>5, <3>2, <3>3, <3>4
  <2> QED  BY <2>1, <2>2
<1> QED  BY <1>2, <1>6 DEF Mention

(***************************************************************************)
(* What is made of the assigned items.                                     *)
(***************************************************************************)
LEMMA MapStart ==
  ASSUME Init
  PROVE  MapInv
BY DEF Init, XrtdbInit, MapInv, Places, Blocks

LEMMA MapForgotten ==
  ASSUME Forgotten, place' \in {"done", "aborted"}
  PROVE  MapInv'
BY DEF Forgotten, MapInv

LEMMA MapKept ==
  ASSUME MapInv, UNCHANGED <<assignList, schemaList, met, map, answers>>,
         \/ place' = place
         \/ place = "keys" /\ place' = "done" /\ met = Len(Assigned)
  PROVE  MapInv'
<1>1. Assigned' = Assigned
  BY AssignedKept
<1> QED  BY <1>1, SMTT(30) DEF MapInv, Met, Refused

\* Nothing has been met yet while a file is read.
LEMMA MapEmpty ==
  ASSUME MapInv, place \notin {"keys", "done"}, UNCHANGED <<met, map, answers>>
  PROVE  MapInv'
BY DEF MapInv

\* One more item.
LEMMA MapAnalyzed ==
  ASSUME ListsInv, MapInv, AnalyzeAssignmentList
  PROVE  MapInv'
<1> DEFINE A == Assigned
           k == met + 1
           x == A[k]
<1>1. /\ place = "keys" /\ UNCHANGED <<place, assignList, schemaList>>
      /\ met < Len(A) /\ met' = k /\ Marked(x)
  BY DEF AnalyzeAssignmentList, listVars
<1>2. A \in Seq(Mention) /\ Len(A) \in Nat /\ met \in Nat
  BY <1>1, AssignedIsMentioned DEF MapInv
<1>3. k \in 1 .. Len(A) /\ k # 0 /\ k \in Nat
  BY <1>1, <1>2
<1>4. /\ x \in Mention /\ x.num \in Nat /\ x.shared \in BOOLEAN
  BY <1>1, <1>3, AssignedRange DEF Mention
<1>5. Assigned' = A
  BY <1>1, AssignedKept
<1> DEFINE Seen(m) == {A[j].num : j \in 1 .. m}
<1>6. /\ map \in [Seen(met) -> BOOLEAN] /\ answers \in Seq(Mention)
      /\ \A n \in DOMAIN map :
           ~map[n] => Refused(n) \/ \A j \in Met(n) : ~A[j].shared
  <2>1. CASE met = 0
    <3>1. map = <<>> /\ answers = <<>>
      BY <2>1 DEF MapInv
    <3>2. Seen(met) = {}
      BY <2>1
    <3> HIDE DEF Seen
    <3> QED  BY <3>1, <3>2
  <2>2. CASE met # 0
    BY <2>2 DEF MapInv
  <2> QED  BY <2>1, <2>2
<1>7. Seen(k) = Seen(met) \union {x.num}
  <2>1. \A j : j \in 1 .. k <=> j \in 1 .. met \/ j = k
    BY <1>2
  <2> HIDE DEF A, k
  <2> QED  BY <2>1 DEF x
<1>8. \A n : Met(n)' = {j \in 1 .. k : A[j].num = n}
  BY <1>1, <1>5 DEF Met
<1>9. \A j : j \in 1 .. k <=> j \in 1 .. met \/ j = k
  BY <1>2
<1>10. CASE x.num \notin DOMAIN map
  <2>1. map' = WithMark(x.num, x.shared) /\ answers' = answers
    BY <1>1, <1>10 DEF Marked
  <2> HIDE DEF A, k, x, Seen
  <2>2. map' \in [Seen(k) -> BOOLEAN]
    BY <1>4, <1>6, <1>7, <2>1 DEF WithMark
  <2>3. ASSUME NEW n \in DOMAIN map', ~map'[n]
        PROVE  Refused(n)' \/ \A j \in Met(n)' : ~Assigned[j]'.shared
    <3>1. CASE n = x.num
      <4>1. map'[n] = x.shared
        BY <2>1, <3>1 DEF WithMark
      <4>2. \A j \in 1 .. met : A[j].num # x.num
        BY <1>6, <1>10 DEF Seen
      <4>3. \A j \in Met(n)' : j = k
        BY <1>8, <1>9, <3>1, <4>2
      <4> QED  BY <1>5, <2>3, <4>1, <4>3 DEF x
    <3>2. CASE n # x.num
      <4>1. n \in DOMAIN map /\ map'[n] = map[n]
        BY <2>1, <2>3, <3>2 DEF WithMark
      <4>2. Met(n)' = Met(n)
        BY <1>8, <1>9, <3>2 DEF Met, A, x
      <4>3. Refused(n)' <=> Refused(n)
        BY <2>1 DEF Refused
      <4> QED  BY <1>5, <1>6, <2>3, <4>1, <4>2, <4>3
    <3> QED  BY <3>1, <3>2
  <2> QED  BY <1>1, <1>3, <1>5, <1>6, <2>1, <2>2, <2>3 DEF MapInv, Seen, A
<1>11. CASE x.num \in DOMAIN map /\ map[x.num]
  <2>1. map' = map /\ answers' = answers
    BY <1>1, <1>11 DEF Marked
  <2> HIDE DEF A, k, x, Seen
  <2>2. map' \in [Seen(k) -> BOOLEAN]
    <3>1. Seen(k) = Seen(met)
      BY <1>6, <1>7, <1>11
    <3> QED  BY <1>6, <2>1, <3>1
  <2>3. ASSUME NEW n \in DOMAIN map', ~map'[n]
        PROVE  Refused(n)' \/ \A j \in Met(n)' : ~Assigned[j]'.shared
    <3>1. n # x.num
      BY <1>11, <2>1, <2>3
    <3>2. Met(n)' = Met(n)
      BY <1>8, <1>9, <3>1 DEF Met, A, x
    <3>3. Refused(n)' <=> Refused(n)
      BY <2>1 DEF Refused
    <3> QED  BY <1>5, <1>6, <2>1, <2>3, <3>2, <3>3
  <2> QED  BY <1>1, <1>3, <1>5, <1>6, <2>1, <2>2, <2>3 DEF MapInv, Seen, A
<1>12. CASE x.num \in DOMAIN map /\ ~map[x.num]
  <2>1. PICK shared \in BOOLEAN :
          /\ map' = WithMark(x.num, shared)
          /\ answers' = Append(answers, [num |-> x.num, shared |-> shared])
    BY <1>1, <1>12 DEF Marked
  <2> DEFINE a == [num |-> x.num, shared |-> shared]
             l == Len(answers)
  <2> HIDE DEF A, k, x, Seen
  <2>2. map' \in [Seen(k) -> BOOLEAN]
    BY <1>4, <1>6, <1>7, <2>1 DEF WithMark
  <2>3. a \in Mention /\ a.num = x.num /\ a.shared = shared
    BY <1>4 DEF Mention
  <2> HIDE DEF a
  <2>4. /\ answers' \in Seq(Mention) /\ Len(answers') = l + 1 /\ l \in Nat
        /\ DOMAIN answers' = 1 .. l + 1 /\ answers'[l + 1] = a
        /\ DOMAIN answers = 1 .. l /\ \A i \in 1 .. l : answers'[i] = answers[i]
    BY <1>6, <2>1, <2>3 DEF a
  <2> HIDE DEF l
  <2>5. ASSUME NEW n \in DOMAIN map', ~map'[n]
        PROVE  Refused(n)' \/ \A j \in Met(n)' : ~Assigned[j]'.shared
    <3>1. CASE n = x.num
      <4>1. ~shared
        BY <2>1, <2>5, <3>1 DEF WithMark
      <4>2. l + 1 \in 1 .. l + 1 /\ (l + 1) + 1 .. l + 1 = {}
        BY <2>4
      <4> QED  BY <2>3, <2>4, <3>1, <4>1, <4>2 DEF Refused
    <3>2. CASE n # x.num
      <4>1. n \in DOMAIN map /\ map'[n] = map[n]
        BY <2>1, <2>5, <3>2 DEF WithMark
      <4>2. Met(n)' = Met(n)
        BY <1>8, <1>9, <3>2 DEF Met, A, x
      <4>3. Refused(n) => Refused(n)'
        <5> SUFFICES ASSUME Refused(n) PROVE Refused(n)'
          OBVIOUS
        <5>1. PICK i \in 1 .. l :
                /\ answers[i].num = n /\ ~answers[i].shared
                /\ \A j \in i + 1 .. l : answers[j].num # n
          BY <2>4 DEF Refused, l
        <5>2. i \in 1 .. l + 1 /\ answers'[i] = answers[i]
          BY <2>4
        <5>3. ASSUME NEW j \in i + 1 .. l + 1 PROVE answers'[j].num # n
          <6>1. CASE j = l + 1
            BY <2>3, <2>4, <3>2, <6>1
          <6>2. CASE j # l + 1
            <7>1. j \in i + 1 .. l /\ j \in 1 .. l
              BY <2>4, <6>2
            <7> QED  BY <2>4, <5>1, <7>1
          <6> QED  BY <6>1, <6>2
        <5> QED  BY <2>4, <5>1, <5>2, <5>3 DEF Refused
      <4> QED  BY <1>5, <1>6, <2>5, <4>1, <4>2, <4>3
    <3> QED  BY <3>1, <3>2
  <2> QED  BY <1>1, <1>3, <1>5, <2>2, <2>4, <2>5 DEF MapInv, Seen, A
<1> QED  BY <1>10, <1>11, <1>12

LEMMA MapNext ==
  ASSUME ListsInv, MapInv, [Next]_vars
  PROVE  MapInv'
<1>1. CASE Abort
  BY <1>1, MapForgotten DEF Abort
<1>2. CASE Grammar /\ ~Abort
  <2>1. place \in Blocks /\ UNCHANGED mapVars
    BY <1>2 DEF Grammar, Blocks, AgentCreate, ItemCreate, AddField, ItemAddDatatype,
         ItemAddHeaderfile, ItemAddPeriod, ItemVerify, SchemaCreate, SchemaAddSharedItem,
         SchemaAddLocalItem, SchemaVerify, AssignmentCreate, AssignmentAddSchema,
         AssignmentAddAgent, AssignmentVerify, RaiseError, EndOfFile, xrtdbVars
  <2> QED  BY <2>1, MapEmpty DEF Blocks, mapVars
<1>3. CASE NoUserFile \/ PrintUserFile \/ NoXmlFile \/ OpenXmlFile
  <2>1. place \in {"user", "xml"} /\ UNCHANGED mapVars
    BY <1>3 DEF NoUserFile, PrintUserFile, NoXmlFile, OpenXmlFile
  <2> QED  BY <2>1, MapEmpty DEF mapVars
<1>4. CASE PrintRtDB2File
  <2>1. /\ place = "keys" /\ place' = "done" /\ met = Len(Assigned)
        /\ UNCHANGED <<assignList, schemaList, met, map, answers>>
    BY <1>4 DEF PrintRtDB2File, listVars, mapVars
  <2> QED  BY <2>1, MapKept
<1>5. CASE NoAnswer
  BY <1>1, <1>5 DEF NoAnswer
<1>6. CASE Edit
  BY <1>6, MapForgotten DEF Edit, Editable
<1>7. CASE Load \/ UNCHANGED vars
  <2>1. UNCHANGED <<place, assignList, schemaList, met, map, answers>>
    BY <1>7 DEF Load, vars, xrtdbVars, listVars, mapVars
  <2> QED  BY <2>1, MapKept
<1> QED
  BY <1>1, <1>2, <1>3, <1>4, <1>5, <1>6, <1>7, MapAnalyzed
     DEF Next, Generate, XrtdbNext, Main

\* What an assigned schema shares, or keeps local, is among the assigned items as such.
LEMMA AssignedSharing ==
  ASSUME ListsInv, place # "assignment", NEW n
  PROVE  /\ SharedIn(n) <=> \E j \in 1 .. Len(Assigned) :
                              Assigned[j].num = n /\ Assigned[j].shared
         /\ LocalIn(n) <=> \E j \in 1 .. Len(Assigned) :
                             Assigned[j].num = n /\ ~Assigned[j].shared
<1> DEFINE As(b) == [num |-> n, shared |-> b]
<1>1. DOMAIN assignList = 1 .. Len(assignList)
  BY DEF ListsInv
<1>2. ASSUME NEW i \in DOMAIN assignList
      PROVE  /\ Contains(Mentions(SchemaOf(i)), As(TRUE)) <=> Contains(SchemaOf(i).shared, n)
             /\ Contains(Mentions(SchemaOf(i)), As(FALSE)) <=> Contains(SchemaOf(i).local, n)
  <2> DEFINE s == SchemaOf(i).shared
             l == SchemaOf(i).local
  <2>1. s \in Seq(Nat) /\ l \in Seq(Nat)
    BY <1>1, AssignmentTypes
  <2>2. \A x : Contains(Mentions(SchemaOf(i)), x) <=>
               \/ \E k \in DOMAIN s : [num |-> s[k], shared |-> TRUE] = x
               \/ \E k \in DOMAIN l : [num |-> l[k], shared |-> FALSE] = x
    BY <2>1, MentionsMean
  <2>3. \A y : /\ [num |-> y, shared |-> TRUE] = As(TRUE) <=> y = n
               /\ [num |-> y, shared |-> FALSE] = As(FALSE) <=> y = n
               /\ [num |-> y, shared |-> TRUE] # As(FALSE)
               /\ [num |-> y, shared |-> FALSE] # As(TRUE)
    OBVIOUS
  <2>4. DOMAIN s = 1 .. Len(s) /\ DOMAIN l = 1 .. Len(l)
    BY <2>1
  <2> HIDE DEF As, s, l
  <2>5. /\ Contains(Mentions(SchemaOf(i)), As(TRUE)) <=> \E k \in DOMAIN s : s[k] = n
        /\ Contains(Mentions(SchemaOf(i)), As(FALSE)) <=> \E k \in DOMAIN l : l[k] = n
    <3>1. Contains(Mentions(SchemaOf(i)), As(TRUE)) <=>
            \/ \E k \in DOMAIN s : [num |-> s[k], shared |-> TRUE] = As(TRUE)
            \/ \E k \in DOMAIN l : [num |-> l[k], shared |-> FALSE] = As(TRUE)
      BY <2>2
    <3>2. Contains(Mentions(SchemaOf(i)), As(FALSE)) <=>
            \/ \E k \in DOMAIN s : [num |-> s[k], shared |-> TRUE] = As(FALSE)
            \/ \E k \in DOMAIN l : [num |-> l[k], shared |-> FALSE] = As(FALSE)
      BY <2>2
    <3> DEFINE T(y) == [num |-> y, shared |-> TRUE]
               F(y) == [num |-> y, shared |-> FALSE]
               t == As(TRUE)
               u == As(FALSE)
    <3>3. \A y : (T(y) = t <=> y = n) /\ (F(y) = u <=> y = n) /\ T(y) # u /\ F(y) # t
      BY <2>3
    <3>4. Contains(Mentions(SchemaOf(i)), t) <=>
            (\E k \in DOMAIN s : T(s[k]) = t) \/ (\E k \in DOMAIN l : F(l[k]) = t)
      BY <3>1
    <3>5. Contains(Mentions(SchemaOf(i)), u) <=>
            (\E k \in DOMAIN s : T(s[k]) = u) \/ (\E k \in DOMAIN l : F(l[k]) = u)
      BY <3>2
    <3> HIDE DEF T, F, t, u
    <3>6. /\ Contains(Mentions(SchemaOf(i)), t) <=> \E k \in DOMAIN s : s[k] = n
          /\ Contains(Mentions(SchemaOf(i)), u) <=> \E k \in DOMAIN l : l[k] = n
      BY <3>3, <3>4, <3>5
    <3> QED  BY <3>6 DEF t, u
  <2>6. /\ Contains(s, n) <=> \E k \in DOMAIN s : s[k] = n
        /\ Contains(l, n) <=> \E k \in DOMAIN l : l[k] = n
    BY <2>4 DEF Contains
  <2> QED  BY <2>5, <2>6 DEF s, l
<1>3. /\ SharedIn(n) <=> Contains(Assigned, As(TRUE))
      /\ LocalIn(n) <=> Contains(Assigned, As(FALSE))
  <2>1. /\ SharedIn(n) <=> \E i \in DOMAIN assignList : Contains(SchemaOf(i).shared, n)
        /\ LocalIn(n) <=> \E i \in DOMAIN assignList : Contains(SchemaOf(i).local, n)
    BY DEF SharedIn, LocalIn, AssignedSchemas, SchemaOf
  <2> HIDE DEF As
  <2> QED  BY <1>2, <2>1, AssignedIsMentioned
<1>4. /\ Contains(Assigned, As(TRUE)) <=> \E j \in 1 .. Len(Assigned) :
                                            Assigned[j].num = n /\ Assigned[j].shared
      /\ Contains(Assigned, As(FALSE)) <=> \E j \in 1 .. Len(Assigned) :
                                             Assigned[j].num = n /\ ~Assigned[j].shared
  <2>1. \A x \in Mention : /\ x = As(TRUE) <=> x.num = n /\ x.shared
                           /\ x = As(FALSE) <=> x.num = n /\ ~x.shared
    BY DEF Mention
  <2>2. \A j \in 1 .. Len(Assigned) : Assigned[j] \in Mention
    BY AssignedRange
  <2> HIDE DEF As
  <2> QED  BY <2>1, <2>2 DEF Contains
<1> QED  BY <1>3, <1>4

(***************************************************************************)
(* xrtdb: the types, and the decision about what is shared.                *)
(***************************************************************************)
LEMMA CollectedHolds == Spec => [](ListsInv /\ MapInv)
<1>1. Init => ListsInv /\ MapInv
  BY ListsStart, MapStart
<1>2. ListsInv /\ MapInv /\ [Next]_vars => (ListsInv /\ MapInv)'
  BY ListsNext, MapNext
<1> QED  BY <1>1, <1>2, PTL DEF Spec

\* What xrtdb collects has its types in every run: the numbers in its schemas are
\* numbers of items, items are declared once, and what passed is finished
\* (rtdb_functions.c:56-90, 245-321, 555-572).
THEOREM TypeCorrect == Spec => []TypeOK
<1>1. ListsInv => TypeOK
  <2> SUFFICES ASSUME ListsInv PROVE TypeOK
    OBVIOUS
  <2>1. place \in Blocks \union {"user", "xml", "keys", "done", "aborted"}
    BY DEF ListsInv, Places
  <2>2. ASSUME NEW i \in DOMAIN schemaList
        PROVE  Range(schemaList[i].shared) \union Range(schemaList[i].local)
                 \subseteq 0 .. Len(itList) - 1
    <3>1. Len(itList) \in Nat
      BY DEF ListsInv
    <3>2. /\ \A j \in DOMAIN schemaList[i].shared :
               schemaList[i].shared[j] \in Nat /\ schemaList[i].shared[j] < Len(itList)
          /\ \A j \in DOMAIN schemaList[i].local :
               schemaList[i].local[j] \in Nat /\ schemaList[i].local[j] < Len(itList)
      BY SchemaTypes DEF ListsInv
    <3> QED  BY <3>1, <3>2 DEF Range
  <2>3. place # "assignment" =>
          \A i \in DOMAIN assignList :
            assignList[i].schema \in DOMAIN schemaList /\ assignList[i].agents # {}
    <3>1. DOMAIN assignList = 1 .. Len(assignList)
      BY DEF ListsInv
    <3> QED  BY <3>1, AssignmentTypes
  <2> QED  BY <2>1, <2>2, <2>3 DEF TypeOK, ListsInv
<1> QED  BY <1>1, CollectedHolds, PTL

\* However schemas and assignments mix shared and local mentions of an item, it is
\* made local only if no assigned schema shares it or the user had the last word
\* (rtdb_ini_creator.c:230-264).
THEOREM NothingLost == Spec => []NothingWithheld
<1>1. ListsInv /\ MapInv => NothingWithheld
  <2> SUFFICES ASSUME ListsInv, MapInv, NEW n \in DOMAIN map, ~map[n], SharedIn(n),
                      ~(place = "keys" /\ met < Len(Assigned))
               PROVE  Refused(n)
    BY DEF NothingWithheld
  <2>1. met # 0 /\ place \in {"keys", "done"}
    BY DEF MapInv
  <2>2. place # "assignment" /\ Assigned \in Seq(Mention) /\ Len(Assigned) \in Nat
    BY <2>1, AssignedIsMentioned
  <2>3. met = Len(Assigned)
    BY <2>1, <2>2 DEF MapInv
  <2>4. PICK j \in 1 .. Len(Assigned) : Assigned[j].num = n /\ Assigned[j].shared
    BY <2>2, AssignedSharing
  <2>5. j \in Met(n)
    BY <2>3, <2>4 DEF Met
  <2> QED  BY <2>1, <2>4, <2>5 DEF MapInv
<1> QED  BY <1>1, CollectedHolds, PTL

(***************************************************************************)
(* Elements of a configuration file, one by one.                           *)
(***************************************************************************)
Detail == [shared : BOOLEAN, period : Int, phase : Int]
Config ==
  [default    : Detail,
   compressor : [name : Strings, dictionary : BOOLEAN],
   details    : UNION {[S -> Detail] : S \in SUBSET Strings},
   ids        : UNION {[S -> Strings] : S \in SUBSET Int},
   warned     : BOOLEAN]

\* What an element says of a key, over the defaults d.
Said(e, d) ==
  [shared |-> IF Has(e, "shared") THEN MeansTrue(e.attr.shared) ELSE d.shared,
   period |-> IF Has(e, "period") THEN Atoi[e.attr.period] ELSE d.period,
   phase  |-> IF Has(e, "phase") THEN Atoi[e.attr.phase] ELSE d.phase]

LEMMA SwitchTypes ==
  ASSUME NEW v, NEW old \in BOOLEAN
  PROVE  Switch(v, old) \in BOOLEAN /\ MeansTrue(v) \in BOOLEAN
<1>1. MeansTrue(v) \in BOOLEAN
  BY DEF MeansTrue
<1>2. CASE IsSwitch(v)
  BY <1>1, <1>2 DEF Switch
<1>3. CASE ~IsSwitch(v)
  BY <1>1, <1>3 DEF Switch
<1> QED  BY <1>2, <1>3

LEMMA AttributeTypes ==
  ASSUME NEW e, IsElement(e), NEW a, Has(e, a)
  PROVE  /\ e.attr[a] \in Strings /\ Atoi[e.attr[a]] \in Int
         /\ Upper[e.attr[a]] \in Strings /\ Lower[e.attr[a]] \in Strings
<1>1. e.attr[a] \in Strings
  BY DEF IsElement, Has
<1> QED  BY <1>1, KeyConfigConstants

\* An element of General.
LEMMA GeneralRead ==
  ASSUME NEW c \in Config, NEW e, IsElement(e)
  PROVE  LET d == GeneralElement(c, e)
         IN  /\ d \in Config /\ d.details = c.details /\ d.ids = c.ids
             /\ d.warned <=> c.warned \/ BadGeneral(e)
             /\ ~IsDefault(e) => d.default = c.default
             /\ IsDefault(e) /\ ~BadGeneral(e) =>
                  d.default = [shared |-> MeansTrue(e.attr.shared),
                               period |-> Atoi[e.attr.period], phase |-> Atoi[e.attr.phase]]
<1>1. CASE e.tag = "DefaultKeyValue"
  <2> DEFINE period == Has(e, "shared") /\ IsNumber(e, "period")
             phase  == period /\ IsNumber(e, "phase")
             s == IF Has(e, "shared") THEN Switch(e.attr.shared, c.default.shared)
                  ELSE c.default.shared
             p == IF period THEN Atoi[e.attr.period] ELSE c.default.period
             q == IF phase THEN Atoi[e.attr.phase] ELSE c.default.phase
             w == c.warned \/ ~phase \/ ~IsSwitch(e.attr.shared)
  <2>1. /\ c.default \in Detail /\ c.warned \in BOOLEAN
        /\ c.default.shared \in BOOLEAN /\ c.default.period \in Int /\ c.default.phase \in Int
    BY DEF Config, Detail
  <2>2. GeneralElement(c, e) =
          [c EXCEPT !.default.shared = s, !.default.period = p, !.default.phase = q,
                    !.warned = w]
    BY <1>1 DEF GeneralElement, DefaultKeyValue
  <2>3. s \in BOOLEAN /\ p \in Int /\ q \in Int /\ w \in BOOLEAN
    BY <2>1, SwitchTypes, AttributeTypes DEF IsNumber
  <2>4. w <=> c.warned \/ BadGeneral(e)
    BY <1>1 DEF BadGeneral, IsNumber
  <2>5. ~BadGeneral(e) =>
          /\ s = MeansTrue(e.attr.shared) /\ p = Atoi[e.attr.period] /\ q = Atoi[e.attr.phase]
    BY <1>1 DEF BadGeneral, IsNumber, Switch
  <2> HIDE DEF s, p, q, w
  <2> DEFINE d == [c EXCEPT !.default.shared = s, !.default.period = p,
                            !.default.phase = q, !.warned = w]
  <2>6. /\ d \in Config /\ d.details = c.details /\ d.ids = c.ids /\ d.warned = w
        /\ d.default = [shared |-> s, period |-> p, phase |-> q]
    BY <2>1, <2>3 DEF Config, Detail
  <2> QED  BY <1>1, <2>2, <2>4, <2>5, <2>6 DEF IsDefault
<1>2. CASE e.tag = "Compressor"
  <2> DEFINE both == Has(e, "name") /\ Has(e, "dictionary")
             n == IF Has(e, "name") THEN Lower[e.attr.name] ELSE c.compressor.name
             b == IF both THEN Switch(e.attr.dictionary, c.compressor.dictionary)
                  ELSE c.compressor.dictionary
             w == c.warned \/ ~both \/ ~IsSwitch(e.attr.dictionary)
  <2>1. /\ c.compressor \in [name : Strings, dictionary : BOOLEAN] /\ c.warned \in BOOLEAN
        /\ c.compressor.name \in Strings /\ c.compressor.dictionary \in BOOLEAN
    BY DEF Config
  <2>2. GeneralElement(c, e) =
          [c EXCEPT !.compressor.name = n, !.compressor.dictionary = b, !.warned = w]
    BY <1>2 DEF GeneralElement, Compressor
  <2>3. n \in Strings /\ b \in BOOLEAN /\ w \in BOOLEAN
    BY <2>1, SwitchTypes, AttributeTypes
  <2>4. w <=> c.warned \/ BadGeneral(e)
    BY <1>2 DEF BadGeneral
  <2> HIDE DEF n, b, w
  <2> DEFINE d == [c EXCEPT !.compressor.name = n, !.compressor.dictionary = b,
                            !.warned = w]
  <2>5. /\ d \in Config /\ d.details = c.details /\ d.ids = c.ids /\ d.warned = w
        /\ d.default = c.default
    BY <2>1, <2>3 DEF Config
  <2> QED  BY <1>2, <2>2, <2>4, <2>5 DEF IsDefault
<1>3. CASE e.tag \notin {"DefaultKeyValue", "Compressor"}
  <2>1. GeneralElement(c, e) = [c EXCEPT !.warned = TRUE] /\ BadGeneral(e)
    BY <1>3 DEF GeneralElement, BadGeneral, Warn
  <2>2. /\ [c EXCEPT !.warned = TRUE] \in Config
        /\ [c EXCEPT !.warned = TRUE].warned = TRUE
        /\ [c EXCEPT !.warned = TRUE].default = c.default
        /\ [c EXCEPT !.warned = TRUE].details = c.details
        /\ [c EXCEPT !.warned = TRUE].ids = c.ids
    BY DEF Config
  <2> QED  BY <1>3, <2>1, <2>2 DEF IsDefault
<1> QED  BY <1>1, <1>2, <1>3

LEMMA InsertedMeans ==
  ASSUME NEW K, NEW V, NEW S \in SUBSET K, NEW f \in [S -> V], NEW k \in K, NEW v \in V
  PROVE  /\ Inserted(f, k, v) \in [S \union {k} -> V]
         /\ \A x \in S : Inserted(f, k, v)[x] = f[x]
         /\ k \notin S => Inserted(f, k, v)[k] = v
BY DEF Inserted

\* An element of Keys.
LEMMA KeyRead ==
  ASSUME NEW c \in Config, NEW e, IsElement(e)
  PROVE  LET d == KeyElementRead(c, e)
             id == Upper[e.attr.id]
         IN  /\ d \in Config /\ d.default = c.default
             /\ d.warned <=> c.warned \/ BadKey(e)
             /\ ~BadKey(e) =>
                  /\ id \in Strings /\ d.details = Inserted(c.details, id, Said(e, c.default))
                  /\ Has(e, "oid") => d.ids = Inserted(c.ids, Atoi[e.attr.oid], id)
                  /\ ~Has(e, "oid") => d.ids = c.ids
<1> DEFINE id == Upper[e.attr.id]
           oid == Atoi[e.attr.oid]
           k == KeyDetail(c, e)
<1>1. CASE e.tag # "key" \/ ~Has(e, "id")
  <2>1. KeyElementRead(c, e) = [c EXCEPT !.warned = TRUE] /\ BadKey(e)
    BY <1>1 DEF KeyElementRead, BadKey, Warn
  <2>2. /\ [c EXCEPT !.warned = TRUE] \in Config
        /\ [c EXCEPT !.warned = TRUE].warned = TRUE
        /\ [c EXCEPT !.warned = TRUE].default = c.default
    BY DEF Config
  <2> QED  BY <2>1, <2>2
<1>2. CASE ~(e.tag # "key" \/ ~Has(e, "id"))
  <2>1. /\ c.default \in Detail /\ c.warned \in BOOLEAN
        /\ c.default.shared \in BOOLEAN /\ c.default.period \in Int /\ c.default.phase \in Int
    BY DEF Config, Detail
  <2>2. id \in Strings /\ (IsNumber(e, "oid") => oid \in Int)
    BY <1>2, AttributeTypes DEF IsNumber
  <2>3. k \in Detail
    <3> DEFINE s == IF Has(e, "shared") THEN Switch(e.attr.shared, c.default.shared)
                    ELSE c.default.shared
               p == IF Has(e, "period") THEN Atoi[e.attr.period] ELSE c.default.period
               q == IF Has(e, "phase") THEN Atoi[e.attr.phase] ELSE c.default.phase
    <3>1. s \in BOOLEAN /\ p \in Int /\ q \in Int
      BY <2>1, SwitchTypes, AttributeTypes
    <3>2. k = [shared |-> s, period |-> p, phase |-> q]
      BY DEF KeyDetail
    <3> HIDE DEF s, p, q, k
    <3> QED  BY <3>1, <3>2 DEF Detail
  <2> DEFINE good == /\ Has(e, "oid") => IsNumber(e, "oid")
                     /\ Has(e, "shared") => IsSwitch(e.attr.shared)
  <2>4. good <=> ~BadKey(e)
    BY <1>2 DEF BadKey
  <2>5. good => k = Said(e, c.default)
    BY DEF KeyDetail, Said, Switch
  <2> DEFINE ids == IF IsNumber(e, "oid") THEN Inserted(c.ids, oid, id) ELSE c.ids
             dets == Inserted(c.details, id, k)
             w == c.warned \/ ~good
  <2>6. KeyElementRead(c, e) = [c EXCEPT !.ids = ids, !.details = dets, !.warned = w]
    <3> HIDE DEF id, oid, k
    <3>1. CASE IsNumber(e, "oid")
      <4>1. KeyElementRead(c, e) =
              LET next == [[c EXCEPT !.ids = ids] EXCEPT !.details = dets]
              IN  IF good THEN next ELSE [next EXCEPT !.warned = TRUE]
        BY <1>2, <3>1 DEF KeyElementRead, AssociateKeys, InsertKeyDetail, Warn, id, oid, k
      <4>2. CASE good
        <5>1. w = c.warned
          BY <2>1, <4>2
        <5> HIDE DEF ids, dets, w, good
        <5> QED  BY <4>1, <4>2, <5>1 DEF Config
      <4>3. CASE ~good
        <5>1. w = TRUE
          BY <4>3
        <5> HIDE DEF ids, dets, w, good
        <5> QED  BY <4>1, <4>3, <5>1 DEF Config
      <4> QED  BY <4>2, <4>3
    <3>2. CASE ~IsNumber(e, "oid")
      <4>1. KeyElementRead(c, e) =
              LET next == [c EXCEPT !.details = dets]
              IN  IF good THEN next ELSE [next EXCEPT !.warned = TRUE]
        BY <1>2, <3>2 DEF KeyElementRead, InsertKeyDetail, Warn, id, k
      <4>2. ids = c.ids
        BY <3>2
      <4>3. CASE good
        <5>1. w = c.warned
          BY <2>1, <4>3
        <5> HIDE DEF ids, dets, w, good
        <5> QED  BY <4>1, <4>2, <4>3, <5>1 DEF Config
      <4>4. CASE ~good
        <5>1. w = TRUE
          BY <4>4
        <5> HIDE DEF ids, dets, w, good
        <5> QED  BY <4>1, <4>2, <4>4, <5>1 DEF Config
      <4> QED  BY <4>3, <4>4
    <3> QED  BY <3>1, <3>2
  <2>7. dets \in UNION {[S -> Detail] : S \in SUBSET Strings}
    <3>1. PICK S \in SUBSET Strings : c.details \in [S -> Detail]
      BY DEF Config
    <3> HIDE DEF id, k
    <3>2. Inserted(c.details, id, k) \in [S \union {id} -> Detail]
      BY <2>2, <2>3, <3>1, InsertedMeans
    <3>3. S \union {id} \in SUBSET Strings
      BY <2>2
    <3> QED  BY <3>2, <3>3
  <2>8. ids \in UNION {[S -> Strings] : S \in SUBSET Int}
    <3>1. PICK S \in SUBSET Int : c.ids \in [S -> Strings]
      BY DEF Config
    <3>2. CASE IsNumber(e, "oid")
      <4> HIDE DEF id, oid
      <4>1. Inserted(c.ids, oid, id) \in [S \union {oid} -> Strings]
        BY <2>2, <3>1, <3>2, InsertedMeans
      <4>2. S \union {oid} \in SUBSET Int
        BY <2>2, <3>2
      <4> QED  BY <3>2, <4>1, <4>2
    <3>3. CASE ~IsNumber(e, "oid")
      BY <3>1, <3>3
    <3> QED  BY <3>2, <3>3
  <2>9. w \in BOOLEAN
    BY <2>1
  <2>10. ~BadKey(e) => (Has(e, "oid") <=> IsNumber(e, "oid"))
    BY <2>4 DEF IsNumber
  <2>11. /\ Has(e, "oid") /\ ~BadKey(e) => ids = Inserted(c.ids, oid, id)
         /\ ~Has(e, "oid") => ids = c.ids
    BY <2>10 DEF IsNumber
  <2>12. w <=> c.warned \/ BadKey(e)
    BY <2>4
  <2>13. ~BadKey(e) => dets = Inserted(c.details, id, Said(e, c.default))
    BY <2>4, <2>5
  <2> HIDE DEF ids, dets, w, good, k, id, oid
  <2> DEFINE d == [c EXCEPT !.ids = ids, !.details = dets, !.warned = w]
  <2>14. /\ d \in Config /\ d.default = c.default /\ d.warned = w
         /\ d.ids = ids /\ d.details = dets
    BY <2>7, <2>8, <2>9 DEF Config
  <2> QED  BY <2>2, <2>6, <2>11, <2>12, <2>13, <2>14 DEF id, oid
<1> QED  BY <1>1, <1>2

(***************************************************************************)
(* A whole file.                                                           *)
(***************************************************************************)
Meaning(e) ==
  [shared |-> MeansTrue(e.attr.shared), period |-> Atoi[e.attr.period],
   phase |-> Atoi[e.attr.phase]]

LEMMA BuiltInTypes ==
  /\ BuiltIn \in Config /\ BuiltIn.details = <<>> /\ BuiltIn.ids = <<>>
  /\ BuiltIn.warned = FALSE
  /\ BuiltIn.default = [shared |-> TRUE, period |-> 1, phase |-> 0]
<1>1. "zstd" \in Strings
  BY ToolChainConstants
<1>2. [shared |-> TRUE, period |-> 1, phase |-> 0] \in Detail
  BY DEF Detail
<1>3. /\ <<>> \in UNION {[S -> Detail] : S \in SUBSET Strings}
      /\ <<>> \in UNION {[S -> Strings] : S \in SUBSET Int}
  <2>1. <<>> \in [{} -> Detail] /\ <<>> \in [{} -> Strings]
    OBVIOUS
  <2>2. {} \in SUBSET Strings /\ {} \in SUBSET Int
    OBVIOUS
  <2> QED  BY <2>1, <2>2
<1> QED  BY <1>1, <1>2, <1>3 DEF BuiltIn, Config

LEMMA ListTypes ==
  ASSUME NEW list, IsElements(list)
  PROVE  /\ Len(list) \in Nat /\ DOMAIN list = 1 .. Len(list)
         /\ \A i \in 1 .. Len(list) : IsElement(list[i])
<1>1. Len(list) \in Nat /\ DOMAIN list = 1 .. Len(list)
  <2>1. list = [i \in 1 .. Len(list) |-> list[i]] /\ Len(list) \in Nat
    BY DEF IsElements, IsList
  <2>2. DOMAIN [i \in 1 .. Len(list) |-> list[i]] = 1 .. Len(list)
    OBVIOUS
  <2> QED  BY <2>1, <2>2
<1> QED  BY <1>1 DEF IsElements

\* Before the first element of General there is BuiltIn, and each makes its step.
LEMMA GeneralSteps ==
  ASSUME NEW list, IsElements(list)
  PROVE  \E c \in [0 .. Len(list) -> Config] :
           /\ c[0] = BuiltIn /\ AfterGeneral(list) = c[Len(list)]
           /\ \A n \in 1 .. Len(list) : c[n] = GeneralElement(c[n - 1], list[n])
<1> DEFINE N == Len(list)
           J(c, n) == GeneralElement(c, list[n])
           g == [x \in Config \X (1 .. N) |-> J(x[1], x[2])]
           Def(r) == r = [i \in 0 .. N |-> IF i = 0 THEN BuiltIn ELSE J(r[i - 1], i)]
           all == CHOOSE r : Def(r)
<1>1. N \in Nat /\ \A n \in 1 .. N : IsElement(list[n])
  BY ListTypes
<1>2. \A c \in Config, n \in 1 .. N : J(c, n) \in Config
  BY <1>1, GeneralRead
<1>3. g \in [Config \X (1 .. N) -> Config]
  <2> HIDE DEF J, N
  <2> QED  BY <1>2
<1>4. PICK r : Goes(r, Config, N, BuiltIn, g)
  <2> HIDE DEF N, g
  <2> QED  BY <1>1, <1>3, BuiltInTypes, Steps
<1>5. Def(r)
  <2> HIDE DEF N, J
  <2>1. \A n \in 1 .. N : n - 1 \in 0 .. N
    BY <1>1
  <2>2. r \in [0 .. N -> Config] /\ r[0] = BuiltIn
    BY <1>4 DEF Goes
  <2>3. \A n \in 1 .. N : r[n] = J(r[n - 1], n)
    BY <1>4, <2>1, <2>2 DEF Goes
  <2> HIDE DEF g
  <2> QED  BY <1>1, <2>2, <2>3
<1>6. Def(all)
  <2> HIDE DEF Def
  <2> QED  BY <1>5
<1>7. AfterGeneral(list) = all[N]
  BY DEF AfterGeneral
<1> HIDE DEF all
<1>8. all[0] = BuiltIn /\ \A n \in 1 .. N : all[n] = J(all[n - 1], n)
  <2> HIDE DEF N, J
  <2> QED  BY <1>1, <1>6
<1> DEFINE S == {n \in Nat : n <= N => all[n] \in Config}
<1>9. Nat \subseteq S
  <2>1. 0 \in S
    BY <1>8, BuiltInTypes
  <2>2. ASSUME NEW n \in Nat, n \in S PROVE n + 1 \in S
    <3> SUFFICES ASSUME n + 1 <= N PROVE all[n + 1] \in Config
      OBVIOUS
    <3>1. n + 1 \in 1 .. N /\ all[n] \in Config /\ (n + 1) - 1 = n
      BY <1>1, <2>2
    <3> HIDE DEF J, N
    <3> QED  BY <1>2, <1>8, <3>1
  <2> HIDE DEF S
  <2> QED  BY <2>1, <2>2, SetInduction
<1>10. all \in [0 .. N -> Config]
  <2>1. \A n \in 0 .. N : all[n] \in Config
    BY <1>1, <1>9
  <2> HIDE DEF N, J
  <2>2. all = [n \in 0 .. N |-> all[n]]
    BY <1>6
  <2> QED  BY <2>1, <2>2
<1> HIDE DEF S
<1> QED  BY <1>7, <1>8, <1>10

LEMMA KeySteps ==
  ASSUME NEW list, IsElements(list), NEW start \in Config
  PROVE  \E c \in [0 .. Len(list) -> Config] :
           /\ c[0] = start /\ AfterKeys(start, list) = c[Len(list)]
           /\ \A n \in 1 .. Len(list) : c[n] = KeyElementRead(c[n - 1], list[n])
<1> DEFINE N == Len(list)
           J(c, n) == KeyElementRead(c, list[n])
           g == [x \in Config \X (1 .. N) |-> J(x[1], x[2])]
           Def(r) == r = [i \in 0 .. N |-> IF i = 0 THEN start ELSE J(r[i - 1], i)]
           all == CHOOSE r : Def(r)
<1>1. N \in Nat /\ \A n \in 1 .. N : IsElement(list[n])
  BY ListTypes
<1>2. \A c \in Config, n \in 1 .. N : J(c, n) \in Config
  BY <1>1, KeyRead
<1>3. g \in [Config \X (1 .. N) -> Config]
  <2> HIDE DEF J, N
  <2> QED  BY <1>2
<1>4. PICK r : Goes(r, Config, N, start, g)
  <2> HIDE DEF N, g
  <2> QED  BY <1>1, <1>3, Steps
<1>5. Def(r)
  <2> HIDE DEF N, J
  <2>1. \A n \in 1 .. N : n - 1 \in 0 .. N
    BY <1>1
  <2>2. r \in [0 .. N -> Config] /\ r[0] = start
    BY <1>4 DEF Goes
  <2>3. \A n \in 1 .. N : r[n] = J(r[n - 1], n)
    BY <1>4, <2>1, <2>2 DEF Goes
  <2> HIDE DEF g
  <2> QED  BY <1>1, <2>2, <2>3
<1>6. Def(all)
  <2> HIDE DEF Def
  <2> QED  BY <1>5
<1>7. AfterKeys(start, list) = all[N]
  BY DEF AfterKeys
<1> HIDE DEF all
<1>8. all[0] = start /\ \A n \in 1 .. N : all[n] = J(all[n - 1], n)
  <2> HIDE DEF N, J
  <2> QED  BY <1>1, <1>6
<1> DEFINE S == {n \in Nat : n <= N => all[n] \in Config}
<1>9. Nat \subseteq S
  <2>1. 0 \in S
    BY <1>8
  <2>2. ASSUME NEW n \in Nat, n \in S PROVE n + 1 \in S
    <3> SUFFICES ASSUME n + 1 <= N PROVE all[n + 1] \in Config
      OBVIOUS
    <3>1. n + 1 \in 1 .. N /\ all[n] \in Config /\ (n + 1) - 1 = n
      BY <1>1, <2>2
    <3> HIDE DEF J, N
    <3> QED  BY <1>2, <1>8, <3>1
  <2> HIDE DEF S
  <2> QED  BY <2>1, <2>2, SetInduction
<1>10. all \in [0 .. N -> Config]
  <2>1. \A n \in 0 .. N : all[n] \in Config
    BY <1>1, <1>9
  <2> HIDE DEF N, J
  <2>2. all = [n \in 0 .. N |-> all[n]]
    BY <1>6
  <2> QED  BY <2>1, <2>2
<1> HIDE DEF S
<1> QED  BY <1>7, <1>8, <1>10

\* The defaults that General leaves, and whether anything was wrong in it.
LEMMA GeneralMeans ==
  ASSUME NEW list, IsElements(list)
  PROVE  LET c == AfterGeneral(list)
         IN  /\ c \in Config /\ c.details = <<>> /\ c.ids = <<>>
             /\ c.warned <=> \E i \in DOMAIN list : BadGeneral(list[i])
             /\ ~c.warned => c.default = WrittenDefault(list)
<1> DEFINE N == Len(list)
<1>1. N \in Nat /\ DOMAIN list = 1 .. N /\ \A i \in 1 .. N : IsElement(list[i])
  BY ListTypes
<1>2. PICK c \in [0 .. N -> Config] :
        /\ c[0] = BuiltIn /\ AfterGeneral(list) = c[N]
        /\ \A n \in 1 .. N : c[n] = GeneralElement(c[n - 1], list[n])
  BY GeneralSteps
<1> HIDE DEF N
<1> DEFINE Bad(n) == \E i \in 1 .. n : BadGeneral(list[i])
           Found(n) == \/ /\ \A i \in 1 .. n : ~IsDefault(list[i])
                          /\ c[n].default = BuiltIn.default
                       \/ \E i \in 1 .. n :
                            /\ IsDefault(list[i]) /\ c[n].default = Meaning(list[i])
                            /\ \A j \in i + 1 .. n : ~IsDefault(list[j])
           Good(n) == /\ c[n] \in Config /\ c[n].details = <<>> /\ c[n].ids = <<>>
                      /\ c[n].warned <=> Bad(n)
                      /\ ~Bad(n) => Found(n)
           S == {n \in Nat : n <= N => Good(n)}
<1>3. 0 \in S
  BY <1>1, <1>2, BuiltInTypes
<1>4. ASSUME NEW n \in Nat, n \in S PROVE n + 1 \in S
  <2> SUFFICES ASSUME n + 1 <= N PROVE Good(n + 1)
    OBVIOUS
  <2> DEFINE m == n + 1
             e == list[m]
  <2>1. m \in 1 .. N /\ n \in 0 .. N /\ m \in 0 .. N /\ m - 1 = n /\ Good(n)
    BY <1>1, <1>4
  <2>2. \A i : i \in 1 .. m <=> i \in 1 .. n \/ i = m
    OBVIOUS
  <2>3. IsElement(e) /\ c[m] = GeneralElement(c[n], e) /\ c[n] \in Config
    BY <1>1, <1>2, <2>1
  <2>4. /\ c[m] \in Config /\ c[m].details = c[n].details /\ c[m].ids = c[n].ids
        /\ c[m].warned <=> c[n].warned \/ BadGeneral(e)
        /\ ~IsDefault(e) => c[m].default = c[n].default
        /\ IsDefault(e) /\ ~BadGeneral(e) => c[m].default = Meaning(e)
    <3> HIDE DEF m, e
    <3> QED  BY <2>3, GeneralRead DEF Meaning
  <2>5. Bad(m) <=> Bad(n) \/ BadGeneral(e)
    <3> HIDE DEF m
    <3> QED  BY <2>2 DEF e
  <2>6. ASSUME ~Bad(m) PROVE Found(m)
    <3>1. ~Bad(n) /\ ~BadGeneral(e) /\ Found(n)
      BY <2>1, <2>5, <2>6
    <3>2. CASE IsDefault(e)
      <4>1. m \in 1 .. m /\ m + 1 .. m = {}
        OBVIOUS
      <4> HIDE DEF m
      <4> QED  BY <2>4, <3>1, <3>2, <4>1 DEF e
    <3>3. CASE ~IsDefault(e)
      <4>1. c[m].default = c[n].default
        BY <2>4, <3>3
      <4>2. CASE /\ \A i \in 1 .. n : ~IsDefault(list[i])
                 /\ c[n].default = BuiltIn.default
        <5> HIDE DEF m
        <5> QED  BY <2>2, <3>3, <4>1, <4>2 DEF e
      <4>3. ASSUME NEW i \in 1 .. n, IsDefault(list[i]), c[n].default = Meaning(list[i]),
                   \A j \in i + 1 .. n : ~IsDefault(list[j])
            PROVE  Found(m)
        <5>1. i \in 1 .. m /\ \A j \in i + 1 .. m : j = m \/ j \in i + 1 .. n
          OBVIOUS
        <5> HIDE DEF m
        <5> QED  BY <3>3, <4>1, <4>3, <5>1 DEF e
      <4> QED  BY <3>1, <4>2, <4>3
    <3> QED  BY <3>2, <3>3
  <2> HIDE DEF m, e, Bad, Found
  <2>7. Good(m)
    BY <2>1, <2>4, <2>5, <2>6
  <2> QED  BY <2>7 DEF m
<1>5. Good(N)
  <2>1. N \in S
    <3> HIDE DEF S
    <3> QED  BY <1>1, <1>3, <1>4, SetInduction
  <2> HIDE DEF Good
  <2> QED  BY <1>1, <2>1
<1>6. Found(N) => c[N].default = WrittenDefault(list)
  <2>1. CASE \A i \in 1 .. N : ~IsDefault(list[i])
    <3>1. Found(N) => c[N].default = BuiltIn.default
      BY <2>1
    <3> QED  BY <1>1, <2>1, <3>1, BuiltInTypes DEF WrittenDefault
  <2>2. ASSUME NEW i \in 1 .. N, IsDefault(list[i]), c[N].default = Meaning(list[i]),
               \A j \in i + 1 .. N : ~IsDefault(list[j])
        PROVE  c[N].default = WrittenDefault(list)
    <3> DEFINE k == CHOOSE l \in DOMAIN list : IsLastDefault(list, l)
    <3>1. IsLastDefault(list, i)
      BY <2>2 DEF IsLastDefault, N
    <3>2. k \in DOMAIN list /\ IsLastDefault(list, k)
      BY <1>1, <3>1
    <3> HIDE DEF k
    <3>3. k \in 1 .. N /\ IsDefault(list[k]) /\ \A j \in k + 1 .. N : ~IsDefault(list[j])
      BY <1>1, <3>2 DEF IsLastDefault, N
    <3>4. ~(k < i) /\ ~(i < k)
      <4>1. k < i => i \in k + 1 .. N
        BY <1>1, <3>3
      <4>2. i < k => k \in i + 1 .. N
        BY <1>1, <3>3
      <4> QED  BY <2>2, <3>3, <4>1, <4>2
    <3>5. k = i
      BY <1>1, <3>3, <3>4
    <3>6. WrittenDefault(list) = Meaning(list[k])
      BY <1>1, <2>2 DEF WrittenDefault, Meaning, k
    <3> QED  BY <2>2, <3>5, <3>6
  <2> QED  BY <2>1, <2>2
<1> HIDE DEF Found
<1> QED  BY <1>1, <1>2, <1>5, <1>6

Numbered(e, o) == Has(e, "oid") /\ Atoi[e.attr.oid] = o

\* Of the elements of a key, and of those of a number, the first counts.
LEMMA KeysMean ==
  ASSUME NEW list, IsElements(list),
         NEW start \in Config, start.details = <<>>, start.ids = <<>>
  PROVE  LET c == AfterKeys(start, list)
         IN  /\ c \in Config /\ c.default = start.default
             /\ c.warned <=> start.warned \/ \E i \in DOMAIN list : BadKey(list[i])
             /\ ~c.warned =>
                  /\ \A id : id \in DOMAIN c.details <=>
                               \E i \in DOMAIN list : Names(list[i], id)
                  /\ \A id, i : i \in DOMAIN list /\ IsFirst(list, i, id) =>
                                  c.details[id] = Said(list[i], start.default)
                  /\ \A o : o \in DOMAIN c.ids <=>
                              \E i \in DOMAIN list : Numbered(list[i], o)
                  /\ \A o, i : /\ i \in DOMAIN list /\ Numbered(list[i], o)
                               /\ \A j \in 1 .. i - 1 : ~Numbered(list[j], o)
                               => c.ids[o] = Upper[list[i].attr.id]
<1> DEFINE N == Len(list)
           dflt == start.default
<1>1. N \in Nat /\ DOMAIN list = 1 .. N /\ \A i \in 1 .. N : IsElement(list[i])
  BY ListTypes
<1>2. PICK c \in [0 .. N -> Config] :
        /\ c[0] = start /\ AfterKeys(start, list) = c[N]
        /\ \A n \in 1 .. N : c[n] = KeyElementRead(c[n - 1], list[n])
  BY KeySteps
<1> HIDE DEF N
<1> DEFINE First(i, o) == Numbered(list[i], o) /\ \A j \in 1 .. i - 1 : ~Numbered(list[j], o)
           Bad(n) == \E i \in 1 .. n : BadKey(list[i])
           Dets(n) == /\ \A id : id \in DOMAIN c[n].details <=>
                                   \E i \in 1 .. n : Names(list[i], id)
                      /\ \A id, i : i \in 1 .. n /\ IsFirst(list, i, id) =>
                                      c[n].details[id] = Said(list[i], dflt)
           Nums(n) == /\ \A o : o \in DOMAIN c[n].ids <=>
                                  \E i \in 1 .. n : Numbered(list[i], o)
                      /\ \A o, i : i \in 1 .. n /\ First(i, o) =>
                                     c[n].ids[o] = Upper[list[i].attr.id]
           Good(n) == /\ c[n] \in Config /\ c[n].default = dflt
                      /\ c[n].warned <=> start.warned \/ Bad(n)
                      /\ ~Bad(n) => Dets(n) /\ Nums(n)
           S == {n \in Nat : n <= N => Good(n)}
<1>3. 0 \in S
  <2>1. c[0] \in Config /\ c[0].default = dflt /\ ~Bad(0)
    BY <1>1, <1>2
  <2>2. DOMAIN c[0].details = {} /\ DOMAIN c[0].ids = {}
    BY <1>2
  <2>3. Dets(0) /\ Nums(0)
    BY <2>2
  <2> HIDE DEF Bad, Dets, Nums
  <2> QED  BY <1>2, <2>1, <2>3
<1>4. ASSUME NEW n \in Nat, n \in S PROVE n + 1 \in S
  <2> SUFFICES ASSUME n + 1 <= N PROVE Good(n + 1)
    OBVIOUS
  <2> DEFINE m == n + 1
             e == list[m]
             k == Upper[e.attr.id]
             s == Said(e, dflt)
             o1 == Atoi[e.attr.oid]
  <2>0. Good(n)
    <3> HIDE DEF Good
    <3> QED  BY <1>1, <1>4
  <2>1. m \in 1 .. N /\ n \in 0 .. N /\ m \in 0 .. N /\ m - 1 = n /\ Good(n)
    <3> HIDE DEF Good
    <3> QED  BY <1>1, <2>0
  <2>2. /\ \A i : i \in 1 .. m <=> i \in 1 .. n \/ i = m
        /\ 1 .. m - 1 = 1 .. n
    BY <2>1
  <2>3. IsElement(e) /\ c[m] = KeyElementRead(c[n], e) /\ c[n] \in Config
    BY <1>1, <1>2, <2>1
  <2>4. c[n].default = dflt
    BY <2>1
  <2>5. /\ c[m] \in Config /\ c[m].default = c[n].default
        /\ c[m].warned <=> c[n].warned \/ BadKey(e)
        /\ ~BadKey(e) =>
             /\ c[m].details = Inserted(c[n].details, k, s)
             /\ Has(e, "oid") => c[m].ids = Inserted(c[n].ids, o1, k)
             /\ ~Has(e, "oid") => c[m].ids = c[n].ids
    <3> HIDE DEF m, e
    <3> QED  BY <2>3, <2>4, KeyRead
  <2>6. Bad(m) <=> Bad(n) \/ BadKey(e)
    <3> HIDE DEF m
    <3> QED  BY <2>2 DEF e
  <2>7. ASSUME ~Bad(m) PROVE Dets(m)
    <3>1. /\ \A id : id \in DOMAIN c[n].details <=> \E i \in 1 .. n : Names(list[i], id)
          /\ \A id, i : i \in 1 .. n /\ IsFirst(list, i, id) =>
                          c[n].details[id] = Said(list[i], dflt)
          /\ c[m].details = Inserted(c[n].details, k, s)
      BY <2>1, <2>5, <2>6, <2>7
    <3> DEFINE old == c[n].details
               new == c[m].details
    <3>2. /\ \A id : id \in DOMAIN new <=> id \in DOMAIN old \/ id = k
          /\ \A id : id \in DOMAIN old => new[id] = old[id]
          /\ k \notin DOMAIN old => new[k] = s
      <4> HIDE DEF k, s
      <4> QED  BY <3>1 DEF Inserted
    <3>3. \A id : Names(e, id) <=> id = k
      BY DEF Names
    <3> HIDE DEF old, new, k, s, m
    <3>4. \A id : id \in DOMAIN new <=> \E i \in 1 .. m : Names(list[i], id)
      BY <2>2, <3>1, <3>2, <3>3 DEF e, old
    <3>5. ASSUME NEW id, NEW i \in 1 .. m, IsFirst(list, i, id)
          PROVE  new[id] = Said(list[i], dflt)
      <4>1. CASE i \in 1 .. n
        <5>1. Names(list[i], id)
          BY <3>5 DEF IsFirst
        <5>2. id \in DOMAIN old
          BY <3>1, <4>1, <5>1 DEF old
        <5> QED  BY <3>1, <3>2, <3>5, <4>1, <5>2 DEF old
      <4>2. CASE i = m
        <5>1. Names(e, id) /\ \A j \in 1 .. n : ~Names(list[j], id)
          BY <2>2, <3>5, <4>2 DEF IsFirst, e
        <5>2. id = k /\ id \notin DOMAIN old
          BY <3>1, <3>3, <5>1 DEF old
        <5> QED  BY <3>2, <4>2, <5>2 DEF s, e
      <4> QED  BY <2>2, <4>1, <4>2
    <3> QED  BY <3>4, <3>5 DEF new
  <2>8. ASSUME ~Bad(m) PROVE Nums(m)
    <3>1. /\ \A o : o \in DOMAIN c[n].ids <=> \E i \in 1 .. n : Numbered(list[i], o)
          /\ \A o, i : i \in 1 .. n /\ First(i, o) => c[n].ids[o] = Upper[list[i].attr.id]
      BY <2>1, <2>6, <2>8
    <3> DEFINE old == c[n].ids
               new == c[m].ids
    <3>2. /\ \A o : o \in DOMAIN new <=> o \in DOMAIN old \/ Numbered(e, o)
          /\ \A o : o \in DOMAIN old => new[o] = old[o]
          /\ \A o : Numbered(e, o) /\ o \notin DOMAIN old => new[o] = k
      <4>1. CASE Has(e, "oid")
        <5>1. new = Inserted(old, o1, k)
          BY <2>5, <2>6, <2>8, <4>1
        <5>2. \A o : Numbered(e, o) <=> o = o1
          BY <4>1 DEF Numbered
        <5> HIDE DEF old, new, k, o1
        <5> QED  BY <5>1, <5>2 DEF Inserted
      <4>2. CASE ~Has(e, "oid")
        <5>1. new = old
          BY <2>5, <2>6, <2>8, <4>2
        <5>2. \A o : ~Numbered(e, o)
          BY <4>2 DEF Numbered
        <5> HIDE DEF old, new, k
        <5> QED  BY <5>1, <5>2
      <4> QED  BY <4>1, <4>2
    <3> HIDE DEF old, new, k, m
    <3>4. \A o : o \in DOMAIN new <=> \E i \in 1 .. m : Numbered(list[i], o)
      BY <2>2, <3>1, <3>2 DEF e, old
    <3>5. ASSUME NEW o, NEW i \in 1 .. m, First(i, o)
          PROVE  new[o] = Upper[list[i].attr.id]
      <4>1. CASE i \in 1 .. n
        <5>1. o \in DOMAIN old
          BY <3>1, <3>5, <4>1 DEF old
        <5> HIDE DEF First
        <5> QED  BY <3>1, <3>2, <3>5, <4>1, <5>1 DEF old
      <4>2. CASE i = m
        <5>1. Numbered(e, o) /\ \A j \in 1 .. n : ~Numbered(list[j], o)
          BY <2>2, <3>5, <4>2 DEF e
        <5>2. o \notin DOMAIN old
          BY <3>1, <5>1 DEF old
        <5> QED  BY <3>2, <4>2, <5>1, <5>2 DEF k, e
      <4> QED  BY <2>2, <4>1, <4>2
    <3> QED  BY <3>4, <3>5 DEF new
  <2> HIDE DEF m, e, Bad, Dets, Nums
  <2>9. Good(m)
    BY <2>1, <2>5, <2>6, <2>7, <2>8
  <2> QED  BY <2>9 DEF m
<1>5. Good(N)
  <2>1. N \in S
    <3> HIDE DEF S
    <3> QED  BY <1>1, <1>3, <1>4, SetInduction
  <2> HIDE DEF Good
  <2> QED  BY <1>1, <2>1
<1>6. /\ c[N] \in Config /\ c[N].default = dflt
      /\ c[N].warned <=> start.warned \/ Bad(N)
      /\ ~Bad(N) => Dets(N) /\ Nums(N)
  BY <1>5
<1>7. Bad(N) <=> \E i \in DOMAIN list : BadKey(list[i])
  BY <1>1
<1> HIDE DEF Bad
<1>8. PICK r : r = c[N]
  OBVIOUS
<1>9. AfterKeys(start, list) = r /\ DOMAIN list = 1 .. N
  BY <1>1, <1>2, <1>8
<1>10. /\ r \in Config /\ r.default = dflt
       /\ r.warned <=> start.warned \/ \E i \in DOMAIN list : BadKey(list[i])
  BY <1>6, <1>7, <1>8
<1>11. ASSUME ~r.warned
       PROVE  /\ \A id : id \in DOMAIN r.details <=>
                           \E i \in DOMAIN list : Names(list[i], id)
              /\ \A id, i : i \in DOMAIN list /\ IsFirst(list, i, id) =>
                              r.details[id] = Said(list[i], dflt)
              /\ \A o : o \in DOMAIN r.ids <=> \E i \in DOMAIN list : Numbered(list[i], o)
              /\ \A o, i : i \in DOMAIN list /\ First(i, o) =>
                             r.ids[o] = Upper[list[i].attr.id]
  <2>1. Dets(N) /\ Nums(N)
    BY <1>6, <1>8, <1>11
  <2> HIDE DEF First
  <2> QED  BY <1>8, <1>9, <2>1
<1> HIDE DEF dflt
<1> QED  BY <1>9, <1>10, <1>11 DEF dflt

LEMMA SectionTypes ==
  ASSUME NEW s, IsSections(s), Len(s) = 1
  PROVE  IsElements(s[1])
<1>1. s = [i \in 1 .. Len(s) |-> s[i]] /\ \A i \in DOMAIN s : IsElements(s[i])
  BY DEF IsSections, IsList
<1>2. DOMAIN [i \in 1 .. Len(s) |-> s[i]] = 1 .. Len(s)
  OBVIOUS
<1>3. 1 \in DOMAIN s
  BY <1>1, <1>2
<1> QED  BY <1>1, <1>3

LEMMA ConfigNotFailed ==
  ASSUME NEW c \in Config
  PROVE  c # Failed
<1>1. DOMAIN c = {"default", "compressor", "details", "ids", "warned"}
  BY DEF Config
<1>2. DOMAIN Failed = {"failed"}
  BY DEF Failed
<1> QED  BY <1>1, <1>2

\* A file is refused exactly if something is wrong with it.
LEMMA ParseRefuses ==
  ASSUME NEW f, IsXmlFile(f) \/ f \in {NoFile, Broken}
  PROVE  Parse(f) = Failed <=>
           \/ f.kind # "xml"
           \/ Len(f.general) # 1 \/ Len(f.keys) # 1
           \/ \E e \in Range(f.general[1]) : BadGeneral(e)
           \/ \E e \in Range(f.keys[1]) : BadKey(e)
<1>1. CASE f.kind # "xml" \/ Len(f.general) # 1 \/ Len(f.keys) # 1
  BY <1>1 DEF Parse
<1>2. CASE ~(f.kind # "xml" \/ Len(f.general) # 1 \/ Len(f.keys) # 1)
  <2> DEFINE general == f.general[1]
             keys == f.keys[1]
             start == AfterGeneral(general)
             c == AfterKeys(start, keys)
  <2>1. IsElements(general) /\ IsElements(keys)
    <3>1. IsXmlFile(f)
      BY <1>2 DEF NoFile, Broken
    <3> QED  BY <1>2, <3>1, SectionTypes DEF IsXmlFile
  <2> HIDE DEF general, keys
  <2>2. /\ start \in Config /\ start.details = <<>> /\ start.ids = <<>>
        /\ start.warned <=> \E i \in DOMAIN general : BadGeneral(general[i])
    BY <2>1, GeneralMeans
  <2> HIDE DEF start
  <2>3. /\ c \in Config
        /\ c.warned <=> start.warned \/ \E i \in DOMAIN keys : BadKey(keys[i])
    BY <2>1, <2>2, KeysMean
  <2>4. c # Failed
    BY <2>3, ConfigNotFailed
  <2>5. Parse(f) = IF c.warned THEN Failed ELSE c
    BY <1>2 DEF Parse, c, start, general, keys
  <2> HIDE DEF c
  <2>6. Parse(f) = Failed <=> c.warned
    BY <2>4, <2>5
  <2>7. /\ (\E i \in DOMAIN general : BadGeneral(general[i])) <=>
             \E e \in Range(general) : BadGeneral(e)
        /\ (\E i \in DOMAIN keys : BadKey(keys[i])) <=> \E e \in Range(keys) : BadKey(e)
    BY DEF Range
  <2> QED  BY <1>2, <2>2, <2>3, <2>6, <2>7 DEF general, keys
<1> QED  BY <1>1, <1>2

\* What is made of a file that is not refused.
LEMMA ParseReads ==
  ASSUME NEW f, IsXmlFile(f), Parse(f) # Failed
  PROVE  LET c == Parse(f)
             keys == f.keys[1]
         IN  /\ c \in Config /\ IsElements(f.general[1]) /\ IsElements(keys)
             /\ c.default = WrittenDefault(f.general[1])
             /\ \A i \in DOMAIN keys : ~BadKey(keys[i])
             /\ \A id : id \in DOMAIN c.details <=> \E i \in DOMAIN keys : Names(keys[i], id)
             /\ \A id, i : i \in DOMAIN keys /\ IsFirst(keys, i, id) =>
                             c.details[id] = Said(keys[i], c.default)
             /\ \A o : o \in DOMAIN c.ids <=> \E i \in DOMAIN keys : Numbered(keys[i], o)
             /\ \A o, i : /\ i \in DOMAIN keys /\ Numbered(keys[i], o)
                          /\ \A j \in 1 .. i - 1 : ~Numbered(keys[j], o)
                          => c.ids[o] = Upper[keys[i].attr.id]
<1>1. f.kind = "xml" /\ Len(f.general) = 1 /\ Len(f.keys) = 1
  BY DEF Parse
<1> DEFINE general == f.general[1]
           keys == f.keys[1]
           start == AfterGeneral(general)
           c == AfterKeys(start, keys)
<1>2. IsElements(general) /\ IsElements(keys)
  BY <1>1, SectionTypes DEF IsXmlFile
<1>3. Parse(f) = IF c.warned THEN Failed ELSE c
  BY <1>1 DEF Parse
<1> HIDE DEF general, keys
<1>4. /\ start \in Config /\ start.details = <<>> /\ start.ids = <<>>
      /\ ~start.warned => start.default = WrittenDefault(general)
  BY <1>2, GeneralMeans
<1> HIDE DEF start
<1>5. /\ c \in Config /\ c.default = start.default
      /\ c.warned <=> start.warned \/ \E i \in DOMAIN keys : BadKey(keys[i])
      /\ ~c.warned =>
           /\ \A id : id \in DOMAIN c.details <=> \E i \in DOMAIN keys : Names(keys[i], id)
           /\ \A id, i : i \in DOMAIN keys /\ IsFirst(keys, i, id) =>
                           c.details[id] = Said(keys[i], start.default)
           /\ \A o : o \in DOMAIN c.ids <=> \E i \in DOMAIN keys : Numbered(keys[i], o)
           /\ \A o, i : /\ i \in DOMAIN keys /\ Numbered(keys[i], o)
                        /\ \A j \in 1 .. i - 1 : ~Numbered(keys[j], o)
                        => c.ids[o] = Upper[keys[i].attr.id]
  BY <1>2, <1>4, KeysMean
<1> HIDE DEF c
<1>6. Parse(f) = c /\ ~c.warned
  BY <1>3
<1>7. PICK r : r = c
  OBVIOUS
<1>8. /\ r \in Config /\ IsElements(general) /\ IsElements(keys)
      /\ r.default = WrittenDefault(general)
      /\ \A i \in DOMAIN keys : ~BadKey(keys[i])
  BY <1>2, <1>4, <1>5, <1>6, <1>7
<1>9. /\ \A id : id \in DOMAIN r.details <=> \E i \in DOMAIN keys : Names(keys[i], id)
      /\ \A id, i : i \in DOMAIN keys /\ IsFirst(keys, i, id) =>
                      r.details[id] = Said(keys[i], r.default)
      /\ \A o : o \in DOMAIN r.ids <=> \E i \in DOMAIN keys : Numbered(keys[i], o)
      /\ \A o, i : /\ i \in DOMAIN keys /\ Numbered(keys[i], o)
                   /\ \A j \in 1 .. i - 1 : ~Numbered(keys[j], o)
                   => r.ids[o] = Upper[keys[i].attr.id]
  BY <1>5, <1>6, <1>7
<1>10. Parse(f) = r
  BY <1>6, <1>7
<1> QED  BY <1>8, <1>9, <1>10 DEF general, keys

(***************************************************************************)
(* The file that xrtdb writes.                                             *)
(***************************************************************************)
LEMMA MapRange ==
  ASSUME ListsInv, MapInv
  PROVE  /\ DOMAIN map \subseteq 0 .. Len(itList) - 1 /\ IsFiniteSet(DOMAIN map)
         /\ Len(itList) \in Nat /\ \A n \in DOMAIN map : map[n] \in BOOLEAN
         /\ \A n \in 0 .. Len(itList) - 1 : Name(n) \in ItemNames /\ Name(n) \in Strings
         /\ \A n, m \in 0 .. Len(itList) - 1 : Name(n) = Name(m) => n = m
<1> DEFINE N == Len(itList)
<1>1. N \in Nat /\ DOMAIN itList = 1 .. N /\ itList \in Seq(ItemNames)
  BY DEF ListsInv
<1>2. DOMAIN map \subseteq 0 .. N - 1 /\ \A n \in DOMAIN map : map[n] \in BOOLEAN
  <2>1. CASE met = 0
    BY <2>1 DEF MapInv
  <2>2. CASE met # 0
    <3>1. /\ place # "assignment" /\ met \in 1 .. Len(Assigned)
          /\ map \in [{Assigned[j].num : j \in 1 .. met} -> BOOLEAN]
      BY <2>2 DEF MapInv
    <3>2. \A j \in 1 .. met : j \in 1 .. Len(Assigned)
      <4>1. Len(Assigned) \in Nat
        BY <3>1, AssignedIsMentioned
      <4> QED  BY <3>1, <4>1
    <3>3. \A j \in 1 .. met : Assigned[j].num \in 0 .. N - 1
      BY <3>1, <3>2, AssignedRange
    <3> HIDE DEF N
    <3> QED  BY <3>1, <3>3
  <2> QED  BY <2>1, <2>2
<1>3. IsFiniteSet(DOMAIN map)
  <2>1. IsFiniteSet(0 .. N - 1)
    BY <1>1, FS_Interval
  <2> QED  BY <1>2, <2>1, FS_Subset
<1>4. \A n \in 0 .. N - 1 : n + 1 \in 1 .. N
  BY <1>1
<1>5. \A i, j \in 1 .. N : itList[i] = itList[j] => i = j
  BY <1>1 DEF ListsInv
<1>6. \A n \in 0 .. N - 1 : Name(n) \in ItemNames
  BY <1>1, <1>4 DEF Name
<1>7. \A n, m \in 0 .. N - 1 : Name(n) = Name(m) => n = m
  <2> SUFFICES ASSUME NEW n \in 0 .. N - 1, NEW m \in 0 .. N - 1, Name(n) = Name(m)
               PROVE  n = m
    OBVIOUS
  <2>1. n + 1 = m + 1
    BY <1>4, <1>5 DEF Name
  <2> QED  BY <1>1, <2>1
<1> QED  BY <1>1, <1>2, <1>3, <1>6, <1>7, ToolChainConstants

\* Every number has its place among the keys, and every place its number.
LEMMA KeyPlaces ==
  ASSUME ListsInv, MapInv
  PROVE  /\ Cardinality(DOMAIN map) \in Nat
         /\ \A n \in DOMAIN map : KeyPlace(n) \in 1 .. Cardinality(DOMAIN map)
         /\ \A n, m \in DOMAIN map : KeyPlace(n) = KeyPlace(m) => n = m
         /\ \A i \in 1 .. Cardinality(DOMAIN map) : \E n \in DOMAIN map : KeyPlace(n) = i
<1> DEFINE D == DOMAIN map
           N == Cardinality(D)
           r(n) == Rank[Name(n)]
           Upto(n) == {m \in D : r(m) <= r(n)}
<1>1. /\ IsFiniteSet(D) /\ N \in Nat
      /\ \A n \in D : r(n) \in Nat
      /\ \A n, m \in D : r(n) = r(m) => n = m
  <2>1. /\ IsFiniteSet(D) /\ \A n \in D : Name(n) \in ItemNames
        /\ \A n, m \in D : Name(n) = Name(m) => n = m
    BY MapRange
  <2>2. N \in Nat
    BY <2>1, FS_CardinalityType
  <2> QED  BY <2>1, <2>2, XrtdbConstants
<1>2. \A n : KeyPlace(n) = Cardinality(Upto(n))
  BY DEF KeyPlace
<1> HIDE DEF r
<1>3. \A n \in D : /\ Upto(n) \in SUBSET D /\ IsFiniteSet(Upto(n))
                   /\ Cardinality(Upto(n)) \in Nat /\ Cardinality(Upto(n)) <= N
                   /\ n \in Upto(n)
  <2> SUFFICES ASSUME NEW n \in D
               PROVE  /\ Upto(n) \in SUBSET D /\ IsFiniteSet(Upto(n))
                      /\ Cardinality(Upto(n)) \in Nat /\ Cardinality(Upto(n)) <= N
                      /\ n \in Upto(n)
    OBVIOUS
  <2>1. Upto(n) \in SUBSET D /\ n \in Upto(n)
    BY <1>1
  <2> HIDE DEF Upto, D
  <2>2. IsFiniteSet(Upto(n)) /\ Cardinality(Upto(n)) <= N
    BY <1>1, <2>1, FS_Subset
  <2>3. Cardinality(Upto(n)) \in Nat
    BY <2>2, FS_CardinalityType
  <2> QED  BY <2>1, <2>2, <2>3
<1>4. \A n \in D : KeyPlace(n) \in 1 .. N
  <2> SUFFICES ASSUME NEW n \in D PROVE KeyPlace(n) \in 1 .. N
    OBVIOUS
  <2> DEFINE u == Upto(n)
  <2>1. IsFiniteSet(u) /\ n \in u /\ Cardinality(u) \in Nat /\ Cardinality(u) <= N
    BY <1>3
  <2> HIDE DEF u
  <2>2. Cardinality(u) # 0
    BY <2>1, FS_EmptySet
  <2>3. Cardinality(u) \in 1 .. N
    <3> HIDE DEF N
    <3> QED  BY <1>1, <2>1, <2>2
  <2> QED  BY <1>2, <2>3 DEF u
<1>5. ASSUME NEW n \in D, NEW m \in D, r(n) < r(m)
      PROVE  KeyPlace(n) # KeyPlace(m)
  <2>1. Upto(n) \in SUBSET Upto(m) /\ m \notin Upto(n)
    BY <1>1, <1>5
  <2>2. IsFiniteSet(Upto(m)) /\ m \in Upto(m)
    BY <1>3
  <2> HIDE DEF Upto
  <2>3. Cardinality(Upto(m)) # Cardinality(Upto(n))
    BY <2>1, <2>2, FS_Subset
  <2> QED  BY <1>2, <2>3
<1>6. ASSUME NEW n \in D, NEW m \in D, KeyPlace(n) = KeyPlace(m)
      PROVE  n = m
  <2>1. ~(r(n) < r(m)) /\ ~(r(m) < r(n))
    BY <1>5, <1>6
  <2>2. r(n) = r(m)
    BY <1>1, <2>1
  <2> QED  BY <1>1, <2>2
<1>7. \A i \in 1 .. N : \E n \in D : KeyPlace(n) = i
  <2> DEFINE f == [n \in D |-> KeyPlace(n)]
  <2> HIDE DEF D, N
  <2>1. f \in Injection(D, 1 .. N)
    BY <1>4, <1>6 DEF Injection, IsInjective
  <2>2. IsFiniteSet(1 .. N) /\ Cardinality(1 .. N) = N
    BY <1>1, FS_Interval
  <2>3. N = Cardinality(D)
    BY DEF N
  <2> HIDE DEF f
  <2>4. f \in Surjection(D, 1 .. N)
    BY <1>1, <2>1, <2>2, <2>3, FS_Injection
  <2>5. \A i \in 1 .. N : \E n \in D : f[n] = i
    BY <2>4 DEF Surjection
  <2> QED  BY <2>5 DEF f
<1> QED  BY <1>1, <1>4, <1>6, <1>7

\* The keys of the file, in whatever order.
LEMMA KeysWritten ==
  ASSUME ListsInv, MapInv
  PROVE  /\ \A i \in DOMAIN KeyElements : \E n \in DOMAIN map : KeyElements[i] = KeyElement(n)
         /\ \A n \in DOMAIN map :
              /\ KeyPlace(n) \in DOMAIN KeyElements
              /\ KeyElements[KeyPlace(n)] = KeyElement(n)
         /\ Len(KeyElements) \in Nat /\ DOMAIN KeyElements = 1 .. Len(KeyElements)
         /\ IsList(KeyElements)
<1> DEFINE N == Cardinality(DOMAIN map)
           At(i) == CHOOSE n \in DOMAIN map : KeyPlace(n) = i
<1>1. /\ N \in Nat /\ \A n \in DOMAIN map : KeyPlace(n) \in 1 .. N
      /\ \A n, m \in DOMAIN map : KeyPlace(n) = KeyPlace(m) => n = m
      /\ \A i \in 1 .. N : \E n \in DOMAIN map : KeyPlace(n) = i
  BY KeyPlaces
<1> HIDE DEF N
<1>2. \A i \in 1 .. N : At(i) \in DOMAIN map /\ KeyPlace(At(i)) = i
  BY <1>1
<1>3. KeyElements = [i \in 1 .. N |-> KeyElement(At(i))]
  BY DEF KeyElements, N
<1> HIDE DEF At
<1>4. DOMAIN KeyElements = 1 .. N /\ \A i \in 1 .. N : KeyElements[i] = KeyElement(At(i))
  BY <1>3
<1>5. Len(KeyElements) = N
  BY <1>1, <1>3
<1>6. \A n \in DOMAIN map : At(KeyPlace(n)) = n
  BY <1>1, <1>2
<1>7. KeyElements = [i \in 1 .. N |-> KeyElements[i]]
  BY <1>3, <1>4
<1> QED  BY <1>1, <1>2, <1>4, <1>5, <1>6, <1>7 DEF IsList

LEMMA KeyElementIsElement ==
  ASSUME ListsInv, MapInv, NEW n \in DOMAIN map
  PROVE  /\ IsElement(KeyElement(n)) /\ ~BadKey(KeyElement(n))
         /\ \A o : Numbered(KeyElement(n), o) <=> o = n
         /\ KeyElement(n).attr.id = Name(n)
         /\ \A d : d.shared = TRUE => Said(KeyElement(n), d).shared = map[n]
<1>1. /\ Name(n) \in Strings /\ n \in 0 .. Len(itList) - 1 /\ map[n] \in BOOLEAN
      /\ Len(itList) \in Nat
  BY MapRange
<1>2. Len(itList) <= MaxItems /\ MaxItems \in Nat
  BY XrtdbConstants DEF ListsInv
<1>3. n \in 0 .. MaxItems
  BY <1>1, <1>2
<1>4. /\ Number(n) \in Numbers /\ Number(n) \in Strings /\ Atoi[Number(n)] = n
      /\ "false" \in Strings /\ Lower["false"] = "false"
  BY <1>3, ToolChainConstants, KeyConfigConstants DEF Number
<1>5. CASE map[n]
  <2> DEFINE a == [id |-> Name(n), oid |-> Number(n)]
  <2>1. KeyElement(n) = [tag |-> "key", attr |-> a]
    BY <1>5 DEF KeyElement
  <2>2. /\ DOMAIN a = {"id", "oid"} /\ a.id = Name(n) /\ a.oid = Number(n)
        /\ a \in [{"id", "oid"} -> Strings]
    BY <1>1, <1>4
  <2> DEFINE k == KeyElement(n)
  <2>3. k.tag = "key" /\ k.attr = a /\ k = [tag |-> k.tag, attr |-> k.attr]
    BY <2>1
  <2> HIDE DEF a, k
  <2>4. \A x : Has(k, x) <=> x \in {"id", "oid"}
    BY <2>2, <2>3 DEF Has
  <2>5. k.attr.id = Name(n) /\ k.attr.oid = Number(n) /\ k.attr["oid"] = Number(n)
    BY <2>2, <2>3
  <2>6. IsElement(k)
    BY <2>2, <2>3 DEF IsElement, AttributeNames
  <2>7. ~BadKey(k)
    BY <1>4, <2>3, <2>4, <2>5 DEF BadKey, IsNumber
  <2>8. \A o : Numbered(k, o) <=> o = n
    BY <1>4, <2>4, <2>5 DEF Numbered
  <2>9. ASSUME NEW d, d.shared = TRUE PROVE Said(k, d).shared = map[n]
    <3>1. map[n] = TRUE /\ ~Has(k, "shared")
      BY <1>1, <1>5, <2>4
    <3>2. Said(k, d).shared = IF Has(k, "shared") THEN MeansTrue(k.attr.shared)
                              ELSE d.shared
      BY DEF Said
    <3>3. Said(k, d).shared = d.shared
      BY <3>1, <3>2
    <3> QED  BY <2>9, <3>1, <3>3
  <2> QED  BY <2>5, <2>6, <2>7, <2>8, <2>9 DEF k
<1>6. CASE ~map[n]
  <2> DEFINE a == [id |-> Name(n), shared |-> "false", oid |-> Number(n)]
  <2>1. KeyElement(n) = [tag |-> "key", attr |-> a]
    BY <1>6 DEF KeyElement
  <2>2. /\ DOMAIN a = {"id", "shared", "oid"} /\ a.id = Name(n) /\ a.oid = Number(n)
        /\ a.shared = "false" /\ a \in [{"id", "shared", "oid"} -> Strings]
    BY <1>1, <1>4
  <2>3. ~MeansTrue("false") /\ IsSwitch("false")
    BY <1>4 DEF MeansTrue, MeansFalse, IsSwitch
  <2> DEFINE k == KeyElement(n)
  <2>4. k.tag = "key" /\ k.attr = a /\ k = [tag |-> k.tag, attr |-> k.attr]
    BY <2>1
  <2> HIDE DEF a, k
  <2>5. \A x : Has(k, x) <=> x \in {"id", "shared", "oid"}
    BY <2>2, <2>4 DEF Has
  <2>6. /\ k.attr.id = Name(n) /\ k.attr.oid = Number(n) /\ k.attr["oid"] = Number(n)
        /\ k.attr.shared = "false"
    BY <2>2, <2>4
  <2>7. IsElement(k)
    BY <2>2, <2>4 DEF IsElement, AttributeNames
  <2>8. ~BadKey(k)
    BY <1>4, <2>3, <2>4, <2>5, <2>6 DEF BadKey, IsNumber
  <2>9. \A o : Numbered(k, o) <=> o = n
    BY <1>4, <2>5, <2>6 DEF Numbered
  <2>10. ASSUME NEW d PROVE Said(k, d).shared = map[n]
    <3>1. map[n] = FALSE /\ Has(k, "shared")
      BY <1>1, <1>6, <2>5
    <3>2. Said(k, d).shared = IF Has(k, "shared") THEN MeansTrue(k.attr.shared)
                              ELSE d.shared
      BY DEF Said
    <3>3. Said(k, d).shared = MeansTrue("false")
      BY <2>6, <3>1, <3>2
    <3>4. MeansTrue("false") = FALSE
      BY <2>3, SwitchTypes
    <3> QED  BY <3>1, <3>3, <3>4
  <2> QED  BY <2>6, <2>7, <2>8, <2>9, <2>10 DEF k
<1> QED  BY <1>1, <1>5, <1>6

LEMMA DefaultsWritten ==
  LET list == XmlFile.general[1]
  IN  /\ IsElements(list) /\ \A i \in DOMAIN list : ~BadGeneral(list[i])
      /\ WrittenDefault(list).shared = TRUE
<1> DEFINE a == [shared |-> "true", period |-> "1", phase |-> "0"]
           b == [name |-> "zstd", dictionary |-> "true"]
           d == [tag |-> "DefaultKeyValue", attr |-> a]
           c == [tag |-> "Compressor", attr |-> b]
           list == <<d, c>>
<1>1. XmlFile.general[1] = list
  BY DEF XmlFile
<1>2. /\ "true" \in Strings /\ "zstd" \in Strings /\ "1" \in Strings /\ "0" \in Strings
      /\ "1" \in Numbers /\ "0" \in Numbers /\ Lower["true"] = "true"
  BY ToolChainConstants, KeyConfigConstants
<1>3. MeansTrue("true") = TRUE /\ IsSwitch("true")
  BY <1>2 DEF MeansTrue, IsSwitch
<1>4. IsElement(d) /\ ~BadGeneral(d) /\ IsDefault(d)
  <2>1. /\ DOMAIN a = {"shared", "period", "phase"}
        /\ a \in [{"shared", "period", "phase"} -> Strings]
        /\ a.shared = "true" /\ a.period = "1" /\ a.phase = "0"
        /\ a["period"] = "1" /\ a["phase"] = "0"
    BY <1>2
  <2>2. d.tag = "DefaultKeyValue" /\ d.attr = a /\ d = [tag |-> d.tag, attr |-> d.attr]
    OBVIOUS
  <2> HIDE DEF a, d
  <2>3. IsElement(d)
    BY <2>1, <2>2 DEF IsElement, AttributeNames
  <2>4. /\ Has(d, "shared") /\ IsNumber(d, "period") /\ IsNumber(d, "phase")
        /\ d.attr.shared = "true"
    BY <1>2, <2>1, <2>2 DEF Has, IsNumber
  <2> QED  BY <1>3, <2>2, <2>3, <2>4 DEF BadGeneral, IsDefault
<1>5. IsElement(c) /\ ~BadGeneral(c) /\ ~IsDefault(c)
  <2>1. /\ DOMAIN b = {"name", "dictionary"} /\ b \in [{"name", "dictionary"} -> Strings]
        /\ b.name = "zstd" /\ b.dictionary = "true"
    BY <1>2
  <2>2. c.tag = "Compressor" /\ c.attr = b /\ c = [tag |-> c.tag, attr |-> c.attr]
    OBVIOUS
  <2> HIDE DEF b, c
  <2>3. IsElement(c)
    BY <2>1, <2>2 DEF IsElement, AttributeNames
  <2>4. Has(c, "name") /\ Has(c, "dictionary") /\ c.attr.dictionary = "true"
    BY <2>1, <2>2 DEF Has
  <2> QED  BY <1>3, <2>2, <2>3, <2>4 DEF BadGeneral, IsDefault
<1>6. d.attr.shared = "true"
  OBVIOUS
<1> HIDE DEF a, b, c, d
<1>7. /\ Len(list) = 2 /\ DOMAIN list = 1 .. 2 /\ list[1] = d /\ list[2] = c
      /\ list = [i \in 1 .. 2 |-> list[i]]
  OBVIOUS
<1> HIDE DEF list
<1>8. \A i \in 1 .. 2 : i = 1 \/ i = 2
  OBVIOUS
<1>9. IsElements(list) /\ \A i \in DOMAIN list : ~BadGeneral(list[i])
  BY <1>4, <1>5, <1>7, <1>8 DEF IsElements, IsList
<1>10. WrittenDefault(list).shared = TRUE
  <2> DEFINE k == CHOOSE i \in DOMAIN list : IsLastDefault(list, i)
  <2>1. 1 \in DOMAIN list /\ IsLastDefault(list, 1)
    <3>1. \A j \in 1 + 1 .. Len(list) : j = 2
      BY <1>7
    <3> QED  BY <1>4, <1>5, <1>7, <3>1 DEF IsLastDefault
  <2>2. k \in DOMAIN list /\ IsLastDefault(list, k)
    BY <2>1
  <2>3. k = 1
    BY <1>5, <1>7, <1>8, <2>2 DEF IsLastDefault
  <2>4. WrittenDefault(list) = Meaning(list[k])
    BY <1>4, <1>7, <2>1 DEF WrittenDefault, Meaning
  <2> HIDE DEF k
  <2> QED  BY <1>3, <1>6, <1>7, <2>3, <2>4 DEF Meaning
<1> QED  BY <1>1, <1>9, <1>10

LEMMA XmlFileTypes ==
  ASSUME ListsInv, MapInv
  PROVE  /\ IsXmlFile(XmlFile)
         /\ Len(XmlFile.general) = 1 /\ Len(XmlFile.keys) = 1
         /\ XmlFile.keys[1] = KeyElements /\ IsElements(KeyElements)
<1>1. IsElements(KeyElements)
  <2>1. IsList(KeyElements)
    BY KeysWritten
  <2>2. \A i \in DOMAIN KeyElements : IsElement(KeyElements[i])
    <3> SUFFICES ASSUME NEW i \in DOMAIN KeyElements PROVE IsElement(KeyElements[i])
      OBVIOUS
    <3>1. PICK n \in DOMAIN map : KeyElements[i] = KeyElement(n)
      BY KeysWritten
    <3> QED  BY <3>1, KeyElementIsElement
  <2> QED  BY <2>1, <2>2 DEF IsElements
<1> DEFINE f == XmlFile
           g == f.general[1]
<1>2. IsElements(g)
  BY DefaultsWritten
<1>3. /\ f.kind = "xml" /\ f = [kind |-> "xml", general |-> f.general, keys |-> f.keys]
      /\ f.general = <<g>> /\ f.keys = <<KeyElements>>
  BY DEF XmlFile
<1> HIDE DEF f, g
<1>4. \A x : IsElements(x) => IsSections(<<x>>) /\ Len(<<x>>) = 1 /\ <<x>>[1] = x
  <2> SUFFICES ASSUME NEW x, IsElements(x)
               PROVE  IsSections(<<x>>) /\ Len(<<x>>) = 1 /\ <<x>>[1] = x
    OBVIOUS
  <2>1. /\ Len(<<x>>) = 1 /\ DOMAIN <<x>> = 1 .. 1 /\ <<x>>[1] = x
        /\ <<x>> = [i \in 1 .. 1 |-> <<x>>[i]]
    OBVIOUS
  <2>2. \A i \in 1 .. 1 : i = 1
    OBVIOUS
  <2> QED  BY <2>1, <2>2 DEF IsSections, IsList
<1>5. IsXmlFile(f)
  BY <1>1, <1>2, <1>3, <1>4 DEF IsXmlFile
<1> QED  BY <1>1, <1>2, <1>3, <1>4, <1>5 DEF f

(***************************************************************************)
(* The file is completed by hand.                                          *)
(***************************************************************************)
LEMMA ElementsOf ==
  ASSUME NEW V, \A e \in V : IsElement(e), NEW s \in Seq(V)
  PROVE  IsElements(s)
<1>1. Len(s) \in Nat /\ DOMAIN s = 1 .. Len(s) /\ s = [i \in 1 .. Len(s) |-> s[i]]
      /\ \A i \in 1 .. Len(s) : s[i] \in V
  OBVIOUS
<1>. QED
  BY <1>1 DEF IsElements, IsList

LEMMA ElementChanged ==
  ASSUME NEW e, IsElement(e), NEW t \in ChangedElements(e)
  PROVE  IsElement(t)
<1>. DEFINE A == DOMAIN e.attr
<1>1. A \subseteq AttributeNames /\ e.attr \in [A -> Strings]
      /\ e = [tag |-> e.tag, attr |-> e.attr] /\ Values \subseteq Strings
  BY ToolChainConstants DEF IsElement
<1>2. ASSUME NEW a \in Attributes(e), NEW v \in Values, t = WithAttr(e, a, v)
      PROVE  IsElement(t)
  <2>. DEFINE f == [x \in A \union {a} |-> IF x = a THEN v ELSE e.attr[x]]
  <2>1. a \in AttributeNames
    BY <1>2 DEF Attributes, AttributeNames
  <2>2. f \in [A \union {a} -> Strings] /\ DOMAIN f = A \union {a}
    BY <1>1, <1>2
  <2>3. t = [e EXCEPT !.attr = f]
    BY <1>2 DEF WithAttr
  <2>. HIDE DEF f
  <2>4. t = [tag |-> e.tag, attr |-> f]
    BY <2>3, <1>1
  <2>. QED
    BY <2>1, <2>2, <2>4, <1>1 DEF IsElement
<1>3. ASSUME NEW a \in A, t = WithoutAttr(e, a)
      PROVE  IsElement(t)
  <2>. DEFINE f == [x \in A \ {a} |-> e.attr[x]]
  <2>2. f \in [A \ {a} -> Strings] /\ DOMAIN f = A \ {a}
    BY <1>1
  <2>3. t = [e EXCEPT !.attr = f]
    BY <1>3 DEF WithoutAttr
  <2>. HIDE DEF f
  <2>4. t = [tag |-> e.tag, attr |-> f]
    BY <2>3, <1>1
  <2>. QED
    BY <2>2, <2>4, <1>1 DEF IsElement
<1>4. ASSUME t = [e EXCEPT !.tag = "misspelt"]
      PROVE  IsElement(t)
  <2>1. t = [tag |-> "misspelt", attr |-> e.attr]
    BY <1>1, <1>4
  <2>. QED
    BY <2>1, <1>1 DEF IsElement
<1>. QED
  BY <1>2, <1>3, <1>4 DEF ChangedElements

LEMMA ListChanged ==
  ASSUME NEW list, IsElements(list), NEW t \in ChangedLists(list)
  PROVE  IsElements(t)
<1>. DEFINE N == Len(list)
            V == {e \in {list[i] : i \in 1 .. N}
                       \union UNION {ChangedElements(list[i]) : i \in 1 .. N} : TRUE}
<1>1. N \in Nat /\ DOMAIN list = 1 .. N /\ \A i \in 1 .. N : IsElement(list[i])
  BY ListTypes
<1>2. \A e \in V : IsElement(e)
  BY <1>1, ElementChanged
<1>3. list \in Seq(V)
  <2>1. list = [i \in 1 .. N |-> list[i]]
    BY DEF IsElements, IsList
  <2>2. list \in [1 .. N -> V]
    BY <2>1
  <2>. QED
    BY <2>2, <1>1
<1>4. \A i \in 1 .. N : list[i] \in V /\ \A e \in ChangedElements(list[i]) : e \in V
  OBVIOUS
<1>. HIDE DEF V
<1>5. ASSUME NEW i \in 1 .. N, NEW e \in ChangedElements(list[i]), t = ReplaceAt(list, i, e)
      PROVE  t \in Seq(V)
  BY <1>1, <1>3, <1>4, <1>5 DEF ReplaceAt
<1>6. ASSUME NEW i \in 1 .. N, t = RemoveAt(list, i)
      PROVE  t \in Seq(V)
  <2>1. SubSeq(list, 1, i - 1) \in Seq(V) /\ SubSeq(list, i + 1, N) \in Seq(V)
    BY <1>1, <1>3
  <2>2. SubSeq(list, 1, i - 1) \o SubSeq(list, i + 1, N) \in Seq(V)
    BY <2>1
  <2>. QED
    BY <2>2, <1>6 DEF RemoveAt
<1>7. ASSUME NEW i \in 1 .. N, t = Append(list, list[i])
      PROVE  t \in Seq(V)
  BY <1>1, <1>3, <1>4, <1>7
<1>8. t \in Seq(V)
  <2>1. \/ \E i \in DOMAIN list : \E e \in ChangedElements(list[i]) : t = ReplaceAt(list, i, e)
        \/ \E i \in DOMAIN list : t = RemoveAt(list, i)
        \/ \E i \in DOMAIN list : t = Append(list, list[i])
    BY DEF ChangedLists
  <2>. QED
    BY <2>1, <1>1, <1>5, <1>6, <1>7
<1>. QED
  BY <1>2, <1>8, ElementsOf

LEMMA SectionsChanged ==
  ASSUME NEW s, IsSections(s), Len(s) = 1, NEW t \in ChangedSections(s)
  PROVE  IsSections(t)
<1>1. s = <<s[1]>> /\ IsElements(s[1])
  BY SectionTypes DEF IsSections, IsList
<1>2. ASSUME NEW list \in ChangedLists(s[1]), t = <<list>>
      PROVE  IsSections(t)
  <2>1. IsElements(list)
    BY <1>1, ListChanged
  <2>2. Len(t) = 1 /\ t = [i \in 1 .. 1 |-> t[i]] /\ t[1] = list /\ DOMAIN t = 1 .. 1
    BY <1>2
  <2>. QED
    BY <2>1, <2>2 DEF IsSections, IsList
<1>3. ASSUME t = s \o s
      PROVE  IsSections(t)
  <2>1. PICK x : s = <<x>> /\ IsElements(x)
    BY <1>1
  <2>2. <<x>> \in Seq({x})
    OBVIOUS
  <2>3. t \in Seq({x})
    BY <1>3, <2>1, <2>2, ConcatProperties
  <2>4. Len(t) \in Nat /\ DOMAIN t = 1 .. Len(t) /\ t = [i \in 1 .. Len(t) |-> t[i]]
        /\ \A i \in 1 .. Len(t) : t[i] = x
    BY <2>3
  <2>. QED
    BY <2>1, <2>4 DEF IsSections, IsList
<1>. QED
  BY <1>2, <1>3 DEF ChangedSections

LEMMA FileEdited ==
  ASSUME IsXmlFile(xmlFile), Edit
  PROVE  IsXmlFile(xmlFile')
<1>1. xmlFile = [kind |-> "xml", general |-> xmlFile.general, keys |-> xmlFile.keys]
      /\ IsSections(xmlFile.general) /\ IsSections(xmlFile.keys)
      /\ Len(xmlFile.general) = 1 /\ Len(xmlFile.keys) = 1
  BY DEF IsXmlFile, Edit
<1>2. PICK f : f = xmlFile'
  OBVIOUS
<1>3. ASSUME NEW s \in ChangedSections(xmlFile.general), f = [xmlFile EXCEPT !.general = s]
      PROVE  IsXmlFile(f)
  <2>1. IsSections(s)
    BY <1>1, SectionsChanged
  <2>2. f = [kind |-> "xml", general |-> s, keys |-> xmlFile.keys]
    BY <1>1, <1>3
  <2>. QED
    BY <2>1, <2>2, <1>1 DEF IsXmlFile
<1>4. ASSUME NEW s \in ChangedSections(xmlFile.keys), f = [xmlFile EXCEPT !.keys = s]
      PROVE  IsXmlFile(f)
  <2>1. IsSections(s)
    BY <1>1, SectionsChanged
  <2>2. f = [kind |-> "xml", general |-> xmlFile.general, keys |-> s]
    BY <1>1, <1>4
  <2>. QED
    BY <2>1, <2>2, <1>1 DEF IsXmlFile
<1>. QED
  BY <1>2, <1>3, <1>4 DEF Edit

(***************************************************************************)
(* What is in the files, and what is read of them.                         *)
(***************************************************************************)
LEMMA FilesStart ==
  ASSUME Init
  PROVE  FilesInv
<1>1. xmlFile \in OldXmlFiles /\ place = "top" /\ written = {} /\ edits = 0
      /\ config = NotRead
  BY DEF Init, XrtdbInit
<1>2. xmlFile \in {NoFile, Broken} \/ IsXmlFile(xmlFile)
  BY <1>1, ToolChainConstants
<1>. QED
  BY <1>1, <1>2 DEF FilesInv

\* What main is about to write depends on what it has collected.
LEMMA SameFiles ==
  ASSUME UNCHANGED <<agList, itList, map>>
  PROVE  UserFile' = UserFile /\ XmlFile' = XmlFile
BY DEF UserFile, XmlFile, KeyElements, KeyElement, KeyPlace, Name, Number

\* While rtdb.conf is read the files are left alone.
LEMMA FilesGrammar ==
  ASSUME FilesInv, Grammar, UNCHANGED <<config, edits>>
  PROVE  FilesInv'
<1>1. /\ place \in Blocks /\ place' \in Blocks \union {"user", "aborted"}
      /\ UNCHANGED <<xmlFile, userFile, written>>
  BY DEF Grammar, Abort, AgentCreate, ItemCreate, AddField, ItemAddDatatype,
         ItemAddHeaderfile, ItemAddPeriod, ItemVerify, SchemaCreate, SchemaAddSharedItem,
         SchemaAddLocalItem, SchemaVerify, AssignmentCreate, AssignmentAddSchema,
         AssignmentAddAgent, AssignmentVerify, RaiseError, EndOfFile, xrtdbVars, fileVars,
         Blocks
<1>2. place \notin {"xml", "keys", "done", "aborted"}
  BY <1>1 DEF Blocks
<1>. QED
  BY <1>1, <1>2 DEF FilesInv

LEMMA FilesMain ==
  ASSUME ListsInv, MapInv, FilesInv, Main, UNCHANGED <<config, edits>>
  PROVE  FilesInv'
<1>1. CASE NoUserFile
  BY <1>1 DEF NoUserFile, AfterUserFile, FilesInv
<1>2. CASE PrintUserFile
  <2>1. UserFile' = UserFile
    BY <1>2, SameFiles DEF PrintUserFile, listVars, mapVars
  <2>. QED
    BY <1>2, <2>1 DEF PrintUserFile, AfterUserFile, FilesInv
<1>3. CASE NoXmlFile \/ OpenXmlFile
  <2>1. UserFile' = UserFile
    BY <1>3, SameFiles DEF NoXmlFile, OpenXmlFile, listVars, mapVars
  <2>. QED
    BY <1>3, <2>1 DEF NoXmlFile, OpenXmlFile, FilesInv
<1>4. CASE AnalyzeAssignmentList
  <2>1. UserFile' = UserFile
    BY <1>4 DEF AnalyzeAssignmentList, listVars, UserFile
  <2>. QED
    BY <1>4, <2>1 DEF AnalyzeAssignmentList, fileVars, FilesInv
<1>5. CASE PrintRtDB2File
  <2>1. UserFile' = UserFile /\ XmlFile' = XmlFile
    BY <1>5, SameFiles DEF PrintRtDB2File, listVars, mapVars
  <2>2. Assigned' = Assigned
    BY <1>5, AssignedKept DEF PrintRtDB2File, listVars
  <2>3. IsXmlFile(XmlFile)
    BY XmlFileTypes
  <2>4. /\ place = "keys" /\ met = Len(Assigned) /\ xmlFile' = XmlFile /\ place' = "done"
        /\ written' = written \union {"xml"} /\ UNCHANGED <<userFile, met>>
    BY <1>5 DEF PrintRtDB2File, mapVars
  <2>. QED
    BY <2>1, <2>2, <2>3, <2>4 DEF FilesInv
<1>6. CASE NoAnswer
  <2>1. place \in {"user", "xml", "keys"} /\ place' = "aborted"
        /\ UNCHANGED <<xmlFile, userFile, written>>
    BY <1>6 DEF NoAnswer, Asking, Abort, fileVars
  <2>. QED
    BY <2>1 DEF FilesInv
<1>. QED
  BY <1>1, <1>2, <1>3, <1>4, <1>5, <1>6 DEF Main

LEMMA FilesNext ==
  ASSUME Inv, [Next]_vars
  PROVE  FilesInv'
<1>. USE DEF Inv
<1>1. CASE Generate
  BY <1>1, FilesGrammar, FilesMain DEF Generate, XrtdbNext
<1>2. CASE Edit
  <2>1. /\ place \in {"done", "aborted"} /\ config = NotRead /\ xmlFile.kind = "xml"
        /\ edits' = edits + 1 /\ UNCHANGED <<place, written, config>>
    BY <1>2 DEF Edit, Editable
  <2>2. IsXmlFile(xmlFile)
    BY <2>1 DEF FilesInv, NoFile, Broken
  <2>3. IsXmlFile(xmlFile')
    BY <1>2, <2>2, FileEdited
  <2>4. edits' \in Nat /\ edits' # 0
    BY <2>1 DEF FilesInv
  <2>. QED
    BY <2>1, <2>3, <2>4 DEF FilesInv
<1>3. CASE Load \/ UNCHANGED vars
  <2>1. /\ UNCHANGED <<xrtdbVars, edits>>
        /\ \/ place \in {"done", "aborted"} /\ config' = Parse(xmlFile)
           \/ config' = config
    BY <1>3 DEF Load, vars
  <2>2. UNCHANGED <<place, agList, itList, schemaList, assignList, userFile, xmlFile,
                    written, met, map>>
    BY <2>1 DEF xrtdbVars, listVars, fileVars, mapVars
  <2>3. UserFile' = UserFile /\ XmlFile' = XmlFile /\ Assigned' = Assigned
    BY <2>2, SameFiles, AssignedKept
  <2>4. Parse(xmlFile') = Parse(xmlFile)
    BY <2>2
  <2>. QED
    BY <2>1, <2>2, <2>3, <2>4 DEF FilesInv
<1>. QED
  BY <1>1, <1>2, <1>3 DEF Next

LEMMA InvHolds == Spec => []Inv
<1>1. Init => Inv
  BY ListsStart, MapStart, FilesStart DEF Inv
<1>2. Inv /\ [Next]_vars => Inv'
  BY ListsNext, MapNext, FilesNext DEF Inv
<1>. QED
  BY <1>1, <1>2, PTL DEF Spec

\* A configuration is read as a whole or not at all: the file is refused exactly if
\* something is wrong with some element of it, even one that another overrides
\* (RtDB2Configuration.cpp:45-49, 88-93, 190-193, 261).
THEOREM WholeOrNothing == Spec => []AllOrNothing
<1>1. Inv => AllOrNothing
  <2>. SUFFICES ASSUME Inv, config # NotRead
                PROVE  config = Failed <=>
                         \/ xmlFile.kind # "xml"
                         \/ Len(xmlFile.general) # 1 \/ Len(xmlFile.keys) # 1
                         \/ \E e \in Range(xmlFile.general[1]) : BadGeneral(e)
                         \/ \E e \in Range(xmlFile.keys[1]) : BadKey(e)
    BY DEF AllOrNothing
  <2>1. config = Parse(xmlFile) /\ (IsXmlFile(xmlFile) \/ xmlFile \in {NoFile, Broken})
    BY DEF Inv, FilesInv
  <2>. QED
    BY <2>1, ParseRefuses
<1>. QED
  BY <1>1, InvHolds, PTL

LEMMA FirstExists ==
  ASSUME NEW list, IsElements(list), NEW id, \E i \in DOMAIN list : Names(list[i], id)
  PROVE  \E i \in DOMAIN list : IsFirst(list, i, id)
<1>. DEFINE T == {i \in 1 .. Len(list) : Names(list[i], id)}
<1>1. Len(list) \in Nat /\ DOMAIN list = 1 .. Len(list)
  BY ListTypes
<1>2. T \subseteq Nat /\ T # {}
  BY <1>1
<1>3. PICK i \in T : \A j \in T : i <= j
  BY <1>2, SmallestNat
<1>4. \A j \in 1 .. i - 1 : ~Names(list[j], id)
  <2>. SUFFICES ASSUME NEW j \in 1 .. i - 1, Names(list[j], id) PROVE FALSE
    OBVIOUS
  <2>1. i \in 1 .. Len(list)
    OBVIOUS
  <2>2. j \in 1 .. Len(list) /\ j < i
    BY <1>1, <2>1
  <2>3. j \in T
    BY <2>2
  <2>4. i <= j
    BY <1>3, <2>3
  <2>. QED
    BY <2>1, <2>2, <2>4, <1>1
<1>. QED
  BY <1>1, <1>4 DEF IsFirst

\* Whatever has been done to the file by hand, if it is accepted then the first element
\* of a key decides, with the last DefaultKeyValue for what it leaves out
\* (RtDB2Configuration.cpp:116-150, 197, 222-252, 268-270, 297-309).
THEOREM ReadAsWritten == Spec => []DetailsAsWritten
<1>1. Inv => DetailsAsWritten
  <2>. DEFINE default == WrittenDefault(xmlFile.general[1])
              keys == xmlFile.keys[1]
              First(id) == CHOOSE i \in DOMAIN keys : IsFirst(keys, i, id)
  <2>. SUFFICES ASSUME Inv, config # NotRead, config # Failed,
                       NEW id \in {Upper[s] : s \in Strings}
                PROVE  LET d == GetKeyDetails(config, id)
                           e == keys[First(id)]
                       IN  IF \A i \in DOMAIN keys : ~Names(keys[i], id) THEN d = default
                           ELSE /\ d.shared = (IF Has(e, "shared")
                                               THEN MeansTrue(e.attr.shared)
                                               ELSE default.shared)
                                /\ d.period = (IF Has(e, "period") THEN Atoi[e.attr.period]
                                               ELSE default.period)
                                /\ d.phase = (IF Has(e, "phase") THEN Atoi[e.attr.phase]
                                              ELSE default.phase)
    BY DEF DetailsAsWritten
  <2>1. config = Parse(xmlFile) /\ (IsXmlFile(xmlFile) \/ xmlFile \in {NoFile, Broken})
    BY DEF Inv, FilesInv
  <2>2. IsXmlFile(xmlFile)
    BY <2>1 DEF NoFile, Broken, Parse
  <2>3. /\ config.default = default /\ IsElements(keys)
        /\ id \in DOMAIN config.details <=> \E i \in DOMAIN keys : Names(keys[i], id)
        /\ \A i \in DOMAIN keys : IsFirst(keys, i, id) =>
             config.details[id] = Said(keys[i], default)
    <3>1. Parse(xmlFile) # Failed
      BY <2>1
    <3>2. /\ config.default = default /\ IsElements(keys)
          /\ \A x : x \in DOMAIN config.details <=> \E i \in DOMAIN keys : Names(keys[i], x)
          /\ \A x, i : i \in DOMAIN keys /\ IsFirst(keys, i, x) =>
                         config.details[x] = Said(keys[i], config.default)
      BY <2>1, <2>2, <3>1, ParseReads
    <3>. QED
      BY <3>2
  <2>. HIDE DEF default, keys
  <2>4. CASE \A i \in DOMAIN keys : ~Names(keys[i], id)
    BY <2>3, <2>4 DEF GetKeyDetails
  <2>5. CASE ~\A i \in DOMAIN keys : ~Names(keys[i], id)
    <3>1. First(id) \in DOMAIN keys /\ IsFirst(keys, First(id), id)
      BY <2>3, <2>5, FirstExists
    <3>. HIDE DEF First
    <3>2. GetKeyDetails(config, id) = Said(keys[First(id)], default)
      BY <2>3, <2>5, <3>1 DEF GetKeyDetails
    <3>. QED
      BY <2>5, <3>2 DEF Said
  <2>. QED
    BY <2>4, <2>5
<1>. QED
  BY <1>1, InvHolds, PTL

\* What has been decided when all has been met.
LEMMA AllMet ==
  ASSUME ListsInv, MapInv, place = "done", met = Len(Assigned), NEW n
  PROVE  n \in DOMAIN map <=> SharedIn(n) \/ LocalIn(n)
<1>1. SharedIn(n) \/ LocalIn(n) <=> \E j \in 1 .. Len(Assigned) : Assigned[j].num = n
  <2>1. \A j \in 1 .. Len(Assigned) : Assigned[j].shared \in BOOLEAN
    BY AssignedRange
  <2>. QED
    BY <2>1, AssignedSharing
<1>2. n \in DOMAIN map <=> \E j \in 1 .. met : Assigned[j].num = n
  <2>1. CASE met = 0
    <3>1. map = <<>>
      BY <2>1 DEF MapInv
    <3>2. DOMAIN <<>> = {}
      OBVIOUS
    <3>. QED
      BY <2>1, <3>1, <3>2
  <2>2. CASE met # 0
    <3>1. DOMAIN map = {Assigned[j].num : j \in 1 .. met}
      BY <2>2 DEF MapInv
    <3>. QED
      BY <3>1
  <2>. QED
    BY <2>1, <2>2
<1>. QED
  BY <1>1, <1>2

\* A configuration that is read from a file xrtdb has just written.
LEMMA WrittenIsAccepted ==
  ASSUME ListsInv, MapInv
  PROVE  Parse(XmlFile) # Failed
<1>1. /\ IsXmlFile(XmlFile) /\ XmlFile.keys[1] = KeyElements
      /\ Len(XmlFile.general) = 1 /\ Len(XmlFile.keys) = 1
  BY XmlFileTypes
<1>2. XmlFile.kind = "xml"
  BY DEF XmlFile
<1>3. \A e \in Range(XmlFile.general[1]) : ~BadGeneral(e)
  <2>1. \A i \in DOMAIN XmlFile.general[1] : ~BadGeneral(XmlFile.general[1][i])
    BY DefaultsWritten
  <2>. QED
    BY <2>1 DEF Range
<1>4. \A e \in Range(KeyElements) : ~BadKey(e)
  <2>. SUFFICES ASSUME NEW i \in DOMAIN KeyElements PROVE ~BadKey(KeyElements[i])
    BY DEF Range
  <2>1. PICK n \in DOMAIN map : KeyElements[i] = KeyElement(n)
    BY KeysWritten
  <2>. QED
    BY <2>1, KeyElementIsElement
<1>. QED
  BY <1>1, <1>2, <1>3, <1>4, ParseRefuses

LEMMA WrittenIsRead ==
  ASSUME ListsInv, MapInv
  PROVE  LET c == Parse(XmlFile)
         IN  /\ c.default.shared = TRUE
             /\ \A id : id \in DOMAIN c.details <=> \E n \in DOMAIN map : Upper[Name(n)] = id
             /\ \A n : n \in DOMAIN c.ids <=> n \in DOMAIN map
             /\ \A n \in DOMAIN map :
                  /\ c.ids[n] = Upper[Name(n)]
                  /\ Alone(n) => c.details[Upper[Name(n)]].shared = map[n]
<1>1. PICK c : c = Parse(XmlFile)
  OBVIOUS
<1>2. PICK keys : keys = KeyElements
  OBVIOUS
<1>3. /\ c.default.shared = TRUE
      /\ \A id : id \in DOMAIN c.details <=> \E i \in DOMAIN keys : Names(keys[i], id)
      /\ \A id, i : i \in DOMAIN keys /\ IsFirst(keys, i, id) =>
                      c.details[id] = Said(keys[i], c.default)
      /\ \A o : o \in DOMAIN c.ids <=> \E i \in DOMAIN keys : Numbered(keys[i], o)
      /\ \A o, i : /\ i \in DOMAIN keys /\ Numbered(keys[i], o)
                   /\ \A j \in 1 .. i - 1 : ~Numbered(keys[j], o)
                   => c.ids[o] = Upper[keys[i].attr.id]
  <2>1. IsXmlFile(XmlFile) /\ XmlFile.keys[1] = KeyElements
    BY XmlFileTypes
  <2>2. WrittenDefault(XmlFile.general[1]).shared = TRUE
    BY DefaultsWritten
  <2>3. PICK f : f = XmlFile
    OBVIOUS
  <2>4. c = Parse(f) /\ keys = f.keys[1] /\ IsXmlFile(f) /\ Parse(f) # Failed
    BY <1>1, <1>2, <2>1, <2>3, WrittenIsAccepted
  <2>5. /\ c.default = WrittenDefault(f.general[1])
        /\ \A id : id \in DOMAIN c.details <=> \E i \in DOMAIN keys : Names(keys[i], id)
    BY <2>4, ParseReads
  <2>6. \A id, i : i \in DOMAIN keys /\ IsFirst(keys, i, id) =>
                    c.details[id] = Said(keys[i], c.default)
    BY <2>4, ParseReads
  <2>7. \A o : o \in DOMAIN c.ids <=> \E i \in DOMAIN keys : Numbered(keys[i], o)
    BY <2>4, ParseReads
  <2>8. \A o, i : /\ i \in DOMAIN keys /\ Numbered(keys[i], o)
                  /\ \A j \in 1 .. i - 1 : ~Numbered(keys[j], o)
                  => c.ids[o] = Upper[keys[i].attr.id]
    BY <2>4, ParseReads
  <2>. QED
    BY <2>2, <2>3, <2>5, <2>6, <2>7, <2>8
<1>4. /\ DOMAIN keys = 1 .. Len(keys) /\ Len(keys) \in Nat
      /\ \A i \in DOMAIN keys : \E n \in DOMAIN map : keys[i] = KeyElement(n)
      /\ \A n \in DOMAIN map :
           KeyPlace(n) \in DOMAIN keys /\ keys[KeyPlace(n)] = KeyElement(n)
  BY <1>2, KeysWritten
<1>5. \A n \in DOMAIN map :
        /\ KeyElement(n).attr.id = Name(n)
        /\ \A o : Numbered(KeyElement(n), o) <=> o = n
        /\ \A d : d.shared = TRUE => Said(KeyElement(n), d).shared = map[n]
  BY KeyElementIsElement
<1>6. \A n \in DOMAIN map : \A id : Names(KeyElement(n), id) <=> Upper[Name(n)] = id
  BY <1>5 DEF Names
<1>7. \A n, m \in DOMAIN map : n # m => KeyPlace(n) # KeyPlace(m)
  BY KeyPlaces
<1>8. ASSUME NEW id
      PROVE  id \in DOMAIN c.details <=> \E n \in DOMAIN map : Upper[Name(n)] = id
  BY <1>3, <1>4, <1>6
<1>9. ASSUME NEW n
      PROVE  n \in DOMAIN c.ids <=> n \in DOMAIN map
  BY <1>3, <1>4, <1>5
<1>10. ASSUME NEW n \in DOMAIN map
       PROVE  \A j \in 1 .. KeyPlace(n) - 1 :
                \E m \in DOMAIN map : m # n /\ keys[j] = KeyElement(m)
  <2>. SUFFICES ASSUME NEW j \in 1 .. KeyPlace(n) - 1
                PROVE  \E m \in DOMAIN map : m # n /\ keys[j] = KeyElement(m)
    OBVIOUS
  <2>1. KeyPlace(n) \in 1 .. Len(keys) /\ Len(keys) \in Nat
    BY <1>4
  <2>2. j \in 1 .. Len(keys) /\ j < KeyPlace(n)
    BY <2>1
  <2>3. PICK m \in DOMAIN map : keys[j] = KeyElement(m) /\ KeyPlace(m) = j
    <3>1. Cardinality(DOMAIN map) = Len(keys)
      <4>2. DOMAIN KeyElements = 1 .. Cardinality(DOMAIN map)
        BY DEF KeyElements
      <4>3. Cardinality(DOMAIN map) \in Nat
        BY KeyPlaces
      <4>4. 1 .. Cardinality(DOMAIN map) = 1 .. Len(keys)
        BY <4>2, <1>2, <1>4
      <4>. QED
        BY <4>3, <4>4, <2>1
    <3>2. PICK m \in DOMAIN map : KeyPlace(m) = j
      BY <2>2, <3>1, KeyPlaces
    <3>. QED
      BY <1>4, <3>2
  <2>. QED
    BY <2>2, <2>3, <2>1
<1>11. ASSUME NEW n \in DOMAIN map
       PROVE  c.ids[n] = Upper[Name(n)]
  <2>1. KeyPlace(n) \in DOMAIN keys /\ Numbered(keys[KeyPlace(n)], n)
    BY <1>4, <1>5
  <2>2. \A j \in 1 .. KeyPlace(n) - 1 : ~Numbered(keys[j], n)
    BY <1>5, <1>10
  <2>3. keys[KeyPlace(n)].attr.id = Name(n)
    BY <1>4, <1>5
  <2>. QED
    BY <1>3, <2>1, <2>2, <2>3
<1>12. ASSUME NEW n \in DOMAIN map, Alone(n)
       PROVE  c.details[Upper[Name(n)]].shared = map[n]
  <2>. DEFINE id == Upper[Name(n)]
  <2>1. \A j \in 1 .. KeyPlace(n) - 1 : ~Names(keys[j], id)
    BY <1>6, <1>10, <1>12 DEF Alone
  <2>2. KeyPlace(n) \in DOMAIN keys /\ keys[KeyPlace(n)] = KeyElement(n)
        /\ Names(keys[KeyPlace(n)], id)
    BY <1>4, <1>6
  <2>3. IsFirst(keys, KeyPlace(n), id)
    BY <2>1, <2>2 DEF IsFirst
  <2>4. c.details[id] = Said(KeyElement(n), c.default)
    BY <1>3, <2>2, <2>3
  <2>. QED
    BY <1>3, <1>5, <2>4
<1>. QED
  BY <1>1, <1>3, <1>8, <1>9, <1>11, <1>12

\* A file that xrtdb has written and nobody has touched is accepted, and the numbers of
\* the rtdb_user.h written with it lead to the keys that rtdb.conf means: every
\* assigned item, under its own name, shared as decided if it has that name alone
\* (rtdb_ini_creator.c:348-354, rtdb_user_creator.c:82-85, RtDB2Configuration.cpp:222).
THEOREM NumbersLeadToKeys == Spec => []IdsResolve
<1>1. Inv => IdsResolve
  <2>. SUFFICES ASSUME Inv, config # NotRead, edits = 0, written = {"user", "xml"}
                PROVE  /\ config # Failed
                       /\ DOMAIN config.details = {Upper[Name(n)] : n \in DOMAIN map}
                       /\ \A i \in DOMAIN userFile.items :
                            LET n == i - 1
                            IN  IF SharedIn(n) \/ LocalIn(n)
                                THEN /\ GetStringIdentifier(config, n) =
                                          {Upper[userFile.items[i]]}
                                     /\ Alone(n) =>
                                          GetKeyDetailsOid(config, n).shared = map[n]
                                ELSE GetStringIdentifier(config, n) = {}
    BY DEF IdsResolve
  <2>1. ListsInv /\ MapInv /\ place = "done" /\ userFile = UserFile
        /\ met = Len(Assigned) /\ config = Parse(XmlFile)
    BY DEF Inv, FilesInv
  <2>2. config # Failed
    BY <2>1, WrittenIsAccepted
  <2>3. /\ \A id : id \in DOMAIN config.details <=>
                     \E n \in DOMAIN map : Upper[Name(n)] = id
        /\ \A n : n \in DOMAIN config.ids <=> n \in DOMAIN map
        /\ \A n \in DOMAIN map :
             /\ config.ids[n] = Upper[Name(n)]
             /\ Alone(n) => config.details[Upper[Name(n)]].shared = map[n]
    BY <2>1, WrittenIsRead
  <2>4. DOMAIN config.details = {Upper[Name(n)] : n \in DOMAIN map}
    BY <2>3
  <2>5. ASSUME NEW i \in DOMAIN itList
        PROVE  LET n == i - 1
               IN  IF SharedIn(n) \/ LocalIn(n)
                   THEN /\ GetStringIdentifier(config, n) = {Upper[itList[i]]}
                        /\ Alone(n) => GetKeyDetailsOid(config, n).shared = map[n]
                   ELSE GetStringIdentifier(config, n) = {}
    <3>0. PICK n : n = i - 1
      OBVIOUS
    <3>1. i \in Nat /\ n + 1 = i
      BY <2>1, <3>0 DEF ListsInv
    <3>2. Name(n) = itList[i]
      BY <3>1 DEF Name
    <3>3. n \in DOMAIN map <=> SharedIn(n) \/ LocalIn(n)
      BY <2>1, AllMet
    <3>4. CASE n \in DOMAIN map
      <4>1. n \in DOMAIN config.ids /\ config.ids[n] = Upper[Name(n)]
            /\ Upper[Name(n)] \in DOMAIN config.details
        BY <2>3, <3>4
      <4>2. GetStringIdentifier(config, n) = {Upper[itList[i]]}
        BY <4>1, <3>2 DEF GetStringIdentifier
      <4>3. GetKeyDetailsOid(config, n) = config.details[Upper[Name(n)]]
        BY <4>1 DEF GetKeyDetailsOid, GetKeyDetails
      <4>. QED
        BY <2>3, <3>0, <3>3, <3>4, <4>2, <4>3
    <3>5. CASE n \notin DOMAIN map
      <4>1. GetStringIdentifier(config, n) = {}
        BY <2>3, <3>5 DEF GetStringIdentifier
      <4>. QED
        BY <3>0, <3>3, <3>5, <4>1
    <3>. QED
      BY <3>4, <3>5
  <2>6. userFile.items = itList
    BY <2>1 DEF UserFile
  <2>. QED
    BY <2>2, <2>4, <2>5, <2>6
<1>. QED
  BY <1>1, InvHolds, PTL
=============================================================================
