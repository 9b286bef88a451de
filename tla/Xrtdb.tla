-------------------------------- MODULE Xrtdb --------------------------------
(***************************************************************************)
(* xrtdb (src/src/rtdb/parser): reads the agents, items, schemas and       *)
(* assignments of rtdb.conf and writes rtdb_user.h, which numbers agents   *)
(* and items, and rtdb2_configuration.xml, which tells for every assigned  *)
(* item whether it is shared.  There is an action for every function the   *)
(* grammar calls, in any order the grammar allows, and one for every step  *)
(* of main after that.  The user answers, or does not, what main asks.     *)
(*                                                                         *)
(* Files that declare a new schema after an assignment are left out:       *)
(* assignments point into the array of schemas, which may then move.       *)
(***************************************************************************)
EXTENDS Integers, FiniteSets, SequencesExt

CONSTANTS
  AgentNames, ItemNames, SchemaNames,   \* the identifiers of a file
  Rank,           \* a number for each name of an item, in the order of strcmp
  OldUserFiles,   \* rtdb_user.h, as an earlier run may have left it, or NoFile
  OldXmlFiles,    \* and rtdb2_configuration.xml
  MaxItems,       \* bound: items of a file
  MaxAssignments  \* bound: assignments of a file

ASSUME XrtdbConstants ==
  /\ Rank \in [ItemNames -> Nat]
  /\ \A a, b \in ItemNames : Rank[a] = Rank[b] => a = b
  /\ MaxItems \in Nat /\ MaxAssignments \in Nat

VARIABLES
  place,        \* a block of the grammar, a step of main, or how the run ended
  agList, itList, schemaList, assignList,
  given,        \* the fields of the item whose block is open
  pSchema,      \* index of the schema whose block is open
  userFile, xmlFile,  \* the two files
  met,          \* how many of the assigned items have been analyzed
  map,          \* the map made of them: for the number of an item, if it is shared
  \* history
  written,      \* the files this run has written
  answers       \* the questions about items: the number, and if it is to be shared

listVars == <<agList, itList, schemaList, assignList, given, pSchema>>
fileVars == <<userFile, xmlFile, written>>
mapVars  == <<met, map, answers>>
xrtdbVars == <<place, listVars, fileVars, mapVars>>

NoFile == [kind |-> "none"]
Broken == [kind |-> "broken"]   \* opened and never finished

XrtdbInit ==
  /\ place = "top"
  /\ agList = <<>> /\ itList = <<>> /\ schemaList = <<>> /\ assignList = <<>>
  /\ given = {} /\ pSchema = 0
  /\ userFile \in OldUserFiles /\ xmlFile \in OldXmlFiles
  /\ met = 0 /\ map = <<>>
  /\ written = {} /\ answers = <<>>

\* What the process remembered is gone with it.
Forgotten ==
  /\ agList' = <<>> /\ itList' = <<>> /\ schemaList' = <<>> /\ assignList' = <<>>
  /\ given' = {} /\ pSchema' = 0
  /\ met' = 0 /\ map' = <<>> /\ answers' = <<>>

\* abortOnError and raiseError end the run where it is.
Abort ==
  /\ place' = "aborted"
  /\ Forgotten
  /\ UNCHANGED fileVars
-----------------------------------------------------------------------------
(* Agents and items. *)

AgentCreate(id) ==
  /\ place = "top"
  /\ IF Contains(agList, id) THEN Abort
     ELSE /\ agList' = Append(agList, id)
          /\ UNCHANGED <<place, itList, schemaList, assignList, given, pSchema,
                         fileVars, mapVars>>

\* Faulty variant of ItemCreate: an item may be declared twice.
ItemCreateAgain(id) ==
  /\ place = "top" /\ Len(itList) < MaxItems
  /\ itList' = Append(itList, id) /\ given' = {} /\ place' = "item"
  /\ UNCHANGED <<agList, schemaList, assignList, pSchema, fileVars, mapVars>>

\* The number of an item is its place in the list, from 0.
ItemCreate(id) ==
  /\ place = "top"
  /\ IF Contains(itList, id) THEN Abort
     ELSE /\ Len(itList) < MaxItems
          /\ itList' = Append(itList, id)
          /\ given' = {} /\ place' = "item"
          /\ UNCHANGED <<agList, schemaList, assignList, pSchema, fileVars, mapVars>>

\* A field is given once.
AddField(field) ==
  /\ place = "item"
  /\ IF field \in given THEN Abort
     ELSE /\ given' = given \union {field}
          /\ UNCHANGED <<place, agList, itList, schemaList, assignList, pSchema,
                         fileVars, mapVars>>

ItemAddDatatype   == AddField("datatype")
ItemAddHeaderfile == AddField("headerfile")

\* The grammar lets only an identifier pass as a period, and atoi makes it 0, which
\* stands for no period: nothing is kept of it, nor ever taken for a second one.
ItemAddPeriod ==
  /\ place = "item"
  /\ UNCHANGED xrtdbVars

ItemVerify ==
  /\ place = "item"
  /\ IF "datatype" \notin given THEN Abort
     ELSE /\ place' = "top" /\ given' = {}
          /\ UNCHANGED <<agList, itList, schemaList, assignList, pSchema, fileVars,
                         mapVars>>
-----------------------------------------------------------------------------
(* Schemas.  Their lists hold numbers of items. *)

NumberOf(id) == CHOOSE n \in 0 .. Len(itList) - 1 : itList[n + 1] = id

IndexOfSchema(id) == {i \in DOMAIN schemaList : schemaList[i].id = id}

\* A second declaration continues the first.
SchemaCreate(id) ==
  /\ place = "top"
  /\ place' = "schema"
  /\ IF IndexOfSchema(id) # {}
     THEN pSchema' \in IndexOfSchema(id) /\ UNCHANGED schemaList
     ELSE /\ assignList = <<>>
          /\ schemaList' = Append(schemaList, [id |-> id, shared |-> <<>>, local |-> <<>>])
          /\ pSchema' = Len(schemaList')
  /\ UNCHANGED <<agList, itList, assignList, given, fileVars, mapVars>>

WithItem(items, n) == IF Contains(items, n) THEN items ELSE Append(items, n)

SchemaAddSharedItem(id) ==
  /\ place = "schema"
  /\ IF ~Contains(itList, id) THEN Abort
     ELSE /\ schemaList' = [schemaList EXCEPT ![pSchema].shared =
                              WithItem(@, NumberOf(id))]
          /\ UNCHANGED <<place, agList, itList, assignList, given, pSchema,
                         fileVars, mapVars>>

SchemaAddLocalItem(id) ==
  /\ place = "schema"
  /\ IF ~Contains(itList, id) THEN Abort
     ELSE /\ schemaList' = [schemaList EXCEPT ![pSchema].local =
                              WithItem(@, NumberOf(id))]
          /\ UNCHANGED <<place, agList, itList, assignList, given, pSchema,
                         fileVars, mapVars>>

SchemaVerify ==
  /\ place = "schema"
  /\ IF schemaList[pSchema].shared = <<>> /\ schemaList[pSchema].local = <<>>
     THEN Abort
     ELSE /\ place' = "top" /\ pSchema' = 0
          /\ UNCHANGED <<agList, itList, schemaList, assignList, given, fileVars,
                         mapVars>>
-----------------------------------------------------------------------------
(* Assignments. *)

AssignmentCreate ==
  /\ place = "top" /\ Len(assignList) < MaxAssignments
  /\ place' = "assignment"
  /\ assignList' = Append(assignList, [schema |-> 0, agents |-> {}])
  /\ UNCHANGED <<agList, itList, schemaList, given, pSchema, fileVars, mapVars>>

pAssign == assignList[Len(assignList)]

AssignmentAddSchema(id) ==
  /\ place = "assignment"
  /\ IF pAssign.schema # 0 \/ IndexOfSchema(id) = {} THEN Abort
     ELSE /\ \E i \in IndexOfSchema(id) :
               assignList' = [assignList EXCEPT ![Len(assignList)].schema = i]
          /\ UNCHANGED <<place, agList, itList, schemaList, given, pSchema, fileVars,
                         mapVars>>

AssignmentAddAgent(id) ==
  /\ place = "assignment"
  /\ IF ~Contains(agList, id) THEN Abort
     ELSE /\ assignList' = [assignList EXCEPT ![Len(assignList)].agents = @ \union {id}]
          /\ UNCHANGED <<place, agList, itList, schemaList, given, pSchema, fileVars,
                         mapVars>>

AssignmentVerify ==
  /\ place = "assignment"
  /\ IF pAssign.schema = 0 \/ pAssign.agents = {} THEN Abort
     ELSE place' = "top" /\ UNCHANGED <<listVars, fileVars, mapVars>>

Blocks == {"top", "item", "schema", "assignment"}

\* Anything else in the file is an error of the lexer or of the grammar.
RaiseError == place \in Blocks /\ Abort

EndOfFile ==
  /\ place = "top"
  /\ place' = "user"
  /\ UNCHANGED <<listVars, fileVars, mapVars>>

Grammar ==
  \/ \E id \in AgentNames : AgentCreate(id) \/ AssignmentAddAgent(id)
  \/ \E id \in ItemNames :
       ItemCreate(id) \/ SchemaAddSharedItem(id) \/ SchemaAddLocalItem(id)
  \/ ItemAddDatatype \/ ItemAddHeaderfile \/ ItemAddPeriod \/ ItemVerify
  \/ \E id \in SchemaNames : SchemaCreate(id) \/ AssignmentAddSchema(id)
  \/ SchemaVerify \/ AssignmentCreate \/ AssignmentVerify
  \/ RaiseError \/ EndOfFile
-----------------------------------------------------------------------------
(* printUserFile and printRtDB2File.  A file that exists is replaced only if the *)
(* user says y: it is removed, and a new one opened, if that is possible.        *)

AfterUserFile == IF assignList = <<>> THEN "aborted" ELSE "xml"

\* Neither a cancellation nor a file that cannot be opened ends the run.
NoUserFile ==
  /\ place = "user"
  /\ userFile' \in {userFile, NoFile}
  /\ place' = AfterUserFile
  /\ UNCHANGED <<listVars, xmlFile, written, mapVars>>

UserFile == [kind |-> "user", agents |-> agList, items |-> itList]

PrintUserFile ==
  /\ place = "user"
  /\ userFile' = UserFile
  /\ written' = written \union {"user"}
  /\ place' = AfterUserFile
  /\ UNCHANGED <<listVars, xmlFile, mapVars>>

NoXmlFile ==
  /\ place = "xml"
  /\ xmlFile' \in {xmlFile, NoFile}
  /\ place' = "done"
  /\ UNCHANGED <<listVars, userFile, written, mapVars>>

OpenXmlFile ==
  /\ place = "xml"
  /\ xmlFile' = Broken
  /\ place' = "keys"
  /\ UNCHANGED <<listVars, userFile, written, mapVars>>

\* The items of the assigned schemas, in the order they are analyzed.
Mentions(sc) ==
  [j \in DOMAIN sc.shared |-> [num |-> sc.shared[j], shared |-> TRUE]]
    \o [j \in DOMAIN sc.local |-> [num |-> sc.local[j], shared |-> FALSE]]

Assigned ==
  LET upTo[i \in 0 .. Len(assignList)] ==
        IF i = 0 THEN <<>> ELSE upTo[i - 1] \o Mentions(schemaList[assignList[i].schema])
  IN  upTo[Len(assignList)]

WithMark(n, shared) ==
  [i \in DOMAIN map \union {n} |-> IF i = n THEN shared ELSE map[i]]

\* Faulty variant of Marked: what comes later counts.
MarkedLast(item) ==
  /\ map' = WithMark(item.num, item.shared)
  /\ UNCHANGED answers

\* An item that is met again while it counts as local is asked about, whatever the
\* schema at hand says of it.
Marked(item) ==
  IF item.num \notin DOMAIN map
  THEN map' = WithMark(item.num, item.shared) /\ UNCHANGED answers
  ELSE IF map[item.num] THEN UNCHANGED <<map, answers>>
  ELSE \E shared \in BOOLEAN :
         /\ map' = WithMark(item.num, shared)
         /\ answers' = Append(answers, [num |-> item.num, shared |-> shared])

AnalyzeAssignmentList ==
  /\ place = "keys" /\ met < Len(Assigned)
  /\ Marked(Assigned[met + 1])
  /\ met' = met + 1
  /\ UNCHANGED <<place, listVars, fileVars>>

\* Faulty variant of Number: counted from one.
NumberFromOne(n) == ToString(n + 1)

Number(n) == ToString(n)
Name(n) == itList[n + 1]

KeyElement(n) ==
  [tag |-> "key",
   attr |-> IF map[n] THEN [id |-> Name(n), oid |-> Number(n)]
            ELSE [id |-> Name(n), shared |-> "false", oid |-> Number(n)]]

\* Keys are sorted by name.
KeyPlace(n) == Cardinality({m \in DOMAIN map : Rank[Name(m)] <= Rank[Name(n)]})

KeyElements ==
  [i \in 1 .. Cardinality(DOMAIN map) |->
     KeyElement(CHOOSE n \in DOMAIN map : KeyPlace(n) = i)]

XmlFile ==
  [kind |-> "xml",
   general |-> << << [tag |-> "DefaultKeyValue",
                      attr |-> [shared |-> "true", period |-> "1", phase |-> "0"]],
                     [tag |-> "Compressor",
                      attr |-> [name |-> "zstd", dictionary |-> "true"]] >> >>,
   keys |-> << KeyElements >>]

PrintRtDB2File ==
  /\ place = "keys" /\ met = Len(Assigned)
  /\ xmlFile' = XmlFile
  /\ written' = written \union {"xml"}
  /\ place' = "done"
  /\ UNCHANGED <<listVars, userFile, mapVars>>

\* Where the user is asked and there is no answer, an assertion ends the run.
Asking ==
  \/ place = "user" /\ userFile # NoFile
  \/ place = "xml" /\ xmlFile # NoFile
  \/ /\ place = "keys" /\ met < Len(Assigned)
     /\ LET n == Assigned[met + 1].num IN n \in DOMAIN map /\ ~map[n]

NoAnswer == Asking /\ Abort

Main ==
  \/ NoUserFile \/ PrintUserFile \/ NoXmlFile \/ OpenXmlFile
  \/ AnalyzeAssignmentList \/ PrintRtDB2File \/ NoAnswer

XrtdbNext == Grammar \/ Main
=============================================================================
