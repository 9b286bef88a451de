------------------------------ MODULE ToolChain ------------------------------
(***************************************************************************)
(* From rtdb.conf to the details of a key: xrtdb writes rtdb_user.h, which *)
(* programs are compiled with, and rtdb2_configuration.xml, which is then  *)
(* completed by hand, as only there a period or a phase can be given; at   *)
(* run time RtDB2Configuration reads it.                                   *)
(***************************************************************************)
EXTENDS Xrtdb, KeyConfig

CONSTANTS
  Values,    \* what somebody may write into an attribute
  MaxEdits   \* bound: changes made by hand

\* All that is written is text; atoi reads a number of an item as it was printed.
ASSUME ToolChainConstants ==
  /\ \A f \in OldXmlFiles : f.kind = "xml" => IsXmlFile(f)
  /\ \A f \in OldXmlFiles : f.kind # "xml" => f \in {NoFile, Broken}
  /\ ItemNames \union Values \union {"true", "false", "zstd"} \subseteq Strings
  /\ Lower["true"] = "true" /\ Lower["false"] = "false"
  /\ {"0", "1"} \subseteq Numbers
  /\ \A n \in 0 .. MaxItems : ToString(n) \in Numbers /\ Atoi[ToString(n)] = n

VARIABLES
  config,    \* what RtDB2Configuration has made of the file, or NotRead
  edits      \* changes made by hand

vars == <<xrtdbVars, config, edits>>

NotRead == [failed |-> FALSE]

Init == XrtdbInit /\ config = NotRead /\ edits = 0

Generate == XrtdbNext /\ UNCHANGED <<config, edits>>

\* The user edits the file at rest, before it is read.
Editable ==
  /\ place \in {"done", "aborted"} /\ config = NotRead
  /\ xmlFile.kind = "xml" /\ edits < MaxEdits

WithAttr(e, a, v) ==
  [e EXCEPT !.attr = [x \in DOMAIN @ \union {a} |-> IF x = a THEN v ELSE @[x]]]
WithoutAttr(e, a) == [e EXCEPT !.attr = [x \in DOMAIN @ \ {a} |-> @[x]]]

Attributes(e) ==
  CASE e.tag = "key" -> {"id", "oid", "shared", "period", "phase"}
    [] e.tag = "DefaultKeyValue" -> {"shared", "period", "phase"}
    [] e.tag = "Compressor" -> {"name", "dictionary"}
    [] OTHER -> {}

ChangedElements(e) ==
  {WithAttr(e, a, v) : a \in Attributes(e), v \in Values}
    \union {WithoutAttr(e, a) : a \in DOMAIN e.attr}
    \union {[e EXCEPT !.tag = "misspelt"]}

\* An element is changed, taken away or repeated, or a whole section repeated.
ChangedLists(list) ==
  (UNION {{ReplaceAt(list, i, e) : e \in ChangedElements(list[i])} : i \in DOMAIN list})
    \union {RemoveAt(list, i) : i \in DOMAIN list}
    \union {Append(list, list[i]) : i \in DOMAIN list}

ChangedSections(sections) ==
  {<<list>> : list \in ChangedLists(sections[1])} \union {sections \o sections}

Edit ==
  /\ Editable
  /\ Len(xmlFile.general) = 1 /\ Len(xmlFile.keys) = 1
  /\ \/ \E s \in ChangedSections(xmlFile.general) :
          xmlFile' = [xmlFile EXCEPT !.general = s]
     \/ \E s \in ChangedSections(xmlFile.keys) : xmlFile' = [xmlFile EXCEPT !.keys = s]
  /\ edits' = edits + 1
  /\ Forgotten
  /\ UNCHANGED <<place, userFile, written, config>>

Load ==
  /\ place \in {"done", "aborted"} /\ config = NotRead
  /\ config' = Parse(xmlFile)
  /\ UNCHANGED <<xrtdbVars, edits>>

Next == Generate \/ Edit \/ Load

Spec == Init /\ [][Next]_vars
-----------------------------------------------------------------------------
AssignedSchemas == {schemaList[assignList[i].schema] : i \in DOMAIN assignList}
SharedIn(n) == \E sc \in AssignedSchemas : Contains(sc.shared, n)
LocalIn(n)  == \E sc \in AssignedSchemas : Contains(sc.local, n)

\* The last answer about an item was to keep it local.
Refused(n) ==
  \E i \in DOMAIN answers :
    /\ answers[i].num = n /\ ~answers[i].shared
    /\ \A j \in i + 1 .. Len(answers) : answers[j].num # n

\* The types of what xrtdb collects; a file that passed has only finished blocks.
TypeOK ==
  /\ place \in Blocks \union {"user", "xml", "keys", "done", "aborted"}
  /\ \A i, j \in DOMAIN itList : itList[i] = itList[j] => i = j
  /\ \A i \in DOMAIN schemaList :
       Range(schemaList[i].shared) \union Range(schemaList[i].local)
         \subseteq 0 .. Len(itList) - 1
  /\ place \in {"user", "xml", "keys", "done"} =>
       \A i \in DOMAIN assignList :
         assignList[i].schema \in DOMAIN schemaList /\ assignList[i].agents # {}

\* An item an assigned schema shares is never made local unless the user said so, in
\* whatever order schemas and assignments mention it (rtdb_ini_creator.c:230-264).
NothingWithheld ==
  \A n \in DOMAIN map :
    ~map[n] => \/ ~SharedIn(n)
               \/ place = "keys" /\ met < Len(Assigned)
               \/ Refused(n)

\* Names that differ in case only are one key to RtDB2Configuration.
Alone(n) == \A m \in DOMAIN map \ {n} : Upper[Name(m)] # Upper[Name(n)]

\* A file xrtdb has written is one that RtDB2Configuration accepts, unless hands have
\* been laid on it, and a program that uses the numbers of the rtdb_user.h written
\* with it reaches what rtdb.conf means: every assigned item, under its own name,
\* shared as decided if it has that name alone
\* (rtdb_ini_creator.c:348-354, rtdb_user_creator.c:82-85, RtDB2Configuration.cpp:222).
IdsResolve ==
  (config # NotRead /\ edits = 0 /\ written = {"user", "xml"}) =>
    /\ config # Failed
    /\ DOMAIN config.details = {Upper[Name(n)] : n \in DOMAIN map}
    /\ \A i \in DOMAIN userFile.items :
         LET n == i - 1
         IN  IF SharedIn(n) \/ LocalIn(n)
             THEN /\ GetStringIdentifier(config, n) = {Upper[userFile.items[i]]}
                  /\ Alone(n) => GetKeyDetailsOid(config, n).shared = map[n]
             ELSE GetStringIdentifier(config, n) = {}

\* What makes an element of either section unacceptable.
BadKey(e) ==
  \/ e.tag # "key" \/ ~Has(e, "id")
  \/ Has(e, "oid") /\ ~IsNumber(e, "oid")
  \/ Has(e, "shared") /\ ~IsSwitch(e.attr.shared)

BadGeneral(e) ==
  CASE e.tag = "DefaultKeyValue" ->
         \/ ~Has(e, "shared") \/ ~IsNumber(e, "period") \/ ~IsNumber(e, "phase")
         \/ ~IsSwitch(e.attr.shared)
    [] e.tag = "Compressor" ->
         ~Has(e, "name") \/ ~Has(e, "dictionary") \/ ~IsSwitch(e.attr.dictionary)
    [] OTHER -> TRUE

\* A configuration is read as a whole or not at all: what is wrong anywhere in the
\* file, be it in an element that others override, leaves no configuration behind
\* that a process could go on with (RtDB2Configuration.cpp:45-49, 88-93, 190-193, 261).
AllOrNothing ==
  config # NotRead =>
    (config = Failed <=>
       \/ xmlFile.kind # "xml"
       \/ Len(xmlFile.general) # 1 \/ Len(xmlFile.keys) # 1
       \/ \E e \in Range(xmlFile.general[1]) : BadGeneral(e)
       \/ \E e \in Range(xmlFile.keys[1]) : BadKey(e))

\* The default a list of General elements asks for: what its last DefaultKeyValue says.
IsDefault(e) == e.tag = "DefaultKeyValue"
IsLastDefault(list, i) ==
  IsDefault(list[i]) /\ \A j \in i + 1 .. Len(list) : ~IsDefault(list[j])

WrittenDefault(list) ==
  IF \A i \in DOMAIN list : ~IsDefault(list[i])
  THEN [shared |-> TRUE, period |-> 1, phase |-> 0]
  ELSE LET a == list[CHOOSE i \in DOMAIN list : IsLastDefault(list, i)].attr
       IN  [shared |-> MeansTrue(a.shared), period |-> Atoi[a.period],
            phase |-> Atoi[a.phase]]

\* The first element of a key.
Names(e, id) == Upper[e.attr.id] = id
IsFirst(list, i, id) ==
  Names(list[i], id) /\ \A j \in 1 .. i - 1 : ~Names(list[j], id)

\* The last DefaultKeyValue, as a whole, is the default of everything; of the
\* elements of a key, in any case, the first counts, with the default for what it
\* leaves out, and for keys that are not there at all (RtDB2Configuration.cpp:116-150,
\* 197, 222-252, 268-270, 297-309).
DetailsAsWritten ==
  (config # NotRead /\ config # Failed) =>
    LET default == WrittenDefault(xmlFile.general[1])
        keys == xmlFile.keys[1]
    IN  \A id \in {Upper[s] : s \in Strings} :
          LET d == GetKeyDetails(config, id)
          IN  IF \A i \in DOMAIN keys : ~Names(keys[i], id) THEN d = default
              ELSE LET e == keys[CHOOSE i \in DOMAIN keys : IsFirst(keys, i, id)]
                   IN  /\ d.shared = (IF Has(e, "shared") THEN MeansTrue(e.attr.shared)
                                      ELSE default.shared)
                       /\ d.period = (IF Has(e, "period") THEN Atoi[e.attr.period]
                                      ELSE default.period)
                       /\ d.phase = (IF Has(e, "phase") THEN Atoi[e.attr.phase]
                                     ELSE default.phase)

\* rtdb_ini_creator.c:249 tells the user that the item "está marcada como LOCAL para
\* alguns agents e SHARED para outros" before it asks: it does so of no other item.
PromptsOnlyOnConflict ==
  \A i \in DOMAIN answers : SharedIn(answers[i].num) /\ LocalIn(answers[i].num)
=============================================================================
