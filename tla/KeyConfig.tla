------------------------------ MODULE KeyConfig ------------------------------
(***************************************************************************)
(* RtDB2Configuration (src/src/rtdb2/RtDB2Configuration.cpp): what the     *)
(* processes of an agent make of rtdb2_configuration.xml.  An element of   *)
(* the file is a tag and the attributes that are there, a file the lists   *)
(* of elements under its General tags and under its Keys tags.             *)
(***************************************************************************)
EXTENDS Integers, SequencesExt

CONSTANTS
  Strings,        \* the strings of a file
  Upper, Lower,   \* to_upper and to_lower
  Numbers,        \* the strings of digits, is_number
  Atoi            \* what atoi makes of a string

ASSUME KeyConfigConstants ==
  /\ Upper \in [Strings -> Strings] /\ Lower \in [Strings -> Strings]
  /\ Numbers \subseteq Strings
  /\ Atoi \in [Strings -> Int]

\* The elements and files a program can meet.
AttributeNames == {"id", "oid", "shared", "period", "phase", "name", "dictionary"}
IsElement(e) ==
  /\ e = [tag |-> e.tag, attr |-> e.attr]
  /\ DOMAIN e.attr \subseteq AttributeNames /\ e.attr \in [DOMAIN e.attr -> Strings]

IsList(s) == Len(s) \in Nat /\ s = [i \in 1 .. Len(s) |-> s[i]]
IsElements(s) == IsList(s) /\ \A i \in DOMAIN s : IsElement(s[i])
IsSections(s) == IsList(s) /\ \A i \in DOMAIN s : IsElements(s[i])

IsXmlFile(f) ==
  /\ f = [kind |-> "xml", general |-> f.general, keys |-> f.keys]
  /\ IsSections(f.general) /\ IsSections(f.keys)

Has(e, a) == a \in DOMAIN e.attr

\* A configuration while it is read; warned tells whether anything was wrong.
BuiltIn ==
  [default    |-> [shared |-> TRUE, period |-> 1, phase |-> 0],
   compressor |-> [name |-> "zstd", dictionary |-> TRUE],
   details    |-> <<>>,     \* KeyDetail of an identifier
   ids        |-> <<>>,     \* identifier of an integer
   warned     |-> FALSE]

\* What is thrown instead of a configuration.
Failed == [failed |-> TRUE]

Warn(c) == [c EXCEPT !.warned = TRUE]

MeansTrue(v)  == Lower[v] \in {"true", "1", "on"}
MeansFalse(v) == Lower[v] \in {"false", "0", "off"}
IsSwitch(v)   == MeansTrue(v) \/ MeansFalse(v)

Switch(v, old) == IF IsSwitch(v) THEN MeansTrue(v) ELSE old

IsNumber(e, a) == Has(e, a) /\ e.attr[a] \in Numbers

\* The attributes are taken in turn, up to the first that is missing or no number.
DefaultKeyValue(c, e) ==
  LET period == Has(e, "shared") /\ IsNumber(e, "period")
      phase  == period /\ IsNumber(e, "phase")
  IN  [c EXCEPT
         !.default.shared = IF Has(e, "shared") THEN Switch(e.attr.shared, @) ELSE @,
         !.default.period = IF period THEN Atoi[e.attr.period] ELSE @,
         !.default.phase = IF phase THEN Atoi[e.attr.phase] ELSE @,
         !.warned = @ \/ ~phase \/ ~IsSwitch(e.attr.shared)]

Compressor(c, e) ==
  LET both == Has(e, "name") /\ Has(e, "dictionary")
  IN  [c EXCEPT
         !.compressor.name = IF Has(e, "name") THEN Lower[e.attr.name] ELSE @,
         !.compressor.dictionary = IF both THEN Switch(e.attr.dictionary, @) ELSE @,
         !.warned = @ \/ ~both \/ ~IsSwitch(e.attr.dictionary)]

GeneralElement(c, e) ==
  CASE e.tag = "DefaultKeyValue" -> DefaultKeyValue(c, e)
    [] e.tag = "Compressor" -> Compressor(c, e)
    [] OTHER -> Warn(c)

\* std::map::insert: what is there stays.
Inserted(f, k, v) ==
  [x \in DOMAIN f \union {k} |-> IF x \in DOMAIN f THEN f[x] ELSE v]

\* Faulty variant of InsertKeyDetail: the later element counts.
InsertKeyDetailOver(c, id, detail) ==
  [c EXCEPT !.details = [x \in DOMAIN @ \union {id} |-> IF x = id THEN detail ELSE @[x]]]

InsertKeyDetail(c, id, detail) == [c EXCEPT !.details = Inserted(@, id, detail)]

AssociateKeys(c, oid, id) == [c EXCEPT !.ids = Inserted(@, oid, id)]

\* The details of a key: its attributes over the defaults; numbers are not checked.
KeyDetail(c, e) ==
  [shared |-> IF Has(e, "shared") THEN Switch(e.attr.shared, c.default.shared)
              ELSE c.default.shared,
   period |-> IF Has(e, "period") THEN Atoi[e.attr.period] ELSE c.default.period,
   phase  |-> IF Has(e, "phase") THEN Atoi[e.attr.phase] ELSE c.default.phase]

KeyElementRead(c, e) ==
  IF e.tag # "key" \/ ~Has(e, "id") THEN Warn(c)
  ELSE LET id == Upper[e.attr.id]
           known == IF IsNumber(e, "oid") THEN AssociateKeys(c, Atoi[e.attr.oid], id)
                    ELSE c
           good == /\ Has(e, "oid") => IsNumber(e, "oid")
                   /\ Has(e, "shared") => IsSwitch(e.attr.shared)
           next == InsertKeyDetail(known, id, KeyDetail(c, e))
       IN  IF good THEN next ELSE Warn(next)

\* The elements of a section are read one after the other.
AfterGeneral(list) ==
  LET c[i \in 0 .. Len(list)] ==
        IF i = 0 THEN BuiltIn ELSE GeneralElement(c[i - 1], list[i])
  IN  c[Len(list)]

AfterKeys(start, list) ==
  LET c[i \in 0 .. Len(list)] ==
        IF i = 0 THEN start ELSE KeyElementRead(c[i - 1], list[i])
  IN  c[Len(list)]

\* Faulty variant of Parse: warnings are only printed.
ParseLeniently(file) ==
  IF file.kind # "xml" \/ Len(file.general) # 1 \/ Len(file.keys) # 1 THEN Failed
  ELSE AfterKeys(AfterGeneral(file.general[1]), file.keys[1])

\* The constructor.  A warning fails it in the end, like everything else.
Parse(file) ==
  IF file.kind # "xml" \/ Len(file.general) # 1 \/ Len(file.keys) # 1 THEN Failed
  ELSE LET c == AfterKeys(AfterGeneral(file.general[1]), file.keys[1])
       IN  IF c.warned THEN Failed ELSE c
-----------------------------------------------------------------------------
(* The look-ups of a configuration. *)

GetKeyDetails(c, id) == IF id \in DOMAIN c.details THEN c.details[id] ELSE c.default

GetStringIdentifier(c, oid) == IF oid \in DOMAIN c.ids THEN {c.ids[oid]} ELSE {}

GetKeyDetailsOid(c, oid) ==
  IF oid \in DOMAIN c.ids THEN GetKeyDetails(c, c.ids[oid]) ELSE c.default
=============================================================================
