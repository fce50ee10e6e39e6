-------------------------- MODULE ZdtmItems_proofs ---------------------------
(***************************************************************************)
(* Theorems about ZdtmItems, for the three parsers, formats of any length  *)
(* and any number of items.  They rest on what the tables of comparisons   *)
(* in the parsers promise (EntriesDiffer): no two comparisons of a parser  *)
(* hold for the same parameter, fill the same field or return the same     *)
(* code.  The provers find that by looking at each pair of comparisons.    *)
(***************************************************************************)
EXTENDS ZdtmItems, TLAPS

(***************************************************************************)
(* The tables.                                                             *)
(***************************************************************************)
AllKinds == {"todo", "calendar", "address"}

LEMMA EntriesDiffer ==
    ASSUME NEW k \in AllKinds, NEW e \in Entries[k], NEW d \in Entries[k]
    PROVE  /\ Parameter(e) = Parameter(d) => e = d
           /\ e.field = d.field => e = d
           /\ e.code = d.code /\ e.code # 0 => e = d
<1>1. CASE k = "todo"
  <2>1. Entries[k] = TodoEntries
    BY <1>1 DEF Entries
  <2>2. QED
    BY <2>1, SMTT(60) DEF TodoEntries, Common, Category, Part, Text, Parameter
<1>2. CASE k = "calendar"
  <2>1. Entries[k] = CalendarEntries
    BY <1>2 DEF Entries
  <2>2. QED
    BY <2>1, SMTT(60) DEF CalendarEntries, Common, Category, Part, Text, Parameter
<1>3. CASE k = "address"
  <2>1. Entries[k] = AddressEntries
    BY <1>3 DEF Entries
  <2>2. QED
    BY <2>1, SMTT(60) DEF AddressEntries, Common, Category, Part, Text, Parameter,
                          NameEntries, CompanyEntries, OfficeEntries, HomeEntries, PersonEntries
<1>4. QED
  BY <1>1, <1>2, <1>3 DEF AllKinds

LEMMA EntryTypes ==
    ASSUME NEW k \in AllKinds, NEW e \in Entries[k]
    PROVE  /\ e.field \in Struct[k]
           /\ e.code \in -49..-2 \cup {0}
<1>1. CASE k = "todo"
  <2>1. Entries[k] = TodoEntries /\ Struct[k] = TodoStruct
    BY <1>1 DEF Entries, Struct
  <2>2. e.field \in TodoStruct
    BY <2>1, SMTT(60) DEF TodoEntries, Common, Category, Part, Text, TodoStruct, CommonFields
  <2>3. e.code \in -4..-2 \cup {0}
    BY <2>1, SMTT(60) DEF TodoEntries, Common, Category, Part, Text
  <2>4. QED
    BY <2>1, <2>2, <2>3
<1>2. CASE k = "calendar"
  <2>1. Entries[k] = CalendarEntries /\ Struct[k] = CalendarStruct
    BY <1>2 DEF Entries, Struct
  <2>2. e.field \in CalendarStruct
    BY <2>1, SMTT(60) DEF CalendarEntries, Common, Category, Part, Text, CalendarStruct, CommonFields
  <2>3. e.code \in -5..-2 \cup {0}
    BY <2>1, SMTT(60) DEF CalendarEntries, Common, Category, Part, Text
  <2>4. QED
    BY <2>1, <2>2, <2>3
<1>3. CASE k = "address"
  <2>1. Entries[k] = AddressEntries /\ Struct[k] = AddressStruct
    BY <1>3 DEF Entries, Struct
  <2>2. e.field \in AddressStruct
    BY <2>1, SMTT(60) DEF AddressEntries, Common, Category, Part, Text, AddressStruct, CommonFields,
                  NameEntries, CompanyEntries, OfficeEntries, HomeEntries, PersonEntries
  <2>3. e.code \in -49..-2 \cup {0}
    BY <2>1, SMTT(60) DEF AddressEntries, Common, Category, Part, Text,
                  NameEntries, CompanyEntries, OfficeEntries, HomeEntries, PersonEntries
  <2>4. QED
    BY <2>1, <2>2, <2>3
<1>4. QED
  BY <1>1, <1>2, <1>3 DEF AllKinds

LEMMA CodesAre == Codes = -49..0
<1>1. \A e \in AddressEntries : e.code \in -49..0
  BY EntryTypes DEF Entries, AllKinds
<1>2. \A c \in -49..-2 : \E e \in AddressEntries : e.code = c
  BY SMTT(60) DEF AddressEntries, Common, Category, Part, Text,
                  NameEntries, CompanyEntries, OfficeEntries, HomeEntries, PersonEntries
<1>3. QED
  BY <1>1, <1>2 DEF Codes
-----------------------------------------------------------------------------
(***************************************************************************)
(* Types.                                                                  *)
(***************************************************************************)
\* A format names each parameter once, and an item brings as many as it has.
Shaped ==
    /\ \A a, b \in DOMAIN format : format[a] = format[b] => a = b
    /\ phase = "parse" => Len(lens) = Len(format)

Typed == TypeOK /\ Shaped

LEMMA KindIs == ASSUME TypeOK PROVE kind \in AllKinds
BY ItemsAssumption DEF TypeOK, AllKinds

\* The comparison that holds for a parameter is one of this parser's.
LEMMA EntryFits ==
    ASSUME TypeOK, NEW p, NEW e \in Matching(p)
    PROVE  /\ e \in Entries[kind] /\ Parameter(e) = p
           /\ e.field \in Struct[kind]
           /\ e.code \in -49..-2 \cup {0}
BY KindIs, EntryTypes DEF Matching

LEMMA InitTyped == Init => Typed
<1> SUFFICES ASSUME Init PROVE Typed
  OBVIOUS
<1> USE ItemsAssumption DEF Init
<1>1. PICK n \in 0..MaxParams : format \in [1..n -> ParametersFor(kind)]
  BY DEF Formats
<1>2. format \in Seq(ParametersFor(kind)) /\ Len(format) <= MaxParams
  BY <1>1
<1>3. Unwritten \in (0..number) \X (0..MaxParams)
  BY DEF Unwritten, Datum
<1>4. {item, before} \subseteq [Struct[kind] -> (0..number) \X (0..MaxParams)]
  BY <1>3
<1>5. lens \in Seq({0, 1}) /\ i \in 1..Len(format) + 1 /\ number \in 0..MaxItems
  BY <1>2
<1>6. code \in Codes
  BY CodesAre
<1>7. Shaped
  BY DEF Formats, Shaped
<1>8. QED
  BY <1>2, <1>4, <1>5, <1>6, <1>7 DEF Typed, TypeOK

\* A field of the item that is set to the data or the mark of this call.
LEMMA FieldTyped ==
    ASSUME TypeOK, NEW field \in Struct[kind], NEW v \in (0..number) \X (0..MaxParams),
           item' = [item EXCEPT ![field] = v], UNCHANGED <<kind, number, before>>
    PROVE  {item', before'} \subseteq [Struct[kind'] -> (0..number') \X (0..MaxParams)]
BY DEF TypeOK

LEMMA StepTyped == Typed /\ [Next]_vars => Typed'
<1> SUFFICES ASSUME Typed, [Next]_vars PROVE Typed'
  OBVIOUS
<1> USE ItemsAssumption
<1>1. CASE Obtain
  <2> USE <1>1 DEF Obtain
  <2>1. (0..number) \X (0..MaxParams) \subseteq (0..number') \X (0..MaxParams)
    BY DEF Typed, TypeOK
  <2>2. {item', before'} \subseteq [Struct[kind'] -> (0..number') \X (0..MaxParams)]
    BY <2>1 DEF Typed, TypeOK
  <2>3. lens' \in [1..Len(format) -> {0, 1}] /\ Len(format) \in Nat
    <3>1. DOMAIN format = 1..Len(format) /\ Len(format) \in Nat
      BY DEF Typed, TypeOK
    <3>2. (IF EmptyParams THEN {0, 1} ELSE {1}) \subseteq {0, 1}
      OBVIOUS
    <3>3. QED
      BY <3>1, <3>2
  <2>4. lens' \in Seq({0, 1}) /\ Len(lens') = Len(format)
    BY <2>3
  <2>5. number' \in 0..MaxItems /\ i' \in 1..Len(format') + 1
    BY <2>3 DEF Typed, TypeOK
  <2>6. TypeOK'
    BY <2>2, <2>4, <2>5 DEF Typed, TypeOK, ParametersFor
  <2>7. Shaped'
    BY <2>4 DEF Typed, Shaped
  <2>8. QED
    BY <2>6, <2>7 DEF Typed
<1>2. CASE ObtainOther
  <2> USE <1>2 DEF ObtainOther
  <2>1. (0..number) \X (0..MaxParams) \subseteq (0..number') \X (0..MaxParams)
    BY DEF Typed, TypeOK
  <2>2. {item', before'} \subseteq [Struct[kind'] -> (0..number') \X (0..MaxParams)]
    BY <2>1 DEF Typed, TypeOK
  <2>3. number' \in 0..MaxItems /\ code' \in Codes
    BY CodesAre DEF Typed, TypeOK
  <2>4. TypeOK'
    BY <2>2, <2>3 DEF Typed, TypeOK, ParametersFor
  <2>5. QED
    BY <2>4 DEF Typed, Shaped
<1>3. CASE Take
  <2>1. PICK e \in Matching(format[i]) : CopyPart(e) \/ AllocateText(e) \/ AllocateFails(e)
    BY <1>3 DEF Take
  <2>2. e.field \in Struct[kind] /\ e.code \in Codes
    BY EntryFits, CodesAre DEF Typed
  <2>3. phase = "parse" /\ i \in 1..Len(format) /\ UNCHANGED <<kind, format, number, lens, before>>
    BY <1>3 DEF Take, Typed, TypeOK
  <2>4. Datum(number, i) \in (0..number) \X (0..MaxParams) /\ NULL(number) \in (0..number) \X (0..MaxParams)
    BY <2>3 DEF Datum, NULL, Typed, TypeOK
  <2>5. Copied(e) \in (0..number) \X (0..MaxParams)
    BY <2>2, <2>4 DEF Copied, Typed, TypeOK
  <2>6. PICK v \in (0..number) \X (0..MaxParams) : item' = [item EXCEPT ![e.field] = v]
    BY <2>1, <2>4, <2>5 DEF CopyPart, AllocateText, AllocateFails, FailedField
  <2>7. {item', before'} \subseteq [Struct[kind'] -> (0..number') \X (0..MaxParams)]
    BY <2>2, <2>3, <2>6, FieldTyped DEF Typed
  <2>8. i' \in 1..Len(format') + 1 /\ phase' \in {"idle", "parse"} /\ code' \in Codes
    BY <2>1, <2>2, <2>3, SMTT(30) DEF CopyPart, AllocateText, AllocateFails, NextParameter, Typed, TypeOK
  <2>9. TypeOK'
    BY <2>3, <2>7, <2>8 DEF Typed, TypeOK, ParametersFor
  <2>10. QED
    BY <2>3, <2>9 DEF Typed, Shaped
<1>4. CASE Skip
  <2>1. i \in 1..Len(format) /\ i' = i + 1
    BY <1>4 DEF Skip, NextParameter, Typed, TypeOK
  <2>2. TypeOK'
    BY <1>4, <2>1 DEF Skip, Typed, TypeOK, ParametersFor
  <2>3. QED
    BY <1>4, <2>2 DEF Skip, Typed, Shaped
<1>5. CASE Done
  <2>1. TypeOK'
    BY <1>5, CodesAre DEF Done, Typed, TypeOK, ParametersFor
  <2>2. QED
    BY <1>5, <2>1 DEF Done, Typed, Shaped
<1>6. CASE UNCHANGED vars
  BY <1>6 DEF vars, Typed, TypeOK, Shaped, ParametersFor
<1>7. QED
  BY <1>1, <1>2, <1>3, <1>4, <1>5, <1>6 DEF Next

(***************************************************************************)
(* For formats of any length: the loop variable stays within the format    *)
(* or one behind, the codes are those of the parsers, every field holds    *)
(* what it was given before, data of an item that was asked for, or NULL.  *)
(***************************************************************************)
THEOREM TypeCorrect == Spec => []TypeOK
<1>1. Init => Typed
  BY InitTyped
<1>2. Typed /\ [Next]_vars => Typed'
  BY StepTyped
<1>3. Typed => TypeOK
  BY DEF Typed
<1>4. QED
  BY <1>1, <1>2, <1>3, PTL DEF Spec
-----------------------------------------------------------------------------
(***************************************************************************)
(* What a parser has done so far.                                          *)
(***************************************************************************)
\* The parameters before i that the parser knew.
Taken(n) == {j \in 1..n : Known(j)}

\* Each of them is in its field, and the other fields are the caller's.
Built(n) ==
    /\ \A j \in Taken(n) : item[FieldOf(j)] = Datum(number, j)
    /\ \A f \in Struct[kind] : f \notin {FieldOf(j) : j \in Taken(n)} => item[f] = before[f]

ItemInv ==
    /\ Typed
    /\ phase = "parse" => \A n \in 1..Len(format) : lens[n] = 1
    /\ phase = "parse" => Built(i - 1)
    /\ ItemComplete
    /\ FailureNamesField

LEMMA EntryIs ==
    ASSUME Typed, NEW j \in 1..Len(format), NEW e \in Matching(format[j])
    PROVE  Known(j) /\ EntryOf(j) = e /\ FieldOf(j) = e.field
<1>1. \A d \in Matching(format[j]) : d = e
  BY KindIs, EntriesDiffer DEF Typed, Matching
<1>2. QED
  BY <1>1 DEF Known, EntryOf, FieldOf

LEMMA EntryKnown ==
    ASSUME NEW j, Known(j)
    PROVE  EntryOf(j) \in Matching(format[j])
BY DEF Known, EntryOf

\* Two parameters of a format never go into the same field.
LEMMA FieldsDiffer ==
    ASSUME Typed, NEW j \in 1..Len(format), NEW n \in 1..Len(format),
           Known(j), Known(n), FieldOf(j) = FieldOf(n)
    PROVE  j = n
<1>1. /\ EntryOf(j) \in Entries[kind] /\ Parameter(EntryOf(j)) = format[j]
      /\ EntryOf(n) \in Entries[kind] /\ Parameter(EntryOf(n)) = format[n]
  BY EntryKnown, EntryFits DEF Typed
<1>2. EntryOf(j) = EntryOf(n)
  BY <1>1, KindIs, EntriesDiffer DEF Typed, FieldOf
<1>3. format[j] = format[n]
  BY <1>1, <1>2
<1>4. j \in DOMAIN format /\ n \in DOMAIN format
  BY DEF Typed, TypeOK
<1>5. QED
  BY <1>3, <1>4 DEF Typed, Shaped

\* Which field a parameter goes into depends on the parser and the format.
LEMMA FieldsAreNext ==
    ASSUME UNCHANGED <<kind, format>>, NEW j
    PROVE  Known(j)' = Known(j) /\ EntryOf(j)' = EntryOf(j) /\ FieldOf(j)' = FieldOf(j)
BY DEF Known, EntryOf, FieldOf, Matching

LEMMA TakenIsNext ==
    ASSUME UNCHANGED <<kind, format>>, NEW n
    PROVE  Taken(n)' = Taken(n)
BY DEF Taken, Known, Matching

LEMMA BuiltIsNext ==
    ASSUME UNCHANGED <<kind, format, number, item, before>>, NEW n, Built(n)
    PROVE  Built(n)'
BY DEF Built, Taken, Known, EntryOf, FieldOf, Matching

\* One more parameter is put into its field.
LEMMA FieldPut ==
    ASSUME Typed, i \in 1..Len(format), NEW e \in Matching(format[i]), Built(i - 1),
           NEW v, item' = [item EXCEPT ![e.field] = v], UNCHANGED <<kind, format, number, before>>
    PROVE  /\ Known(i) /\ EntryOf(i) = e /\ FieldOf(i) = e.field
           /\ item'[e.field] = v
           /\ \A j \in Taken(i - 1) : item'[FieldOf(j)] = Datum(number, j)
           /\ \A f \in Struct[kind] :
                f \notin {FieldOf(j) : j \in Taken(i)} => item'[f] = before[f]
<1>1. Known(i) /\ EntryOf(i) = e /\ FieldOf(i) = e.field
  BY EntryIs
<1>2. e.field \in Struct[kind] /\ DOMAIN item = Struct[kind]
  BY EntryFits DEF Typed, TypeOK
<1>3. item'[e.field] = v /\ \A f \in Struct[kind] \ {e.field} : item'[f] = item[f]
  BY <1>2
<1>4. ASSUME NEW j \in Taken(i - 1)
      PROVE  item'[FieldOf(j)] = Datum(number, j)
  <2>1. j \in 1..Len(format) /\ j # i /\ Known(j)
    BY DEF Taken
  <2>2. FieldOf(j) # e.field
    BY <1>1, <2>1, FieldsDiffer
  <2>3. FieldOf(j) \in Struct[kind]
    BY <2>1, EntryKnown, EntryFits DEF FieldOf, Typed
  <2>4. QED
    BY <1>3, <2>2, <2>3 DEF Built
<1>5. Taken(i) = Taken(i - 1) \cup {i}
  BY <1>1 DEF Taken
<1>6. ASSUME NEW f \in Struct[kind], f \notin {FieldOf(j) : j \in Taken(i)}
      PROVE  item'[f] = before[f]
  <2>1. f # e.field /\ f \notin {FieldOf(j) : j \in Taken(i - 1)}
    BY <1>1, <1>5, <1>6
  <2>2. QED
    BY <1>3, <2>1 DEF Built
<1>7. QED
  BY <1>1, <1>3, <1>4, <1>6
-----------------------------------------------------------------------------
(***************************************************************************)
(* Items are complete, and failures name their field.                      *)
(***************************************************************************)
LEMMA InitBuilt == Init => ItemInv
<1> SUFFICES ASSUME Init PROVE ItemInv
  OBVIOUS
<1>1. number = 0 /\ phase = "idle" /\ code = 0
  BY DEF Init
<1>2. QED
  BY <1>1, InitTyped DEF ItemInv, ItemComplete, FailureNamesField

LEMMA StepBuilt ==
    ASSUME EmptyParams = FALSE
    PROVE  ItemInv /\ [Next]_vars => ItemInv'
<1> SUFFICES ASSUME ItemInv, [Next]_vars PROVE ItemInv'
  OBVIOUS
<1>1. Typed /\ Typed'
  BY StepTyped DEF ItemInv
<1>2. DOMAIN format = 1..Len(format) /\ Len(format) \in Nat /\ i \in 1..Len(format) + 1
  BY <1>1 DEF Typed, TypeOK
<1>3. CASE Obtain
  <2> USE <1>3 DEF Obtain
  <2>1. \A n \in 1..Len(format') : lens'[n] = 1
    BY <1>2
  <2>2. Taken(i - 1)' = {}
    BY DEF Taken
  <2>3. Built(i - 1)'
    BY <2>2 DEF Built
  <2>4. QED
    BY <1>1, <2>1, <2>3 DEF ItemInv, ItemComplete, FailureNamesField
<1>4. CASE ObtainOther
  BY <1>1, <1>4 DEF ObtainOther, ItemInv, ItemComplete, FailureNamesField
<1>5. CASE Take
  <2>1. PICK e \in Matching(format[i]) : CopyPart(e) \/ AllocateText(e) \/ AllocateFails(e)
    BY <1>5 DEF Take
  <2>2. /\ phase = "parse" /\ i \in 1..Len(format) /\ lens[i] = 1 /\ Built(i - 1)
        /\ UNCHANGED <<kind, format, number, lens, before>>
    BY <1>2, <1>5 DEF Take, ItemInv
  <2>3. CASE CopyPart(e) \/ AllocateText(e)
    <3>1. /\ item' = [item EXCEPT ![e.field] = Datum(number, i)]
          /\ i' = i + 1 /\ phase' = "parse"
      BY <2>2, <2>3 DEF CopyPart, AllocateText, Copied, NextParameter
    <3>2. /\ Known(i) /\ FieldOf(i) = e.field /\ item'[e.field] = Datum(number, i)
          /\ \A j \in Taken(i - 1) : item'[FieldOf(j)] = Datum(number, j)
          /\ \A f \in Struct[kind] :
               f \notin {FieldOf(j) : j \in Taken(i)} => item'[f] = before[f]
      BY <1>1, <2>2, <3>1, FieldPut
    <3>3. \A j \in Taken(i) : item'[FieldOf(j)] = Datum(number, j)
      <4>1. Taken(i) = Taken(i - 1) \cup {i}
        BY <1>2, <2>2, <3>2 DEF Taken
      <4>2. QED
        BY <3>2, <4>1
    <3>4. i' - 1 = i
      BY <1>2, <2>2, <3>1
    <3>5. \A j : FieldOf(j)' = FieldOf(j)
      BY <2>2, FieldsAreNext
    <3>6. (Built(i - 1))'
      <4>1. \A j \in Taken(i) : item'[FieldOf(j)'] = Datum(number', j)
        BY <2>2, <3>3, <3>5 DEF Datum
      <4>2. \A f \in Struct[kind] :
               f \notin {FieldOf(j)' : j \in Taken(i)} => item'[f] = before'[f]
        BY <2>2, <3>2, <3>5
      <4>3. (Taken(i - 1))' = Taken(i)
        BY <2>2, <3>4 DEF Taken, Known, Matching
      <4>4. QED
        BY <2>2, <4>1, <4>2, <4>3 DEF Built, Datum
    <3>7. QED
      BY <1>1, <2>2, <3>1, <3>6 DEF ItemInv, ItemComplete, FailureNamesField
  <2>4. CASE AllocateFails(e)
    <3>1. /\ e.code # 0 /\ item' = [item EXCEPT ![e.field] = NULL(number)]
          /\ phase' = "idle" /\ code' = e.code /\ i' = i
      BY <2>4 DEF AllocateFails, FailedField
    <3>2. /\ Known(i) /\ EntryOf(i) = e /\ FieldOf(i) = e.field /\ item'[e.field] = NULL(number)
          /\ \A j \in Taken(i - 1) : item'[FieldOf(j)] = Datum(number, j)
          /\ \A f \in Struct[kind] :
               f \notin {FieldOf(j) : j \in Taken(i)} => item'[f] = before[f]
      BY <1>1, <2>2, <3>1, FieldPut
    <3>3. {d \in Entries[kind] : d.code = e.code} = {e}
      <4>1. \A d \in Entries[kind] : d.code = e.code => d = e
        BY <1>1, <3>1, KindIs, EntryFits, EntriesDiffer DEF Typed
      <4>2. QED
        BY <1>1, <4>1, EntryFits DEF Typed
    <3>4. \A n \in 1..(i - 1) : Known(n) => item'[FieldOf(n)] = Datum(number, n)
      BY <3>2 DEF Taken
    <3>5. ASSUME NEW n \in (i + 1)..Len(format), Known(n)
          PROVE  item'[FieldOf(n)] = before[FieldOf(n)]
      <4>1. n \in 1..Len(format) /\ \A j \in Taken(i) : j \in 1..Len(format) /\ j # n /\ Known(j)
        BY <1>2, <2>2 DEF Taken
      <4>2. FieldOf(n) \notin {FieldOf(j) : j \in Taken(i)}
        BY <1>1, <3>5, <4>1, FieldsDiffer
      <4>3. FieldOf(n) \in Struct[kind]
        BY <1>1, <3>5, EntryKnown, EntryFits DEF FieldOf, Typed
      <4>4. QED
        BY <3>2, <4>2, <4>3
    <3>6. code' < -1
      BY <1>1, <3>1, EntryFits DEF Typed
    <3>7. FailureNamesField'
      <4>1. \A j : Known(j)' = Known(j) /\ EntryOf(j)' = EntryOf(j) /\ FieldOf(j)' = FieldOf(j)
        BY <2>2, FieldsAreNext
      <4> PICK m : m = i
        OBVIOUS
      <4>2. /\ m \in DOMAIN format' /\ Known(m)' /\ EntryOf(m)'.code = code'
            /\ {d \in Entries[kind'] : d.code = code'} = {EntryOf(m)'}
            /\ item'[FieldOf(m)'] = NULL(number')
        BY <1>2, <2>2, <3>1, <3>2, <3>3, <4>1
      <4>3. \A n \in 1..(m - 1) : Known(n)' => item'[FieldOf(n)'] = Datum(number', n)
        BY <2>2, <3>4, <4>1
      <4>4. \A n \in (m + 1)..Len(format') : Known(n)' => item'[FieldOf(n)'] = before'[FieldOf(n)']
        BY <2>2, <3>5, <4>1
      <4>5. \E j \in DOMAIN format' :
              /\ Known(j)' /\ EntryOf(j)'.code = code'
              /\ {d \in Entries[kind'] : d.code = code'} = {EntryOf(j)'}
              /\ item'[FieldOf(j)'] = NULL(number')
              /\ \A n \in 1..(j - 1) : Known(n)' => item'[FieldOf(n)'] = Datum(number', n)
              /\ \A n \in (j + 1)..Len(format') :
                    Known(n)' => item'[FieldOf(n)'] = before'[FieldOf(n)']
        BY <4>2, <4>3, <4>4
      <4>6. QED
        BY <4>5 DEF FailureNamesField
    <3>8. QED
      BY <1>1, <3>1, <3>6, <3>7 DEF ItemInv, ItemComplete
  <2>5. QED
    BY <2>1, <2>3, <2>4
<1>6. CASE Skip
  <2>1. /\ phase = "parse" /\ phase' = "parse" /\ i \in 1..Len(format) /\ i' = i + 1
        /\ UNCHANGED <<kind, format, number, lens, item, before, code>> /\ ~Known(i)
    BY <1>2, <1>6 DEF Skip, NextParameter, Known
  <2>2. Taken(i) = Taken(i - 1)
    BY <2>1 DEF Taken
  <2>3. Built(i)
    BY <2>1, <2>2 DEF Built, ItemInv
  <2>4. (Built(i - 1))'
    BY <1>2, <2>1, <2>3 DEF Built, Taken, Known, EntryOf, FieldOf, Matching, Datum
  <2>5. QED
    BY <1>1, <2>1, <2>4 DEF ItemInv, ItemComplete, FailureNamesField
<1>7. CASE Done
  <2>1. /\ phase = "parse" /\ phase' = "idle" /\ i = Len(format) + 1 /\ code' = 0
        /\ UNCHANGED <<kind, format, number, lens, i, item, before>>
    BY <1>2, <1>7 DEF Done
  <2>2. Built(Len(format))
    BY <1>2, <2>1 DEF ItemInv
  <2>3. Taken(Len(format)) = {n \in DOMAIN format : Known(n)}
    BY <1>2 DEF Taken
  <2>4. /\ \A j \in DOMAIN format : Known(j) => item[FieldOf(j)] = Datum(number, j)
        /\ \A f \in Struct[kind] \ {FieldOf(j) : j \in {n \in DOMAIN format : Known(n)}} :
              item[f] = before[f]
    BY <2>2, <2>3 DEF Built
  <2>5. ItemComplete'
    BY <2>1, <2>4 DEF ItemComplete, Known, EntryOf, FieldOf, Matching, Datum
  <2>6. QED
    BY <1>1, <2>1, <2>5 DEF ItemInv, FailureNamesField
<1>8. CASE UNCHANGED vars
  <2>1. UNCHANGED <<kind, format, number, lens, i, item, before, phase, code>>
    BY <1>8 DEF vars
  <2>2. \A j : Known(j)' = Known(j) /\ EntryOf(j)' = EntryOf(j) /\ FieldOf(j)' = FieldOf(j)
    BY <2>1, FieldsAreNext
  <2>3. ItemComplete'
    BY <2>1, <2>2 DEF ItemInv, ItemComplete, Datum
  <2>4. FailureNamesField'
    BY <2>1, <2>2 DEF ItemInv, FailureNamesField, Datum, NULL
  <2>5. (Built(i - 1))' = Built(i - 1)
    BY <2>1, <2>2 DEF Built, Taken, Datum
  <2>6. QED
    BY <1>1, <2>1, <2>3, <2>4, <2>5 DEF ItemInv
<1>9. QED
  BY <1>3, <1>4, <1>5, <1>6, <1>7, <1>8 DEF Next

(***************************************************************************)
(* An item that a parser built is complete and only this item, for each    *)
(* parser, formats of any length, in any order and with any parameters the *)
(* library does not know, and after any items before it, as long as each   *)
(* parameter comes with data.                                              *)
(***************************************************************************)
THEOREM ItemsComplete ==
    ASSUME EmptyParams = FALSE
    PROVE  Spec => []ItemComplete
<1>1. Init => ItemInv
  BY InitBuilt
<1>2. ItemInv /\ [Next]_vars => ItemInv'
  BY StepBuilt
<1>3. ItemInv => ItemComplete
  BY DEF ItemInv
<1>4. QED
  BY <1>1, <1>2, <1>3, PTL DEF Spec

(***************************************************************************)
(* What a parser that fails returns names one field, which is NULL; the    *)
(* item is this one's up to there and the caller's behind it.              *)
(***************************************************************************)
THEOREM FailuresNameTheirField ==
    ASSUME EmptyParams = FALSE
    PROVE  Spec => []FailureNamesField
<1>1. Init => ItemInv
  BY InitBuilt
<1>2. ItemInv /\ [Next]_vars => ItemInv'
  BY StepBuilt
<1>3. ItemInv => FailureNamesField
  BY DEF ItemInv
<1>4. QED
  BY <1>1, <1>2, <1>3, PTL DEF Spec
=============================================================================
