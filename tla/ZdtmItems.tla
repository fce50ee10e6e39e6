----------------------------- MODULE ZdtmItems ------------------------------
(***************************************************************************)
(* The three parsers that put the parameters of an ADR message into a      *)
(* todo, calendar or address item: they go through the format that the ADI *)
(* message gave, look each parameter's type and abbreviation up, copy it   *)
(* into a field of the item or allocate the field, and give up at the      *)
(* first field that cannot be allocated.  The program obtains one item     *)
(* after the other into the same struct, as zdtm_test_daemon does.         *)
(***************************************************************************)
EXTENDS Integers, Sequences, FiniteSets

CONSTANTS
    Kinds,          \* the parsers looked at: "todo", "calendar", "address"
    MaxParams,      \* bound on the parameters of a format
    Unnamed,        \* parameters no parser knows
    EmptyParams,    \* parameters may come without data
    MaxItems        \* bound on the items obtained

ASSUME ItemsAssumption ==
    /\ Kinds \subseteq {"todo", "calendar", "address"}
    /\ MaxParams \in Nat /\ MaxItems \in Nat
    /\ EmptyParams \in BOOLEAN

\* One comparison of a parser: a parameter with this type and abbreviation is
\* copied into the field; code is what is returned when the field has to be
\* allocated and cannot be, 0 when it is part of the struct.
Part(type, abrev, field)        == [type |-> type, abrev |-> abrev, field |-> field, code |-> 0]
Text(abrev, field, code)        == [type |-> "UTF8", abrev |-> abrev, field |-> field, code |-> code]
Category == [type |-> "BARRAY", abrev |-> "CTGR", field |-> "category", code |-> -2]

\* Mutant: the assignment for the modification was copied from the creation's.
CommonCopied ==
    {Part("TIME", "CTTM", "creation_date"), Part("TIME", "MDTM", "creation_date"),
     Part("BIT", "ATTR", "attribute"), Part("ULONG", "SYID", "sync_id"), Category}

Common ==
    {Part("TIME", "CTTM", "creation_date"), Part("TIME", "MDTM", "modification_date"),
     Part("BIT", "ATTR", "attribute"), Part("ULONG", "SYID", "sync_id"), Category}

TodoEntries == Common \cup
    {Part("TIME", "ETDY", "start_date"), Part("TIME", "LTDY", "due_date"),
     Part("TIME", "FNDY", "completed_date"),
     Part("UCHAR", "MARK", "progress"), Part("UCHAR", "PRTY", "priority"),
     Text("TITL", "description", -3), Text("MEM1", "notes", -4)}

CalendarEntries == Common \cup
    {Part("TIME", "TIM1", "start_time"), Part("TIME", "TIM2", "end_time"),
     Part("TIME", "REDT", "repeat_end_date"),
     Part("TIME", "ALSD", "all_day_start_date"), Part("TIME", "ALED", "all_day_end_date"),
     Part("UCHAR", "ADAY", "schedule_type"), Part("UCHAR", "ARON", "alarm"),
     Part("UCHAR", "ARSD", "alarm_setting"), Part("UCHAR", "RTYP", "repeat_type"),
     Part("UCHAR", "RDYS", "repeat_date"), Part("UCHAR", "REND", "repeat_end_date_setting"),
     Part("UCHAR", "MDAY", "multiple_days_flag"),
     Part("WORD", "ARMN", "alarm_time"), Part("WORD", "RFRQ", "repeat_period"),
     Part("WORD", "RPOS", "repeat_position"),
     Text("DSRP", "description", -3), Text("PLCE", "location", -4), Text("MEM1", "notes", -5)}

NameEntries ==
    {Text("FULL", "full_name", -3), Text("NAPR", "full_name_pronun", -4),
     Text("TITL", "title", -5), Text("LNME", "last_name", -6), Text("FNME", "first_name", -7),
     Text("MNME", "middle_name", -8), Text("SUFX", "suffix", -9),
     Text("FLAS", "alternative_name", -10), Text("LNPR", "last_name_pronun", -11),
     Text("FNPR", "first_name_pronun", -12)}

CompanyEntries ==
    {Text("CPNY", "company", -13), Text("CPPR", "company_pronun", -14),
     Text("SCTN", "department", -15), Text("PSTN", "job_title", -16),
     Text("TEL2", "work_phone", -17), Text("FAX2", "work_fax", -18),
     Text("CPS2", "work_mobile", -19), Text("BSTA", "work_state", -20),
     Text("BCTY", "work_city", -21), Text("BSTR", "work_street", -22),
     Text("BZIP", "work_zip", -23), Text("BCTR", "work_country", -24),
     Text("BWEB", "work_web_page", -25)}

OfficeEntries ==
    {Text("OFCE", "office", -26), Text("PRFS", "profession", -27),
     Text("ASST", "assistant", -28), Text("MNGR", "manager", -29), Text("BPGR", "pager", -30)}

HomeEntries ==
    {Text("CPS1", "cellular", -31), Text("TEL1", "home_phone", -32), Text("FAX1", "home_fax", -33),
     Text("HSTA", "home_state", -34), Text("HCTY", "home_city", -35),
     Text("HSTR", "home_street", -36), Text("HZIP", "home_zip", -37),
     Text("HCTR", "home_country", -38), Text("HWEB", "home_web_page", -39),
     Text("DMAL", "default_email", -40), Text("MAL1", "emails", -41)}

PersonEntries ==
    {Text("SPUS", "spouse", -42), Text("GNDR", "gender", -43), Text("BRTH", "birthday", -44),
     Text("ANIV", "anniversary", -45), Text("NCNM", "nickname", -46),
     Text("CLDR", "children", -47), Text("MEM1", "memo", -48), Text("GRPS", "group", -49)}

AddressEntries == Common \cup NameEntries \cup CompanyEntries \cup OfficeEntries
                         \cup HomeEntries \cup PersonEntries

Entries == [todo |-> TodoEntries, calendar |-> CalendarEntries, address |-> AddressEntries]

(***************************************************************************)
(* The members of the structs of zdtm_common.h, without the lengths.       *)
(***************************************************************************)
CommonFields == {"attribute", "creation_date", "modification_date", "sync_id", "category"}

TodoStruct == CommonFields \cup {"start_date", "due_date", "completed_date", "progress",
                         "priority", "description", "notes"}

CalendarStruct == CommonFields \cup
    {"description", "location", "notes", "start_time", "end_time", "schedule_type", "alarm",
     "alarm_setting", "alarm_time", "repeat_type", "repeat_period", "repeat_position",
     "repeat_date", "repeat_end_date_setting", "repeat_end_date", "all_day_start_date",
     "all_day_end_date", "multiple_days_flag"}

AddressStruct == CommonFields \cup
    {"full_name", "full_name_pronun", "title", "last_name", "first_name", "middle_name",
     "suffix", "alternative_name", "last_name_pronun", "first_name_pronun", "company",
     "company_pronun", "department", "job_title", "work_phone", "work_fax", "work_mobile",
     "work_state", "work_city", "work_street", "work_zip", "work_country", "work_web_page",
     "office", "profession", "assistant", "manager", "pager", "cellular", "home_phone",
     "home_fax", "home_state", "home_city", "home_street", "home_zip", "home_country",
     "home_web_page", "default_email", "emails", "spouse", "gender", "birthday",
     "anniversary", "nickname", "children", "memo", "group"}

Struct == [todo |-> TodoStruct, calendar |-> CalendarStruct, address |-> AddressStruct]
-----------------------------------------------------------------------------
VARIABLES
    kind,       \* the parser at work
    format,     \* cur_env->params: the types and abbreviations of the ADI message
    number,     \* how many items were asked for
    lens,       \* param_len of the parameters of the present item: 0 or more
    i,          \* the parser's loop variable
    item,       \* where each field's value comes from, the caller's struct
    before,     \* the caller's struct when the present call began
    phase,      \* "idle", or "parse" inside the loop
    code        \* what the last parser returned

vars == <<kind, format, number, lens, i, item, before, phase, code>>

\* A field's value: the data of parameter j of item k, or one of two marks.
Datum(k, j) == <<k, j>>
NULL(k)     == Datum(k, 0)      \* malloc failed while item k was parsed
Unwritten   == Datum(0, 0)

Parameter(e) == [type |-> e.type, abrev |-> e.abrev]

\* What the ADI message may describe for a parser.
ParametersFor(kd) == {Parameter(e) : e \in Entries[kd]} \cup Unnamed

\* A format names a field once; it may name fields the library does not know.
Formats(kd) ==
    {f \in UNION {[1..n -> ParametersFor(kd)] : n \in 0..MaxParams} :
        \A a, b \in DOMAIN f : f[a] = f[b] => a = b}

\* The comparison of the parser that holds for a parameter, if one does.
Matching(p) == {e \in Entries[kind] : Parameter(e) = p}

Codes == {-1, 0} \cup {e.code : e \in AddressEntries}

TypeOK ==
    /\ kind \in Kinds
    /\ format \in Seq(ParametersFor(kind)) /\ Len(format) <= MaxParams
    /\ number \in 0..MaxItems
    /\ lens \in Seq({0, 1})
    /\ i \in 1..Len(format) + 1
    /\ {item, before} \subseteq [Struct[kind] -> (0..number) \X (0..MaxParams)]
    /\ phase \in {"idle", "parse"}
    /\ code \in Codes

Init ==
    /\ kind \in Kinds /\ format \in Formats(kind)
    /\ number = 0 /\ lens = <<>> /\ i = 1
    /\ item = [f \in Struct[kind] |-> Unwritten] /\ before = item
    /\ phase = "idle" /\ code = 0
-----------------------------------------------------------------------------
\* An ADR message with as many parameters as the format has.
Obtain ==
    /\ phase = "idle" /\ number < MaxItems
    /\ number' = number + 1
    /\ lens' \in [DOMAIN format -> IF EmptyParams THEN {0, 1} ELSE {1}]
    /\ i' = 1 /\ before' = item /\ phase' = "parse"
    /\ UNCHANGED <<kind, format, item, code>>

\* One with more or fewer is refused untouched.
ObtainOther ==
    /\ phase = "idle" /\ number < MaxItems
    /\ number' = number + 1
    /\ before' = item /\ code' = -1
    /\ UNCHANGED <<kind, format, lens, i, item, phase>>

\* memcpy into a field of the struct copies nothing when nothing came.
Copied(e) == IF lens[i] = 0 THEN item[e.field] ELSE Datum(number, i)

\* Mutants: the field keeps what it had when malloc fails; the loop starts
\* over at the second parameter.
FailedFieldKept(e) == item[e.field]
FailedField(e)     == NULL(number)

NextParameterTwice == i + 2
NextParameter      == i + 1

CopyPart(e) ==
    /\ e.code = 0
    /\ item' = [item EXCEPT ![e.field] = Copied(e)]
    /\ i' = NextParameter
    /\ UNCHANGED <<phase, code>>

AllocateText(e) ==
    /\ e.code # 0
    /\ item' = [item EXCEPT ![e.field] = Datum(number, i)]
    /\ i' = NextParameter
    /\ UNCHANGED <<phase, code>>

AllocateFails(e) ==
    /\ e.code # 0
    /\ item' = [item EXCEPT ![e.field] = FailedField(e)]
    /\ phase' = "idle" /\ code' = e.code
    /\ UNCHANGED i

Take ==
    /\ phase = "parse" /\ i \in DOMAIN format
    /\ \E e \in Matching(format[i]) : CopyPart(e) \/ AllocateText(e) \/ AllocateFails(e)
    /\ UNCHANGED <<kind, format, number, lens, before>>

Skip ==
    /\ phase = "parse" /\ i \in DOMAIN format
    /\ Matching(format[i]) = {}
    /\ i' = NextParameter
    /\ UNCHANGED <<kind, format, number, lens, item, before, phase, code>>

Done ==
    /\ phase = "parse" /\ i \notin DOMAIN format
    /\ phase' = "idle" /\ code' = 0
    /\ UNCHANGED <<kind, format, number, lens, i, item, before>>

Next == Obtain \/ ObtainOther \/ Take \/ Skip \/ Done

Spec == Init /\ [][Next]_vars
-----------------------------------------------------------------------------
\* The field parameter j of the format belongs to, and whether it has one.
Known(j)     == Matching(format[j]) # {}
EntryOf(j)   == CHOOSE e \in Matching(format[j]) : TRUE
FieldOf(j)   == EntryOf(j).field

(***************************************************************************)
(* An item that was built is complete and is this item's alone: whatever   *)
(* the order of the format, each parameter the library knows ended up in a *)
(* field of its own, no later one overwrote it, and the other fields are   *)
(* as the caller had them (zdtm_proto.c:525-1213).                         *)
(***************************************************************************)
ItemComplete ==
    (phase = "idle" /\ code = 0 /\ number > 0) =>
        /\ \A j \in DOMAIN format : Known(j) => item[FieldOf(j)] = Datum(number, j)
        /\ \A f \in Struct[kind] \ {FieldOf(j) : j \in {n \in DOMAIN format : Known(n)}} :
              item[f] = before[f]

(***************************************************************************)
(* The code of a failed parser tells the caller what it can free: exactly  *)
(* one field has that code, it is NULL, what the format has before it is   *)
(* this item's, what the format has after it is as before the call         *)
(* (the returns -2 to -49 of the parsers).                                 *)
(***************************************************************************)
FailureNamesField ==
    (phase = "idle" /\ code < -1) =>
        \E j \in DOMAIN format :
            /\ Known(j) /\ EntryOf(j).code = code
            /\ {e \in Entries[kind] : e.code = code} = {EntryOf(j)}
            /\ item[FieldOf(j)] = NULL(number)
            /\ \A n \in 1..(j - 1) : Known(n) => item[FieldOf(n)] = Datum(number, n)
            /\ \A n \in (j + 1)..Len(format) : Known(n) => item[FieldOf(n)] = before[FieldOf(n)]
=============================================================================
