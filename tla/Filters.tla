------------------------------- MODULE Filters -------------------------------
(***************************************************************************)
(* models.py and backends/filter_engine.py: the parameters and filters of  *)
(* a query become one list of filters, which is applied to spans and to    *)
(* traces.                                                                 *)
(*                                                                         *)
(* A value carries what Python's conversions make of it:                   *)
(*   type     "int", "float", "bool", "str" or "list"                      *)
(*   text     by str()                                                     *)
(*   reads    by float(): "finite", "inf", "nan", "overflow", or "no"      *)
(*   number   that number; above all finite ones where it reads "inf"      *)
(*   spelled  "true" or "false" if it is a str that spells so, else "no"   *)
(* What is optional is a set of at most one element.                       *)
(***************************************************************************)
EXTENDS Integers, Sequences, SequencesExt, Selection

CONSTANTS
    MaxValues,  \* MAX_FILTER_VALUES
    MaxFilters, \* MAX_FILTERS_PER_QUERY
    Text(_)     \* str() of a number or of a Boolean
-----------------------------------------------------------------------------
(* Values.                                                                 *)

Str(text) ==
    [type |-> "str", text |-> text, reads |-> "no", number |-> 0, spelled |-> "no"]
Number(n) ==
    [type |-> "int", text |-> Text(n), reads |-> "finite", number |-> n, spelled |-> "no"]
Bool(b) ==
    [type |-> "bool", text |-> Text(b),
     reads |-> "finite", number |-> IF b THEN 1 ELSE 0, spelled |-> "no"]

\* bool(v)
Truth(v) ==
    IF v.type \in {"str", "list"} THEN v.text # <<>>
    ELSE v.reads # "finite" \/ v.number # 0

\* float(v) neither raises nor is a NaN.
Comparable(v) == v.reads \in {"finite", "inf"}
-----------------------------------------------------------------------------
(* Filter: its operands are normalised, then validated.                    *)

\* mutant: a number operand is whatever float() reads
NumberOperand_NotChecked(v) ==
    v.type \in {"int", "float", "str"} /\ v.reads \notin {"no", "overflow"}

\* _check_number_operand, after _parse_number_operand if it is a str
NumberOperand(v) == v.type \in {"int", "float", "str"} /\ v.reads = "finite"

\* _normalize_filter_operand, and the type check of the field after it: what
\* the operand becomes if it is accepted.
Normal(v, type) ==
    CASE type = "number" ->
           IF NumberOperand(v) THEN {[v EXCEPT !.type = "float"]} ELSE {}
      [] type = "boolean" ->
           IF v.type = "bool" THEN {v}
           ELSE {Bool(b) : b \in {c \in BOOLEAN :
                                    v.spelled = IF c THEN "true" ELSE "false"}}
      [] type = "string" ->
           IF v.type = "list" THEN {} ELSE {[v EXCEPT !.type = "str"]}

\* validate_filter_values
OperandsFit(f) ==
    CASE f.operator \in {"exists", "not_exists"} -> f.value = {} /\ f.values = {}
      [] f.operator \in {"in", "not_in"} -> \E s \in f.values : s # <<>>
      [] f.operator = "between" -> \E s \in f.values : Len(s) = 2
      [] OTHER -> f.value # {}

Accepted(f) ==
    /\ \A v \in f.value : Normal(v, f.type) # {}
    /\ \A s \in f.values :
        Len(s) <= MaxValues /\ \A i \in DOMAIN s : Normal(s[i], f.type) # {}
    /\ OperandsFit(f)

Normalized(f) ==
    [f EXCEPT !.value = UNION {Normal(v, f.type) : v \in @},
              !.values = {[i \in DOMAIN s |-> CHOOSE v \in Normal(s[i], f.type) : TRUE]
                          : s \in @}]
-----------------------------------------------------------------------------
(* _convert_params_to_filters                                              *)

Where(field, operator, type, v) ==
    [field |-> field, operator |-> operator, type |-> type, value |-> {v}, values |-> {}]

\* An empty text is no parameter.
WhereText(field, text) ==
    IF text = <<>> THEN <<>> ELSE <<Where(field, "equals", "string", Str(text))>>

WhereDuration(operator, bound) ==
    IF bound = {} THEN <<>>
    ELSE <<Where("duration", operator, "number", Number(CHOOSE n \in bound : TRUE))>>

\* mutant: has_error=False asks for the status OK
WhereStatus_Ok(hasError) ==
    CASE hasError = {} -> <<>>
      [] hasError = {TRUE} -> <<Where("status", "equals", "string", Str(<<"ERROR">>))>>
      [] hasError = {FALSE} -> <<Where("status", "equals", "string", Str(<<"OK">>))>>

WhereStatus(hasError) ==
    CASE hasError = {} -> <<>>
      [] hasError = {TRUE} -> <<Where("status", "equals", "string", Str(<<"ERROR">>))>>
      [] hasError = {FALSE} -> <<Where("status", "not_equals", "string", Str(<<"ERROR">>))>>

Converted(p) ==
    WhereText("service.name", p.service)
    \o WhereText("operation_name", p.operation)
    \o WhereDuration("gte", p.least)
    \o WhereDuration("lte", p.most)
    \o WhereStatus(p.hasError)
    \o WhereText("gen_ai.system", p.system)
    \o WhereText("gen_ai.request.model", p.requestModel)
    \o WhereText("gen_ai.response.model", p.responseModel)
    \o [i \in DOMAIN p.tags |-> Where(p.tags[i][1], "equals", "string", Str(p.tags[i][2]))]
-----------------------------------------------------------------------------
(* The items: a span, or a trace.  Their own fields come before the         *)
(* attributes.  Ids and token counts are fields like these and are left    *)
(* out.                                                                    *)

IsError(s) == s.status = <<"ERROR">>

OfSpan(s) == [level |-> "span", spans |-> <<s>>]

Extent(spans) ==
    Max({spans[i].start + spans[i].duration : i \in DOMAIN spans})
    - Min({spans[i].start : i \in DOMAIN spans})

\* The first span without a parent; there may be none.
Parentless(spans) == Among(spans, {s \in ToSet(spans) : s.parent = {}})
Root(spans) == IF Parentless(spans) = <<>> THEN spans[1] ELSE Parentless(spans)[1]

\* What several backends make of the spans of a trace.
Grouped(spans) ==
    [level |-> "trace", spans |-> spans, root |-> Root(spans), duration |-> Extent(spans),
     status |-> CASE \E i \in DOMAIN spans : IsError(spans[i]) -> <<"ERROR">>
                  [] \A i \in DOMAIN spans : spans[i].status = <<"OK">> -> <<"OK">>
                  [] OTHER -> <<"UNSET">>]

SpanValues(s, field) ==
    CASE field = "service.name" -> {Str(s.service)}
      [] field \in {"name", "operation_name"} -> {Str(s.operation)}
      [] field = "duration" -> {Number(s.duration)}
      [] field = "status" -> {Str(s.status)}
      [] field = "parent_span_id" -> {Str(p) : p \in s.parent}
      [] OTHER -> IF field \in DOMAIN s.attributes THEN s.attributes[field] ELSE {}

\* _get_field_values: any and all do not tell a list from a set.
FieldValues(item, field) ==
    IF item.level = "span" THEN SpanValues(item.spans[1], field)
    ELSE CASE field = "service.name" -> {Str(item.root.service)}
           [] field \in {"name", "operation_name"} -> {Str(item.root.operation)}
           [] field = "duration" -> {Number(item.duration)}
           [] field = "status" -> {Str(item.status)}
           [] field = "span_count" -> {Number(Len(item.spans))}
           [] field = "has_errors" -> {Bool(\E i \in DOMAIN item.spans : IsError(item.spans[i]))}
           [] OTHER -> UNION {SpanValues(item.spans[i], field) : i \in DOMAIN item.spans}
-----------------------------------------------------------------------------
(* _compile and _compare_compiled.                                         *)

Operand(f) == CHOOSE v \in f.value : TRUE
Members(f) == CHOOSE s \in f.values : TRUE

\* An operand that cannot be converted: the filter matches nothing.
Invalid(f) ==
    /\ f.type = "number"
    /\ \/ \E v \in f.value : ~Comparable(v)
       \/ \E s \in f.values : \E i \in DOMAIN s : s[i].reads \in {"no", "overflow"}

\* An operator that the type does not know matches nothing.
NumberMatches(n, f) ==
    CASE f.operator = "equals" -> n = Operand(f).number
      [] f.operator = "not_equals" -> n # Operand(f).number
      [] f.operator = "gt" -> n > Operand(f).number
      [] f.operator = "lt" -> n < Operand(f).number
      [] f.operator = "gte" -> n >= Operand(f).number
      [] f.operator = "lte" -> n <= Operand(f).number
      [] f.operator = "in" -> \E v \in ToSet(Members(f)) : n = v.number
      [] f.operator = "not_in" -> \A v \in ToSet(Members(f)) : n # v.number
      [] f.operator = "between" -> Members(f)[1].number <= n /\ n <= Members(f)[2].number
      [] OTHER -> FALSE

BoolMatches(b, f) ==
    CASE f.operator = "equals" -> b = Truth(Operand(f))
      [] f.operator = "not_equals" -> b # Truth(Operand(f))
      [] OTHER -> FALSE

TextMatches(text, f) ==
    CASE f.operator = "equals" -> text = Operand(f).text
      [] f.operator = "not_equals" -> text # Operand(f).text
      [] f.operator = "contains" -> Operand(f).text \in SubSeqs(text)
      [] f.operator = "not_contains" -> Operand(f).text \notin SubSeqs(text)
      [] f.operator = "starts_with" -> IsPrefix(Operand(f).text, text)
      [] f.operator = "ends_with" -> IsSuffix(Operand(f).text, text)
      [] f.operator = "in" -> \E v \in ToSet(Members(f)) : text = v.text
      [] f.operator = "not_in" -> \A v \in ToSet(Members(f)) : text # v.text
      [] OTHER -> FALSE

Compares(v, f) ==
    /\ ~Invalid(f)
    /\ CASE f.type = "number" -> Comparable(v) /\ NumberMatches(v.number, f)
         [] f.type = "boolean" -> BoolMatches(Truth(v), f)
         [] f.type = "string" -> TextMatches(v.text, f)

Negative == {"not_equals", "not_contains", "not_in"}

\* _matches_filter: a negative operator is asked of all values.
Satisfied(vs, f) ==
    CASE f.operator = "exists" -> vs # {}
      [] f.operator = "not_exists" -> vs = {}
      [] f.operator \in Negative -> vs # {} /\ \A v \in vs : Compares(v, f)
      [] OTHER -> \E v \in vs : Compares(v, f)

Matches(item, f) == Satisfied(FieldValues(item, f.field), f)

\* _matches_all_filters
MatchesAll(item, fs) == \A i \in DOMAIN fs : Matches(item, fs[i])

\* apply_filters: what it keeps stays in order.
Filtered(items, fs) == Among(items, {item \in ToSet(items) : MatchesAll(item, fs)})
=============================================================================
