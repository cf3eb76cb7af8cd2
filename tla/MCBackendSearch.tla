---------------------------- MODULE MCBackendSearch ----------------------------
(***************************************************************************)
(* BackendSearch for TLC: every method of every backend over a few traces. *)
(***************************************************************************)
EXTENDS BackendSearch, TLC

MCText(x) == <<ToString(x)>>

Value(type, text, reads, number, spelled) ==
    [type |-> type, text |-> text, reads |-> reads, number |-> number,
     spelled |-> spelled]

Unasked ==
    [service |-> <<>>, operation |-> <<>>, least |-> {}, most |-> {}, hasError |-> {},
     system |-> <<>>, requestModel |-> <<>>, responseModel |-> <<>>, tags |-> <<>>]

OfS == [Unasked EXCEPT !.service = <<"s">>]

MCBackends == {"datadog", "newrelic", "sentry", "xray", "tempo", "jaeger", "traceloop"}
Searches == {"search_traces", "search_spans"}

Call(backend, op, params, fs, limit, subject) ==
    [backend |-> backend, op |-> op, params |-> params, filters |-> fs, limit |-> limit,
     subject |-> subject]

Filter(field, operator, type, value, values) ==
    [field |-> field, operator |-> operator, type |-> type, value |-> value,
     values |-> values]

System == "gen_ai.system"
OldSystem == "llm.vendor"

Bearing(v) == [f \in IF v = {} THEN {} ELSE {"x"} |-> v]
By(name) == [f \in {System, OldSystem} |-> {Str(name)}]

\* The span n of a trace, the child of the span of its parent's number.
Span(trace, n, parent, service, status) ==
    [trace |-> trace, id |-> Append(trace, ToString(n)),
     parent |-> {Append(trace, ToString(m)) : m \in parent},
     service |-> service, operation |-> <<ToString(n)>>, start |-> n, duration |-> 1,
     attributes |-> By(<<"a">>), status |-> status, hint |-> {}, sound |-> TRUE,
     thin |-> FALSE]

Statuses == {<<"OK">>, <<"ERROR">>, <<"UNSET">>}

MCA == <<"A">>
MCB == <<"B">>
MCC == <<"C">>

\* A root and its child in another service, and a trace of one span.
Pairs ==
    {<<<<Span(MCA, 1, {}, <<"s">>, e), Span(MCA, 2, {1}, <<"t">>, f)>>,
       <<Span(MCB, 1, {}, v, <<"UNSET">>)>>>> :
        e \in Statuses, f \in Statuses, v \in {<<"s">>, <<"t">>}}

MCParams ==
    {OfS,
     [OfS EXCEPT !.hasError = {TRUE}], [OfS EXCEPT !.hasError = {FALSE}],
     [OfS EXCEPT !.least = {2}], [OfS EXCEPT !.most = {1}, !.system = <<"a">>],
     [OfS EXCEPT !.operation = <<"1">>, !.tags = <<<<System, <<"b">>>>>>]}

ByParams ==
    [calls |-> {Call(b, o, p, <<>>, 2, <<>>) :
                  b \in MCBackends, o \in Searches, p \in MCParams},
     stores |-> Pairs]

\* Spans that come without some of it, or with other signs of their status.
Odd(s) ==
    {[s EXCEPT !.sound = FALSE], [s EXCEPT !.hint = {<<"ERROR">>}],
     [s EXCEPT !.thin = TRUE], [s EXCEPT !.attributes = Bearing({Number(1)})]}

OddPairs ==
    {<<<<Span(MCA, 1, {}, <<"s">>, <<"OK">>), c>>, <<Span(MCB, 1, {}, <<"s">>, <<"ERROR">>)>>>> :
        c \in Odd(Span(MCA, 2, {1}, <<"s">>, <<"UNSET">>))}

MCFilters ==
    {Filter("x", "exists", "number", {}, {}),
     Filter("x", "gt", "string", {Str(<<"0">>)}, {}),
     Filter("odd", "equals", "string", {Str(<<"a">>)}, {}),
     Filter("status", "equals", "string", {Str(<<"OK">>)}, {}),
     Filter("status", "not_equals", "string", {Str(<<"ok">>)}, {}),
     Filter("status", "in", "string", {}, {<<Str(<<"OK">>), Str(<<"UNSET">>)>>}),
     Filter("service.name", "equals", "string", {Str(<<"t">>)}, {}),
     Filter("service.name", "in", "string", {}, {<<Str(<<"s">>), Str(<<"t">>)>>}),
     Filter("service.name", "not_equals", "string", {Str(<<"t">>)}, {}),
     Filter("duration", "gte", "number", {Number(2)}, {}),
     Filter(System, "starts_with", "string", {Str(<<"a">>)}, {}),
     Filter("duration", "gte", "number", {Str(<<"a">>)}, {})}

ByFilters ==
    [calls |-> {Call(b, o, p, <<f>>, 2, <<>>) :
                  b \in MCBackends, o \in Searches, f \in MCFilters, p \in {Unasked, OfS}},
     stores |-> OddPairs]

\* A filter that names another service than the parameter.
Overrides ==
    [calls |-> {Call("jaeger", o, OfS,
                     <<Filter("service.name", "equals", "string", {Str(<<"t">>)}, {})>>, 2, <<>>) :
                  o \in Searches},
     stores |-> Pairs]

\* Traces of which the lookup and the search tell different things.
Overlaid ==
    [calls |-> {Call(b, "search_traces", p, <<f>>, 2, <<>>) :
                  b \in {"datadog", "newrelic", "sentry"}, p \in {OfS, [OfS EXCEPT !.hasError = {FALSE}]},
                  f \in {Filter("status", o, "string", {Str(e)}, {}) :
                           o \in {"equals", "not_equals", "starts_with"}, e \in Statuses}},
     stores |-> {<<<<r, c>>>> :
                   r \in {[Span(MCA, 1, {}, <<"s">>, e) EXCEPT !.hint = h] :
                            e \in Statuses, h \in {{}, {<<"ERROR">>}}},
                   c \in {[Span(MCA, 2, n, v, e) EXCEPT !.thin = TRUE] :
                            n \in {{}, {1}}, v \in {<<"s">>, <<"t">>}, e \in Statuses}}]

\* The only span comes without some of it.
Alone ==
    [calls |-> {Call(b, o, p, fs, 2, <<>>) :
                  b \in MCBackends \ {"xray"}, o \in Searches,
                  fs \in {<<>>, <<Filter(System, "starts_with", "string", {Str(<<"a">>)}, {})>>},
                  p \in {OfS, [OfS EXCEPT !.hasError = {TRUE}],
                         [OfS EXCEPT !.system = <<"a">>]}},
     stores |-> {<<<<c>>>> : c \in Odd(Span(MCA, 1, {}, <<"s">>, <<"ERROR">>))}]

\* More traces than are fetched or returned.
Many ==
    [calls |-> {Call(b, o, p, <<>>, l, <<>>) :
                  b \in MCBackends, o \in Searches, l \in {1, 3},
                  p \in {OfS, [OfS EXCEPT !.hasError = {FALSE}]}},
     stores |-> {<<<<Span(t, 1, {}, <<"s">>, <<"ERROR">>), Span(t, 2, {1}, <<"s">>, <<"OK">>)>>,
                   <<Span(MCB, 1, {}, <<"s">>, <<"OK">>)>>,
                   <<Span(MCC, 1, {}, <<"s">>, <<"OK">>), Span(MCC, 2, {1}, <<"t">>, <<"OK">>)>>>> :
                   t \in {MCA, <<".">>}}]

Lookups ==
    [calls |-> {Call(b, "get_trace", Unasked, <<>>, 1, t) :
                  b \in MCBackends, t \in {MCA, MCB, MCC, <<".">>}}
               \cup {Call(b, o, Unasked, <<>>, 1, <<"s">>) :
                  b \in MCBackends, o \in {"list_services", "operations", "health_check"}},
     stores |-> Pairs \cup OddPairs]

\* One filter of every kind over every value that is missing, mixed or mistyped.
MCValues ==
    {Number(0), Number(1), Bool(TRUE), Bool(FALSE), Str(<<>>), Str(<<"a">>),
     Str(<<"b", "a">>),
     Value("str", <<"1">>, "finite", 1, "no"),
     Value("str", <<"true">>, "no", 0, "true"),
     Value("str", <<"nan">>, "nan", 0, "no"),
     Value("float", <<"nan">>, "nan", 0, "no"),
     Value("float", <<"inf">>, "inf", 9, "no"),
     Value("int", <<"huge">>, "overflow", 0, "no"),
     Value("list", <<"[", "]">>, "no", 0, "no")}

Single == {"equals", "not_equals", "contains", "not_contains", "starts_with",
           "ends_with", "gt", "lt", "gte", "lte"}
Types == {"number", "boolean", "string"}
Lists == {<<>>, <<Number(1)>>, <<Str(<<"a">>), Number(0)>>,
          <<Number(0), Value("str", <<"1">>, "finite", 1, "no")>>,
          <<Value("float", <<"nan">>, "nan", 0, "no")>>,
          <<Number(0), Number(1), Bool(TRUE)>>}

EveryFilter ==
    {Filter("x", o, t, {v}, {}) : o \in Single, t \in Types, v \in MCValues}
    \cup {Filter("x", o, t, {}, {s}) :
            o \in {"in", "not_in", "between"}, t \in Types, s \in Lists}
    \cup {Filter("x", o, t, v, {}) :
            o \in {"exists", "not_exists", "equals", "in"}, t \in Types, v \in {{}, {Number(1)}}}

Optional == {{}} \cup {{v} : v \in MCValues}

OneFilter ==
    [calls |-> {Call("traceloop", "search_traces", Unasked, <<f>>, 1, <<>>) : f \in EveryFilter}
               \cup {Call("traceloop", "search_spans", Unasked, <<f, f>>, 1, <<>>) :
                        f \in MCFilters},
     stores |-> {<<<<[Span(MCA, 1, {}, <<"s">>, <<"OK">>) EXCEPT !.attributes = Bearing(v)],
                     [Span(MCA, 2, {1}, <<"s">>, <<"OK">>) EXCEPT !.attributes = Bearing(w)]>>>> :
                   v \in Optional, w \in {{}, {Number(1)}, {Str(<<"a">>)}}}]

MCCases == {ByParams, ByFilters, Overrides, Overlaid, Alone, Many, Lookups, OneFilter}

\* Datadog's searches for traces by a list of statuses.
MCStatusLists ==
    {[calls |-> {Call("datadog", "search_traces", p, <<Filter("status", "in", "string", {}, {s})>>,
                      2, <<>>) :
                   p \in {Unasked, OfS}, s \in {<<Str(e)>> : e \in Statuses}},
      stores |-> Pairs]}

MCOddFields == {"odd"}
MCOddIds == {<<".">>}
MCOldName == [f \in {System} |-> OldSystem]
MCNewName == [f \in {OldSystem} |-> System]
=============================================================================
