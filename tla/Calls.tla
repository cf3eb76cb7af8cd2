--------------------------------- MODULE Calls ---------------------------------
(***************************************************************************)
(* A call of a backend's method, and the service behind it: what the       *)
(* contract and the backends have in common.                               *)
(*                                                                         *)
(* The service holds traces, each a sequence of spans with                 *)
(*   id, trace, parent, service, operation, start, duration, attributes    *)
(*   status  what it calls the status, UNSET if it has none                *)
(*   hint    what else tells the status: at most one                       *)
(*   sound   whether all that a parser insists on is there                 *)
(*   thin    whether its lookup by trace id leaves out attributes and      *)
(*           status, which a search returns                                *)
(***************************************************************************)
EXTENDS Filters

CONSTANTS
    Cases,         \* sets of calls [backend, op, params, filters, limit,
                   \* subject] and of the stores they are made on
    MaxQueryLimit, \* max_query_limit
    OddFields,     \* names of fields that no query language can express
    OddIds         \* what a request for a trace cannot name

Methods ==
    {"search_traces", "search_spans", "get_trace", "list_services", "operations",
     "health_check"}

IsValue(v) ==
    /\ v = [type |-> v.type, text |-> v.text, reads |-> v.reads, number |-> v.number,
            spelled |-> v.spelled]
    /\ v.number \in Int

IsFilter(f) ==
    /\ f = [field |-> f.field, operator |-> f.operator, type |-> f.type, value |-> f.value,
            values |-> f.values]
    /\ f.type \in {"number", "string", "boolean"}
    /\ \A v \in f.value : IsValue(v)
    /\ \A s \in f.values : \A i \in DOMAIN s : IsValue(s[i])

\* The parameters of a query that become filters.
IsParams(p) ==
    /\ p = [service |-> p.service, operation |-> p.operation, least |-> p.least,
            most |-> p.most, hasError |-> p.hasError, system |-> p.system,
            requestModel |-> p.requestModel, responseModel |-> p.responseModel,
            tags |-> p.tags]
    /\ \A o \in {p.least, p.most} : \A a, b \in o : a = b
    /\ p.hasError \in {{}, {TRUE}, {FALSE}}
    /\ p.tags \in Seq(ToSet(p.tags))

IsSpan(s) ==
    /\ s = [id |-> s.id, trace |-> s.trace, parent |-> s.parent, service |-> s.service,
            operation |-> s.operation, start |-> s.start, duration |-> s.duration,
            attributes |-> s.attributes, status |-> s.status, hint |-> s.hint,
            sound |-> s.sound, thin |-> s.thin]
    /\ s.start \in Int /\ s.duration \in Int
    /\ \A a \in DOMAIN s.attributes : \A v \in s.attributes[a] : IsValue(v)

\* A trace has an id of its own, and so has a span within its trace.
OwnIds(traces) ==
    \A t, u \in DOMAIN traces : \A i \in DOMAIN traces[t], j \in DOMAIN traces[u] :
        /\ traces[t][i].trace = traces[u][j].trace <=> t = u
        /\ t = u /\ traces[t][i].id = traces[u][j].id => i = j

ASSUME CallsAssumption ==
    /\ MaxQueryLimit \in Nat \ {0}
    /\ \A c \in Cases :
        /\ \A k \in c.calls :
            /\ k.op \in Methods
            /\ k.limit \in Nat \ {0}
            /\ k.filters \in Seq(ToSet(k.filters)) /\ \A f \in ToSet(k.filters) : IsFilter(f)
            /\ IsParams(k.params)
        /\ \A traces \in c.stores :
            /\ traces \in Seq(ToSet(traces))
            /\ \A trace \in ToSet(traces) :
                /\ trace \in Seq(ToSet(trace)) \ {<<>>}
                /\ \A s \in ToSet(trace) : IsSpan(s)
            /\ OwnIds(traces)

VARIABLES
    store, \* the traces
    call   \* the method called and its arguments
-----------------------------------------------------------------------------
(* The service.                                                            *)

Spans == FlattenSeq(store)

OfTrace(spans, id) == Among(spans, {s \in ToSet(spans) : s.trace = id})

\* A condition of a query on one span: a span without the field satisfies the
\* negative ones.  What has no status has no value for it.
Holds(s, f) ==
    LET vs == IF f.field = "status" /\ s.status = <<"UNSET">> THEN {}
              ELSE SpanValues(s, f.field)
    IN  Satisfied(vs, f) \/ (vs = {} /\ f.operator \in Negative)
-----------------------------------------------------------------------------
(* Queries.                                                                *)

IsSearch == call.op \in {"search_traces", "search_spans"}

\* mutant: the caller's limit is taken as it is
Limit_Asked == call.limit

\* _wrap_with_query_limit
Limit == Min({call.limit, MaxQueryLimit})

ValidQuery ==
    /\ Len(call.filters) <= MaxFilters
    /\ \A i \in DOMAIN call.filters : Accepted(call.filters[i])

\* get_all_filters
AllFilters ==
    Converted(call.params)
    \o [i \in DOMAIN call.filters |-> Normalized(call.filters[i])]

\* What several backends can express: nine operators, a range over numbers.
CommonOperators ==
    {"equals", "not_equals", "gt", "lt", "gte", "lte", "exists", "not_exists", "in"}

Expressible(f) ==
    /\ f.field \notin OddFields
    /\ f.operator \in {"gt", "lt", "gte", "lte"} => Operand(f).type \in {"int", "float"}
=============================================================================
