----------------------------- MODULE ValuerPool -----------------------------
(***************************************************************************)
(* The values a condition is evaluated with (mapValuer and RunSequence in  *)
(* pkg/filter/filter.go).  They are in a map that is taken from a pool and *)
(* still holds what an earlier evaluation, of any filter on any event, has *)
(* put there; only sequences give their map back.  Four fields stand for   *)
(* the ways accessors answer: evt.pid is in every event, ps.name is nil    *)
(* without a process state, registry.path is in every registry event, and  *)
(* file.io.size is missing in some file events, in which case its accessor *)
(* returns a zero together with the error that it was not found.           *)
(***************************************************************************)
EXTENDS Naturals, FiniteSets

CONSTANTS
    VpThread,   \* goroutines that evaluate conditions
    VpMaps,     \* bound: maps in use or in the pool
    VpEvent,    \* events: [id, category, ps, size], ids are not 0
    VpFilter    \* filters: [fields, seq]

VARIABLES
    pool,       \* valuerPool
    running     \* goroutine -> <<[f, e, valuer]>> while it evaluates, or <<>>

vpVars == <<pool, running>>

\* The fields of the accessors.
FieldsOf == [evt |-> {"evt.pid"}, ps |-> {"ps.name"}, file |-> {"file.io.size"},
            registry |-> {"registry.path"}]

\* narrowAccessors: the accessors that the fields of the filter need.
Narrowed(f) == {a \in DOMAIN FieldsOf : FieldsOf[a] \cap f.fields # {}}

IsFieldAccessible(a, e) ==
    \/ a = "evt"
    \/ a = "ps" /\ (e.ps \/ e.category = "process")
    \/ a = e.category

\* Accessor.Get: "value", "nil" or "zero", a value with ErrParamNotFound.
Get(a, x, e) ==
    IF x \notin FieldsOf[a] \/ (x = "ps.name" /\ ~e.ps) THEN "nil"
    ELSE IF x = "file.io.size" /\ ~e.size THEN "zero"
    ELSE "value"

Answers(f, e, x) == {Get(a, x, e) : a \in {b \in Narrowed(f) : IsFieldAccessible(b, e)}}

NoDefault(f, e, x) == {e.id : y \in Answers(f, e, x) \cap {"value"}}

\* What the loop over the accessors writes for a field, if it does: the value,
\* which ends the loop, or else the default.  The id of an event stands for its
\* values, 0 for defaults.
Written(f, e, x) ==
    IF "value" \in Answers(f, e, x) THEN {e.id}
    ELSE IF "nil" \in Answers(f, e, x) THEN {0}
    ELSE {}

MapValuer(f, e, m) ==
    LET new == {x \in f.fields : Written(f, e, x) # {}} IN
    [x \in DOMAIN m \cup new |-> IF x \in new THEN CHOOSE v \in Written(f, e, x) : TRUE ELSE m[x]]

NoValues == [x \in {} |-> 0]

VpInit == pool = {} /\ running = [t \in VpThread |-> <<>>]

InUse == {t \in VpThread : running[t] # <<>>}

\* Run and RunSequence take a map from the pool or a new one and fill it.
Evaluate(t, f, e) ==
    /\ running[t] = <<>>
    /\ \E m \in pool \cup (IF Cardinality(pool) + Cardinality(InUse) < VpMaps THEN {NoValues} ELSE {}) :
         /\ pool' = pool \ {m}
         /\ running' = [running EXCEPT ![t] = <<[f |-> f, e |-> e, valuer |-> MapValuer(f, e, m)]>>]

\* The deferred Put of RunSequence; Run has none.
Evaluated(t) ==
    /\ running[t] # <<>>
    /\ pool' = IF running[t][1].f.seq THEN pool \cup {running[t][1].valuer} ELSE pool
    /\ running' = [running EXCEPT ![t] = <<>>]

VpNext ==
    \E t \in VpThread :
        \/ \E f \in VpFilter, e \in VpEvent : Evaluate(t, f, e)
        \/ Evaluated(t)

VpSpec == VpInit /\ [][VpNext]_vpVars
-----------------------------------------------------------------------------
\* A condition with a field of every event, such as evt.name, is evaluated with
\* the values of its own event and with defaults, whatever earlier evaluations
\* have left in the map (mapValuer writes every field; the accessor of evt
\* fields, which has no other field, makes it write a default).
VpOwnValues ==
    \A t \in InUse : LET r == running[t][1] IN
        "evt.pid" \in r.f.fields =>
            \A x \in r.f.fields : x \in DOMAIN r.valuer /\ r.valuer[x] \in {0, r.e.id}
=============================================================================
