------------------------- MODULE RegistryProcessor -------------------------
(***************************************************************************)
(* The registry processor (internal/etw/processors/registry_windows.go).   *)
(* A process sets a value under a key it has opened.  The kernel session   *)
(* reports RegSetValue with the address of the key's control block and     *)
(* without data, the telemetry session reports RegSetValueInternal with    *)
(* the data.  Each session delivers its events in order, late, and may     *)
(* drop some.  The processor keeps the internal event by process and value *)
(* name, pops it when RegSetValue comes, and reads the registry when there *)
(* is none.  Control blocks are created, deleted and their addresses used  *)
(* again.  A path is a key and a value name; the number of a write stands  *)
(* for its data.                                                           *)
(***************************************************************************)
EXTENDS Naturals, Sequences, FiniteSets

CONSTANTS
    RgWrites,   \* bound: values set
    RgPid,      \* processes
    RgKey,      \* names of keys
    RgName,     \* names of values
    RgEnds,     \* the pairs <<v, w>> of names such that v ends in w
    RgKcb,      \* addresses of key control blocks
    RgLosses    \* bound: events that are dropped

ASSUME RgAssumption ==
    /\ RgWrites \in Nat /\ RgLosses \in Nat
    /\ RgEnds \subseteq RgName \X RgName /\ \A v \in RgName : <<v, v>> \in RgEnds

VARIABLES
    kcb,        \* address -> key, of the control blocks of the system
    written,    \* the writes so far: [pid, key, name]
    kernel,     \* events on their way in the kernel session
    telemetry,  \* writes on their way in the telemetry session
    keys,       \* address -> key, as the processor knows
    values,     \* process -> (value name -> [of, old])
    known,      \* write -> path that its RegSetValue event was given, partial:
                \* without one it keeps a relative name
    data,       \* write -> write whose data its RegSetValue event got, partial
    rgLost,     \* history: events dropped
    displaced,  \* history: writes whose internal event was replaced or evicted
    late,       \* history: writes whose internal event came after the other
    read,       \* history: writes whose data was read from the registry
    guessed     \* history: writes whose path is that of a handle

rgHistory == <<rgLost, displaced, late, read, guessed>>
rgVars == <<kcb, written, kernel, telemetry, keys, values, known, data, rgHistory>>

Delete(f, x) == [y \in DOMAIN f \ {x} |-> f[y]]
Put(f, x, v) == [y \in DOMAIN f \cup {x} |-> IF y = x THEN v ELSE f[y]]

RgInit ==
    /\ kcb = <<>> /\ written = <<>> /\ kernel = <<>> /\ telemetry = <<>>
    /\ keys = <<>> /\ values = <<>> /\ known = <<>> /\ data = <<>>
    /\ rgLost = {} /\ displaced = {} /\ late = {} /\ read = {} /\ guessed = {}
-----------------------------------------------------------------------------
\* The system.
Report(e) == kernel' = Append(kernel, e)

CreateKey(a, k) ==
    /\ a \notin DOMAIN kcb /\ Len(kernel) < 2
    /\ \A b \in DOMAIN kcb : kcb[b] # k
    /\ kcb' = Put(kcb, a, k)
    /\ Report([kind |-> "create", kcb |-> a, key |-> k, of |-> 0])
    /\ UNCHANGED <<written, telemetry, keys, values, known, data, rgHistory>>

DeleteKey(a) ==
    /\ a \in DOMAIN kcb /\ Len(kernel) < 2
    /\ kcb' = Delete(kcb, a)
    /\ Report([kind |-> "delete", kcb |-> a, key |-> kcb[a], of |-> 0])
    /\ UNCHANGED <<written, telemetry, keys, values, known, data, rgHistory>>

SetValue(p, a, v) ==
    /\ a \in DOMAIN kcb /\ Len(written) < RgWrites
    /\ LET n == Len(written) + 1 IN
       /\ written' = Append(written, [pid |-> p, key |-> kcb[a], name |-> v])
       /\ Report([kind |-> "set", kcb |-> a, key |-> kcb[a], of |-> n])
       /\ telemetry' = Append(telemetry, n)
    /\ UNCHANGED <<kcb, keys, values, known, data, rgHistory>>

Path(n) == [key |-> written[n].key, name |-> written[n].name]

\* Write m has left the data that the registry holds under path x.
Latest(m, x) == Path(m) = x /\ \A j \in DOMAIN written : Path(j) = x => j <= m

LoseKernel ==
    /\ kernel # <<>> /\ Cardinality(rgLost) < RgLosses
    /\ rgLost' = rgLost \cup {Head(kernel)}
    /\ kernel' = Tail(kernel)
    /\ UNCHANGED <<kcb, written, telemetry, keys, values, known, data, displaced, late, read, guessed>>

LoseTelemetry ==
    /\ telemetry # <<>> /\ Cardinality(rgLost) < RgLosses
    /\ rgLost' = rgLost \cup {[kind |-> "internal", of |-> Head(telemetry)]}
    /\ telemetry' = Tail(telemetry)
    /\ UNCHANGED <<kcb, written, kernel, keys, values, known, data, displaced, late, read, guessed>>
-----------------------------------------------------------------------------
KeysOnce(e) ==
    IF e.kind = "create" /\ e.kcb \notin DOMAIN keys THEN Put(keys, e.kcb, e.key) ELSE keys

KeysAfter(e) ==
    IF e.kind = "create" THEN Put(keys, e.kcb, e.key) ELSE Delete(keys, e.kcb)

\* RegCreateKCB, or RegKCBRundown, and RegDeleteKCB.
ProcessKcb ==
    /\ kernel # <<>> /\ Head(kernel).kind # "set"
    /\ keys' = KeysAfter(Head(kernel))
    /\ kernel' = Tail(kernel)
    /\ UNCHANGED <<kcb, written, telemetry, values, known, data, rgHistory>>

Pending == {w.of : w \in UNION {{values[p][v] : v \in DOMAIN values[p]} : p \in DOMAIN values}}
OfProcess(p) == IF p \in DOMAIN values THEN {values[p][v].of : v \in DOMAIN values[p]} ELSE {}

KeyedByName(n) ==
    values' = [p \in RgPid |-> [v \in {written[n].name} |-> [of |-> n, old |-> FALSE]]]

\* pushSetValue: a map with this event replaces the one of the process.
PushSetValue(n) ==
    values' = Put(values, written[n].pid,
                  [v \in {written[n].name} |-> [of |-> n, old |-> FALSE]])

ProcessInternal ==
    /\ telemetry # <<>>
    /\ PushSetValue(Head(telemetry))
    /\ telemetry' = Tail(telemetry)
    /\ displaced' = displaced \cup OfProcess(written[Head(telemetry)].pid)
    /\ UNCHANGED <<kcb, written, kernel, keys, known, data, rgLost, late, read, guessed>>

Has(p, v) == p \in DOMAIN values /\ v \in DOMAIN values[p]

LeaveValue(p, v) == values
RemoveValue(p, v) == [values EXCEPT ![p] = Delete(@, v)]

\* findMatchingKey: the path of a key handle of the process that ends in the
\* relative name, the right one or not; or none, or the query is throttled.
FindMatchingKey(n) ==
    \/ UNCHANGED <<known, guessed>>
    \/ /\ \E k \in RgKey, v \in RgName :
             /\ <<v, written[n].name>> \in RgEnds
             /\ known' = Put(known, n, [key |-> k, name |-> v])
       /\ guessed' = guessed \cup {n}

\* The path of event e: with a key handle of zero it has the full one, else
\* its control block gives the key, and without one the handles are searched.
ResolveKey(e) ==
    \/ known' = Put(known, e.of, Path(e.of)) /\ UNCHANGED guessed
    \/ /\ e.kcb \in DOMAIN keys
       /\ known' = Put(known, e.of, [key |-> keys[e.kcb], name |-> written[e.of].name])
       /\ UNCHANGED guessed
    \/ e.kcb \notin DOMAIN keys /\ FindMatchingKey(e.of)

\* The value name in the path that f gives write n.
Named(f, n) == IF n \in DOMAIN f THEN f[n].name ELSE written[n].name

\* The value is read under the path the event was given, whichever that is.
ReadValue(n, x) ==
    /\ \E m \in DOMAIN written : Latest(m, x) /\ data' = Put(data, n, m)
    /\ read' = read \cup {n}

\* RegSetValue takes the data of the internal event that waits under the name
\* in its path; without one the value is read back, which may fail.
ProcessSet ==
    /\ kernel # <<>> /\ Head(kernel).kind = "set"
    /\ ResolveKey(Head(kernel))
    /\ LET n == Head(kernel).of
           p == written[n].pid
           v == Named(known', n) IN
       \/ /\ Has(p, v)
          /\ data' = Put(data, n, values[p][v].of)
          /\ values' = RemoveValue(p, v)
          /\ UNCHANGED read
       \/ /\ ~Has(p, v)
          /\ UNCHANGED <<data, read>> \/ (n \in DOMAIN known' /\ ReadValue(n, known'[n]))
          /\ UNCHANGED values
    /\ late' = late \cup ({Head(kernel).of} \cap {telemetry[i] : i \in DOMAIN telemetry})
    /\ kernel' = Tail(kernel)
    /\ UNCHANGED <<kcb, written, telemetry, keys, rgLost, displaced>>
-----------------------------------------------------------------------------
\* Two minutes pass for a pending event; the housekeeper evicts it, and maps
\* that are empty, at its next tick.
Expire(p, v) ==
    /\ p \in DOMAIN values /\ v \in DOMAIN values[p] /\ ~values[p][v].old
    /\ values' = [values EXCEPT ![p][v].old = TRUE]
    /\ UNCHANGED <<kcb, written, kernel, telemetry, keys, known, data, rgHistory>>

Fresh(m) == [v \in {w \in DOMAIN m : ~m[w].old} |-> m[v]]

Housekeep ==
    /\ values' = [p \in {q \in DOMAIN values : DOMAIN Fresh(values[q]) # {}} |-> Fresh(values[p])]
    /\ values' # values
    /\ displaced' = displaced \cup (Pending \
          {w.of : w \in UNION {{values'[p][v] : v \in DOMAIN values'[p]} : p \in DOMAIN values'}})
    /\ UNCHANGED <<kcb, written, kernel, telemetry, keys, known, data, rgLost, late, read, guessed>>

RgNext ==
    \/ \E a \in RgKcb : DeleteKey(a) \/ \E k \in RgKey : CreateKey(a, k)
    \/ \E p \in RgPid, a \in RgKcb, v \in RgName : SetValue(p, a, v)
    \/ LoseKernel \/ LoseTelemetry
    \/ ProcessKcb \/ ProcessInternal \/ ProcessSet
    \/ \E p \in RgPid, v \in RgName : Expire(p, v)
    \/ Housekeep

RgSpec == RgInit /\ [][RgNext]_rgVars
-----------------------------------------------------------------------------
\* A RegSetValue event gets the data that was written.  It gets that of another
\* write only when its internal event was dropped, comes later, was evicted or
\* replaced by the next one of the process, was taken by another RegSetValue
\* event, or waits under another name than the one in the path of the event.
\* Then it is data of the same process and of the name in the path, or what
\* the registry holds under that very path, left by a later write if the path
\* is the right one.
RgOwnData ==
    \A n \in DOMAIN data : data[n] # n =>
        /\ IF n \in read
           THEN known[n] = Path(data[n]) /\ (known[n] = Path(n) => data[n] > n)
           ELSE /\ written[n].pid = written[data[n]].pid
                /\ written[data[n]].name = Named(known, n)
        /\ \/ [kind |-> "internal", of |-> n] \in rgLost
           \/ n \in displaced \/ n \in late \/ Named(known, n) # written[n].name
           \/ \E m \in DOMAIN data : m # n /\ data[m] = n

\* An internal event enriches one RegSetValue event at most: popSetValue takes
\* it out of the map.
RgPoppedOnce ==
    \A n, m \in DOMAIN data \ read : data[n] = data[m] => n = m

\* The path an event is given is the one it was set under.  It is another only
\* when the event that created the control block of its key was dropped; then
\* it is the path of a handle, or the key that had the control block before and
\* whose delete event was dropped too.
RgOwnKey ==
    \A n \in DOMAIN known : known[n] # Path(n) =>
        /\ \E e \in rgLost : e.kind = "create" /\ e.key = written[n].key
        /\ \/ n \in guessed
           \/ /\ known[n].name = written[n].name
              /\ \E e \in rgLost : e.kind = "delete" /\ e.key = known[n].key

\* A RegSetValue event gets the path and the data of its own write, and no data
\* goes to two events, but for the faults that the parts name.
RgAttributed == RgOwnData /\ RgPoppedOnce /\ RgOwnKey
=============================================================================
