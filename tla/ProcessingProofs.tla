-------------------------- MODULE ProcessingProofs --------------------------
(***************************************************************************)
(* Proofs about components that an event passes between the consumer and   *)
(* an alert: the values of conditions, the registry processor, the process *)
(* snapshotter, the symbolizer, the file system processor and the YARA     *)
(* scanner.                                                                *)
(***************************************************************************)
EXTENDS ValuerPool, RegistryProcessor, Snapshotters, Symbolizer, FsProcessor, YaraScanner,
        TLAPS, FiniteSetTheorems

-----------------------------------------------------------------------------
(* The values of conditions *)

\* What an evaluation runs with is what mapValuer made of a map of the pool.
VpFilled ==
    /\ running = [t \in VpThread |-> running[t]]
    /\ \A t \in VpThread : running[t] # <<>> =>
          \E f, e, m : running[t] = <<[f |-> f, e |-> e, valuer |-> MapValuer(f, e, m)]>>

\* The accessor of evt fields answers for every field, if the filter has one of
\* its own: mapValuer writes each field, the value of the event or a default.
LEMMA EveryFieldWritten ==
    ASSUME NEW f, NEW e, NEW m, "evt.pid" \in f.fields, NEW x \in f.fields
    PROVE  /\ x \in DOMAIN MapValuer(f, e, m)
           /\ MapValuer(f, e, m)[x] \in {0, e.id}
<1>1. "evt" \in Narrowed(f) /\ IsFieldAccessible("evt", e)
  BY DEF Narrowed, FieldsOf, IsFieldAccessible
<1>2. Get("evt", x, e) \in {"value", "nil"}
  BY DEF Get, FieldsOf
<1>3. Get("evt", x, e) \in Answers(f, e, x)
  BY <1>1 DEF Answers
<1>4. Written(f, e, x) = {e.id} \/ Written(f, e, x) = {0}
  BY <1>2, <1>3 DEF Written
<1>5. PICK w : w \in {0, e.id} /\ Written(f, e, x) = {w}
  BY <1>4
<1>6. (CHOOSE v \in Written(f, e, x) : TRUE) = w
  BY <1>5
<1>7. x \in {y \in f.fields : Written(f, e, y) # {}}
  BY <1>5
<1> QED
  BY <1>5, <1>6, <1>7 DEF MapValuer

\* A condition with a field of every event is evaluated with values of its own
\* event and with defaults, whatever earlier evaluations of any filter left in
\* the pooled map (mapValuer), for all filters, events and goroutines.
THEOREM OwnValues == VpSpec => []VpOwnValues
<1>1. VpInit => VpFilled
  BY DEF VpInit, VpFilled
<1>2. VpFilled /\ [VpNext]_vpVars => VpFilled'
  <2>0. ASSUME VpFilled, [VpNext]_vpVars
        PROVE  running' = [t \in VpThread |-> running'[t]]
    BY <2>0 DEF VpFilled, VpNext, Evaluate, Evaluated, vpVars
  <2> SUFFICES ASSUME VpFilled, [VpNext]_vpVars, NEW t \in VpThread, running'[t] # <<>>
               PROVE  \E f, e, m : running'[t] =
                          <<[f |-> f, e |-> e, valuer |-> MapValuer(f, e, m)]>>
    BY <2>0 DEF VpFilled
  <2>1. CASE running'[t] = running[t]
    BY <2>1 DEF VpFilled
  <2>2. ASSUME NEW u \in VpThread, NEW f, NEW e, Evaluate(u, f, e), running'[t] # running[t]
        PROVE  \E m : running'[t] = <<[f |-> f, e |-> e, valuer |-> MapValuer(f, e, m)]>>
    <3>1. PICK m : running' = [running EXCEPT ![u] =
                                 <<[f |-> f, e |-> e, valuer |-> MapValuer(f, e, m)]>>]
      BY <2>2 DEF Evaluate
    <3> QED BY <2>2, <3>1 DEF VpFilled
  <2>3. ASSUME NEW u \in VpThread, Evaluated(u)
        PROVE  running'[t] = running[t]
    BY <2>3 DEF VpFilled, Evaluated
  <2>4. CASE UNCHANGED vpVars
    BY <2>1, <2>4 DEF vpVars
  <2> QED BY <2>1, <2>2, <2>3, <2>4 DEF VpNext
<1>3. VpFilled => VpOwnValues
  <2> SUFFICES ASSUME VpFilled, NEW t \in InUse, "evt.pid" \in running[t][1].f.fields,
                      NEW x \in running[t][1].f.fields
               PROVE  /\ x \in DOMAIN running[t][1].valuer
                      /\ running[t][1].valuer[x] \in {0, running[t][1].e.id}
    BY DEF VpOwnValues
  <2>1. PICK f, e, m : running[t] = <<[f |-> f, e |-> e, valuer |-> MapValuer(f, e, m)]>>
    BY DEF VpFilled, InUse
  <2>2. /\ running[t][1].f = f /\ running[t][1].e = e
        /\ running[t][1].valuer = MapValuer(f, e, m)
    BY <2>1
  <2> QED BY <2>2, EveryFieldWritten
<1> QED
  BY <1>1, <1>2, <1>3, PTL DEF VpSpec
-----------------------------------------------------------------------------
(* The registry processor *)

RgWrite == [pid : RgPid, key : RgKey, name : RgName]
RgEvent == [kind : {"create", "delete", "set"}, kcb : RgKcb, key : RgKey, of : Nat]

RgTyped ==
    /\ written \in Seq(RgWrite) /\ kernel \in Seq(RgEvent) /\ telemetry \in Seq(Nat)
    /\ DOMAIN kcb \subseteq RgKcb /\ \A a \in DOMAIN kcb : kcb[a] \in RgKey
    /\ DOMAIN data \subseteq DOMAIN written
    /\ read \subseteq DOMAIN data /\ read \subseteq DOMAIN known
    /\ \A n \in DOMAIN data : data[n] \in DOMAIN written

\* The RegSetValue events on their way are those of writes that have no data
\* yet, each of them once.
RgSets ==
    /\ \A i \in DOMAIN kernel : kernel[i].kind = "set" =>
          /\ kernel[i].of \in DOMAIN written \ DOMAIN data
          /\ kernel[i].key = written[kernel[i].of].key
    /\ \A i, j \in DOMAIN kernel :
          i # j /\ kernel[i].kind = "set" /\ kernel[j].kind = "set" =>
             kernel[i].of # kernel[j].of

Filed(w) == w = [of |-> w.of, old |-> w.old]

\* An internal event waits under the process and the value name of its write.
RgFiled ==
    \A p \in DOMAIN values : \A v \in DOMAIN values[p] :
        /\ Filed(values[p][v])
        /\ values[p][v].of \in DOMAIN written
        /\ written[values[p][v].of].pid = p
        /\ written[values[p][v].of].name = v

Untaken(m) == \A n \in DOMAIN data \ read : data[n] # m

\* An internal event is on its way, waits, or was popped, and only once.
RgOnePlace ==
    /\ \A i \in DOMAIN telemetry : telemetry[i] \in DOMAIN written /\ Untaken(telemetry[i])
    /\ \A i, j \in DOMAIN telemetry : i # j => telemetry[i] # telemetry[j]
    /\ \A p \in DOMAIN values : \A v \in DOMAIN values[p] :
          /\ Untaken(values[p][v].of)
          /\ \A i \in DOMAIN telemetry : telemetry[i] # values[p][v].of

Waits(n) ==
    /\ Has(written[n].pid, written[n].name)
    /\ values[written[n].pid][written[n].name].of = n

Faulty(n) ==
    \/ [kind |-> "internal", of |-> n] \in rgLost
    \/ n \in displaced \/ n \in late

Taken(n) == \E m \in DOMAIN data : data[m] = n

\* No internal event disappears without a trace.
RgTracked ==
    \A n \in DOMAIN written :
        (\E i \in DOMAIN telemetry : telemetry[i] = n) \/ Waits(n) \/ Faulty(n) \/ Taken(n)

RgDataInv ==
    /\ RgTyped /\ RgSets /\ RgFiled /\ RgOnePlace /\ RgTracked
    /\ RgOwnData /\ RgPoppedOnce

LEMMA TailAt ==
    ASSUME NEW S, NEW s \in Seq(S), s # <<>>
    PROVE  /\ Tail(s) \in Seq(S) /\ 1 \in DOMAIN s /\ Head(s) = s[1]
           /\ \A i \in DOMAIN Tail(s) : i \in Nat \ {0} /\ i + 1 \in DOMAIN s /\ Tail(s)[i] = s[i + 1]
           /\ \A i \in DOMAIN s : i # 1 =>
                 i - 1 \in DOMAIN Tail(s) /\ Tail(s)[i - 1] = s[i]
OBVIOUS

LEMMA AppendAt ==
    ASSUME NEW S, NEW s \in Seq(S), NEW x \in S
    PROVE  /\ Append(s, x) \in Seq(S)
           /\ DOMAIN Append(s, x) = DOMAIN s \cup {Len(s) + 1} /\ Len(s) + 1 \notin DOMAIN s
           /\ \A i \in DOMAIN s : Append(s, x)[i] = s[i]
           /\ Append(s, x)[Len(s) + 1] = x
OBVIOUS

LEMMA RgInitInv == RgInit => RgDataInv
<1> SUFFICES ASSUME RgInit PROVE RgDataInv
  OBVIOUS
<1>0. /\ written = <<>> /\ kernel = <<>> /\ telemetry = <<>> /\ data = <<>> /\ values = <<>>
      /\ kcb = <<>> /\ read = {} /\ known = <<>>
  BY DEF RgInit
<1>1. DOMAIN written = {} /\ DOMAIN kernel = {} /\ DOMAIN telemetry = {} /\ DOMAIN data = {}
      /\ DOMAIN values = {} /\ DOMAIN kcb = {}
  BY <1>0
<1>2. RgTyped
  BY <1>0, <1>1 DEF RgTyped
<1> QED
  BY <1>1, <1>2 DEF RgDataInv, RgSets, RgFiled, RgOnePlace, RgTracked, RgOwnData,
     RgPoppedOnce

\* Steps that change neither the writes nor what is known of their data.
LEMMA RgKernelOnly ==
    ASSUME RgDataInv,
           UNCHANGED <<written, telemetry, values, known, data, displaced, late, read>>,
           rgLost \subseteq rgLost',
           RgTyped', RgSets'
    PROVE  RgDataInv'
<1>1. RgFiled' /\ RgOnePlace'
  BY DEF RgDataInv, RgFiled, RgOnePlace, Untaken
<1>2. RgTracked'
  BY DEF RgDataInv, RgTracked, Waits, Has, Faulty, Taken
<1>3. RgOwnData' /\ RgPoppedOnce'
  BY DEF RgDataInv, RgOwnData, RgPoppedOnce, Path, Named
<1> QED
  BY <1>1, <1>2, <1>3 DEF RgDataInv

\* The head of the kernel session is taken.
LEMMA RgKernelTail ==
    ASSUME RgDataInv, kernel # <<>>, kernel' = Tail(kernel), UNCHANGED <<written, data>>
    PROVE  kernel' \in Seq(RgEvent) /\ RgSets'
<1>1. kernel \in Seq(RgEvent)
  BY DEF RgDataInv, RgTyped
<1>2. kernel' \in Seq(RgEvent)
  BY <1>1, TailAt
<1>3. \A i \in DOMAIN kernel' : i \in Nat \ {0} /\ i + 1 \in DOMAIN kernel /\ kernel'[i] = kernel[i + 1]
  BY <1>1, TailAt
<1>4. \A i, j \in DOMAIN kernel' : i # j => i + 1 # j + 1
  BY <1>3
<1>5. \A i \in DOMAIN kernel' : kernel'[i].kind = "set" =>
          /\ kernel'[i].of \in DOMAIN written \ DOMAIN data
          /\ kernel'[i].key = written[kernel'[i].of].key
  BY <1>3 DEF RgDataInv, RgSets
<1>6. \A i, j \in DOMAIN kernel' :
          i # j /\ kernel'[i].kind = "set" /\ kernel'[j].kind = "set" =>
             kernel'[i].of # kernel'[j].of
  BY <1>3, <1>4 DEF RgDataInv, RgSets
<1> QED
  BY <1>2, <1>5, <1>6 DEF RgSets

LEMMA RgKeyStep ==
    ASSUME RgDataInv,
           \/ \E a \in RgKcb : DeleteKey(a) \/ \E k \in RgKey : CreateKey(a, k)
           \/ LoseKernel \/ ProcessKcb
    PROVE  RgDataInv'
<1>0. /\ kernel \in Seq(RgEvent) /\ DOMAIN kcb \subseteq RgKcb
      /\ \A a \in DOMAIN kcb : kcb[a] \in RgKey
  BY DEF RgDataInv, RgTyped
<1>1. ASSUME NEW x \in RgEvent, x.kind # "set", kernel' = Append(kernel, x),
             UNCHANGED <<written, telemetry, values, known, data, rgHistory>>,
             DOMAIN kcb' \subseteq RgKcb, \A a \in DOMAIN kcb' : kcb'[a] \in RgKey
      PROVE  RgDataInv'
  <2>1. /\ kernel' \in Seq(RgEvent)
        /\ \A i \in DOMAIN kernel' : kernel'[i].kind = "set" =>
              i \in DOMAIN kernel /\ kernel'[i] = kernel[i]
    BY <1>0, <1>1, AppendAt
  <2>2. RgTyped'
    BY <1>1, <2>1 DEF RgDataInv, RgTyped, rgHistory
  <2>3. RgSets'
    BY <1>1, <2>1 DEF RgDataInv, RgSets
  <2> QED BY <1>1, <2>2, <2>3, RgKernelOnly DEF rgHistory
<1>2. ASSUME NEW a \in RgKcb, DeleteKey(a)
      PROVE  RgDataInv'
  <2>1. PICK x : x = [kind |-> "delete", kcb |-> a, key |-> kcb[a], of |-> 0]
    OBVIOUS
  <2>2. x \in RgEvent /\ x.kind # "set"
    BY <1>0, <1>2, <2>1 DEF DeleteKey, RgEvent
  <2>3. kernel' = Append(kernel, x)
    BY <1>2, <2>1 DEF DeleteKey, Report
  <2>4. DOMAIN kcb' \subseteq RgKcb /\ \A b \in DOMAIN kcb' : kcb'[b] \in RgKey
    BY <1>0, <1>2 DEF DeleteKey, Delete
  <2>5. UNCHANGED <<written, telemetry, values, known, data, rgHistory>>
    BY <1>2 DEF DeleteKey
  <2> QED BY <1>1, <2>2, <2>3, <2>4, <2>5
<1>3. ASSUME NEW a \in RgKcb, NEW k \in RgKey, CreateKey(a, k)
      PROVE  RgDataInv'
  <2>1. PICK x : x = [kind |-> "create", kcb |-> a, key |-> k, of |-> 0]
    OBVIOUS
  <2>2. x \in RgEvent /\ x.kind # "set"
    BY <2>1 DEF RgEvent
  <2>3. kernel' = Append(kernel, x)
    BY <1>3, <2>1 DEF CreateKey, Report
  <2>4. DOMAIN kcb' \subseteq RgKcb /\ \A b \in DOMAIN kcb' : kcb'[b] \in RgKey
    BY <1>0, <1>3 DEF CreateKey, Put
  <2>5. UNCHANGED <<written, telemetry, values, known, data, rgHistory>>
    BY <1>3 DEF CreateKey
  <2> QED BY <1>1, <2>2, <2>3, <2>4, <2>5
<1>4. CASE LoseKernel \/ ProcessKcb
  <2>1. /\ kernel # <<>> /\ kernel' = Tail(kernel)
        /\ UNCHANGED <<kcb, written, telemetry, values, known, data, displaced, late, read>>
        /\ rgLost \subseteq rgLost'
    BY <1>4 DEF LoseKernel, ProcessKcb, rgHistory
  <2>2. kernel' \in Seq(RgEvent) /\ RgSets'
    BY <2>1, RgKernelTail
  <2>3. RgTyped'
    BY <2>1, <2>2 DEF RgDataInv, RgTyped
  <2> QED BY <2>1, <2>2, <2>3, RgKernelOnly
<1> QED
  BY <1>2, <1>3, <1>4

LEMMA RgSetStep ==
    ASSUME RgDataInv, NEW p \in RgPid, NEW a \in RgKcb, NEW v \in RgName, SetValue(p, a, v)
    PROVE  RgDataInv'
<1>0. /\ written \in Seq(RgWrite) /\ kernel \in Seq(RgEvent) /\ telemetry \in Seq(Nat)
      /\ a \in DOMAIN kcb /\ kcb[a] \in RgKey
  BY DEF RgDataInv, RgTyped, SetValue
<1>1. PICK n, w, x : /\ n = Len(written) + 1
                     /\ w = [pid |-> p, key |-> kcb[a], name |-> v]
                     /\ x = [kind |-> "set", kcb |-> a, key |-> kcb[a], of |-> n]
  OBVIOUS
<1>2. /\ written' = Append(written, w) /\ kernel' = Append(kernel, x)
      /\ telemetry' = Append(telemetry, n)
      /\ UNCHANGED <<kcb, keys, values, known, data, rgLost, displaced, late, read>>
  BY <1>1 DEF SetValue, Report, rgHistory
<1>3. n \in Nat /\ w \in RgWrite /\ x \in RgEvent
  BY <1>0, <1>1 DEF RgWrite, RgEvent
<1>4. /\ written' \in Seq(RgWrite) /\ DOMAIN written' = DOMAIN written \cup {n}
      /\ n \notin DOMAIN written /\ written'[n] = w
      /\ \A m \in DOMAIN written : written'[m] = written[m]
  BY <1>0, <1>1, <1>2, <1>3, AppendAt
<1>5. /\ kernel' \in Seq(RgEvent)
      /\ \A i \in DOMAIN kernel : i \in DOMAIN kernel' /\ kernel'[i] = kernel[i]
      /\ \A i \in DOMAIN kernel' : i \in DOMAIN kernel \/ (i = Len(kernel) + 1 /\ kernel'[i] = x)
  BY <1>0, <1>2, <1>3, AppendAt
<1>6. /\ telemetry' \in Seq(Nat)
      /\ \A i \in DOMAIN telemetry : i \in DOMAIN telemetry' /\ telemetry'[i] = telemetry[i]
      /\ \A i \in DOMAIN telemetry' :
            i \in DOMAIN telemetry \/ (i = Len(telemetry) + 1 /\ telemetry'[i] = n)
      /\ \E i \in DOMAIN telemetry' : telemetry'[i] = n
  BY <1>0, <1>2, <1>3, AppendAt
<1>7. /\ DOMAIN data \subseteq DOMAIN written
      /\ \A m \in DOMAIN data : data[m] \in DOMAIN written
  BY DEF RgDataInv, RgTyped
<1>8. RgTyped'
  BY <1>2, <1>4, <1>5, <1>6 DEF RgDataInv, RgTyped
<1>9. RgSets'
  <2>1. x.kind = "set" /\ x.of = n /\ x.key = w.key
    BY <1>1
  <2>2. \A i \in DOMAIN kernel : kernel[i].kind = "set" =>
            /\ kernel[i].of \in DOMAIN written /\ kernel[i].of \notin DOMAIN data
            /\ kernel[i].key = written[kernel[i].of].key
    BY DEF RgDataInv, RgSets
  <2>3. \A i \in DOMAIN kernel' : kernel'[i].kind = "set" =>
            /\ kernel'[i].of \in DOMAIN written' \ DOMAIN data'
            /\ kernel'[i].key = written'[kernel'[i].of].key
    BY <1>2, <1>4, <1>5, <1>7, <2>1, <2>2
  <2>4. \A i, j \in DOMAIN kernel' :
            i # j /\ kernel'[i].kind = "set" /\ kernel'[j].kind = "set" =>
               kernel'[i].of # kernel'[j].of
    BY <1>4, <1>5, <2>1, <2>2 DEF RgDataInv, RgSets
  <2> QED BY <2>3, <2>4 DEF RgSets
<1>10. RgFiled'
  BY <1>2, <1>4 DEF RgDataInv, RgFiled
<1>11. Untaken(n)
  BY <1>4, <1>7 DEF Untaken
<1>12. RgOnePlace'
  <2>1. \A y : Untaken(y) => Untaken(y)'
    BY <1>2 DEF Untaken
  <2>2. \A i \in DOMAIN telemetry' :
            telemetry'[i] \in DOMAIN written' /\ Untaken(telemetry'[i])
    BY <1>4, <1>6, <1>11 DEF RgDataInv, RgOnePlace
  <2>3. \A i \in DOMAIN telemetry : telemetry[i] # n
    BY <1>4 DEF RgDataInv, RgOnePlace
  <2>4. \A i, j \in DOMAIN telemetry' : i # j => telemetry'[i] # telemetry'[j]
    BY <1>6, <2>3 DEF RgDataInv, RgOnePlace
  <2>5. \A q \in DOMAIN values' : \A u \in DOMAIN values'[q] :
            /\ Untaken(values[q][u].of)
            /\ \A i \in DOMAIN telemetry' : telemetry'[i] # values[q][u].of
    BY <1>2, <1>4, <1>6 DEF RgDataInv, RgOnePlace, RgFiled
  <2> QED BY <1>2, <2>2, <2>4, <2>5 DEF RgOnePlace, Untaken
<1>13. /\ \A j \in DOMAIN written : Path(j)' = Path(j)
       /\ \A j \in DOMAIN written : Named(known, j)' = Named(known, j)
  BY <1>2, <1>4 DEF Path, Named
<1>15. RgTracked'
  <2> SUFFICES ASSUME NEW m \in DOMAIN written'
               PROVE  \/ \E i \in DOMAIN telemetry' : telemetry'[i] = m
                      \/ Waits(m)' \/ Faulty(m)' \/ Taken(m)'
    BY DEF RgTracked, Waits, Has, Faulty, Taken
  <2>1. CASE m = n
    BY <1>6, <2>1
  <2>2. CASE m \in DOMAIN written
    BY <1>2, <1>4, <1>6, <2>2 DEF RgDataInv, RgTracked, Waits, Has, Faulty, Taken
  <2> QED BY <1>4, <2>1, <2>2
<1>16. RgOwnData'
  <2> SUFFICES ASSUME NEW j \in DOMAIN data, data[j] # j
               PROVE  /\ IF j \in read
                         THEN known[j] = Path(data[j])' /\ (known[j] = Path(j)' => data[j] > j)
                         ELSE /\ written'[j].pid = written'[data[j]].pid
                              /\ written'[data[j]].name = Named(known, j)'
                      /\ \/ [kind |-> "internal", of |-> j] \in rgLost
                         \/ j \in displaced \/ j \in late \/ Named(known, j)' # written'[j].name
                         \/ \E m \in DOMAIN data : m # j /\ data[m] = j
    BY <1>2 DEF RgOwnData, Path
  <2>1. /\ j \in DOMAIN written /\ data[j] \in DOMAIN written
        /\ written'[j] = written[j] /\ written'[data[j]] = written[data[j]]
    BY <1>4, <1>7
  <2>2. Path(j)' = Path(j) /\ Named(known, j)' = Named(known, j)
    BY <1>13, <2>1
  <2>3. Path(data[j])' = Path(data[j])
    BY <1>2, <2>1 DEF Path
  <2> QED BY <2>1, <2>2, <2>3 DEF RgDataInv, RgOwnData
<1>17. RgPoppedOnce'
  BY <1>2 DEF RgDataInv, RgPoppedOnce
<1> QED
  BY <1>8, <1>9, <1>10, <1>12, <1>15, <1>16, <1>17 DEF RgDataInv

\* Steps that only take internal events away from where they are: the rest of
\* the writes and of the data stays.
LEMMA RgTypedKept ==
    ASSUME RgDataInv, telemetry' \in Seq(Nat),
           UNCHANGED <<kcb, written, kernel, known, data, read, late>>
    PROVE  RgTyped' /\ RgSets'
<1>1. RgTyped'
  BY DEF RgDataInv, RgTyped
<1>2. RgSets'
  BY DEF RgDataInv, RgSets
<1> QED BY <1>1, <1>2

LEMMA RgOwnKept ==
    ASSUME RgDataInv, UNCHANGED <<written, known, data, read, late>>,
           displaced \subseteq displaced', rgLost \subseteq rgLost'
    PROVE  RgOwnData' /\ RgPoppedOnce'
<1>1. RgOwnData'
  BY DEF RgDataInv, RgOwnData, Path, Named
<1>2. RgPoppedOnce'
  BY DEF RgDataInv, RgPoppedOnce
<1> QED BY <1>1, <1>2

LEMMA RgLoseTelemetryStep ==
    ASSUME RgDataInv, LoseTelemetry
    PROVE  RgDataInv'
<1>0. /\ telemetry \in Seq(Nat) /\ telemetry # <<>> /\ telemetry' = Tail(telemetry)
      /\ rgLost' = rgLost \cup {[kind |-> "internal", of |-> Head(telemetry)]}
      /\ UNCHANGED <<kcb, written, kernel, keys, values, known, data, displaced, late, read>>
  BY DEF RgDataInv, RgTyped, LoseTelemetry
<1>1. /\ telemetry' \in Seq(Nat) /\ Head(telemetry) = telemetry[1]
      /\ \A i \in DOMAIN telemetry' :
            i \in Nat \ {0} /\ i + 1 \in DOMAIN telemetry /\ telemetry'[i] = telemetry[i + 1]
      /\ \A i \in DOMAIN telemetry : i # 1 =>
            i - 1 \in DOMAIN telemetry' /\ telemetry'[i - 1] = telemetry[i]
  BY <1>0, TailAt
<1>2. RgFiled'
  BY <1>0 DEF RgDataInv, RgFiled
<1>3. RgOnePlace'
  <2>1. \A i, j \in DOMAIN telemetry' : i # j => i + 1 # j + 1
    BY <1>1
  <2> QED BY <1>0, <1>1, <2>1 DEF RgDataInv, RgOnePlace, Untaken
<1>4. RgTracked'
  <2> SUFFICES ASSUME NEW m \in DOMAIN written
               PROVE  \/ \E i \in DOMAIN telemetry' : telemetry'[i] = m
                      \/ Waits(m)' \/ Faulty(m)' \/ Taken(m)'
    BY <1>0 DEF RgTracked, Waits, Has, Faulty, Taken
  <2>1. CASE \E i \in DOMAIN telemetry : telemetry[i] = m
    BY <1>0, <1>1, <2>1 DEF Faulty
  <2>2. CASE Waits(m) \/ Faulty(m) \/ Taken(m)
    BY <1>0, <2>2 DEF Waits, Has, Faulty, Taken
  <2> QED BY <2>1, <2>2 DEF RgDataInv, RgTracked
<1> QED
  BY <1>0, <1>1, <1>2, <1>3, <1>4, RgTypedKept, RgOwnKept DEF RgDataInv

\* pushSetValue takes the place of what the process had.
LEMMA RgInternalStep ==
    ASSUME RgDataInv, ProcessInternal
    PROVE  RgDataInv'
<1>h. PICK h : h = Head(telemetry)
  OBVIOUS
<1>0. /\ telemetry \in Seq(Nat) /\ telemetry # <<>> /\ telemetry' = Tail(telemetry)
      /\ displaced' = displaced \cup OfProcess(written[h].pid)
      /\ values' = Put(values, written[h].pid,
                       [v \in {written[h].name} |-> [of |-> h, old |-> FALSE]])
      /\ UNCHANGED <<kcb, written, kernel, keys, known, data, rgLost, late, read>>
  BY <1>h DEF RgDataInv, RgTyped, ProcessInternal, PushSetValue
<1>1. /\ telemetry' \in Seq(Nat) /\ 1 \in DOMAIN telemetry /\ h = telemetry[1]
      /\ \A i \in DOMAIN telemetry' :
            i \in Nat \ {0} /\ i + 1 \in DOMAIN telemetry /\ telemetry'[i] = telemetry[i + 1]
      /\ \A i \in DOMAIN telemetry : i # 1 =>
            i - 1 \in DOMAIN telemetry' /\ telemetry'[i - 1] = telemetry[i]
  BY <1>0, <1>h, TailAt
<1>2. h \in Nat /\ h \in DOMAIN written /\ Untaken(h)
      /\ \A i \in DOMAIN telemetry' : telemetry'[i] # h
  <2>1. \A i \in DOMAIN telemetry' : i + 1 # 1
    BY <1>1
  <2> QED BY <1>0, <1>1, <2>1 DEF RgDataInv, RgOnePlace
<1>3. /\ written[h].pid \in DOMAIN values'
      /\ DOMAIN values'[written[h].pid] = {written[h].name}
      /\ values'[written[h].pid][written[h].name] = [of |-> h, old |-> FALSE]
      /\ \A p : p # written[h].pid => /\ p \in DOMAIN values' <=> p \in DOMAIN values
                                      /\ p \in DOMAIN values => values'[p] = values[p]
  BY <1>0 DEF Put
<1>4. RgFiled'
  <2>0. written' = written
    BY <1>0
  <2> SUFFICES ASSUME NEW p \in DOMAIN values', NEW v \in DOMAIN values'[p]
               PROVE  /\ Filed(values'[p][v])
                      /\ values'[p][v].of \in DOMAIN written
                      /\ written[values'[p][v].of].pid = p
                      /\ written[values'[p][v].of].name = v
    BY <2>0 DEF RgFiled
  <2>1. CASE p = written[h].pid
    BY <1>2, <1>3, <2>1 DEF Filed
  <2>2. CASE p # written[h].pid
    BY <1>3, <2>2 DEF RgDataInv, RgFiled
  <2> QED BY <2>1, <2>2
<1>5. RgOnePlace'
  <2>1. \A i, j \in DOMAIN telemetry' : i # j => i + 1 # j + 1
    BY <1>1
  <2>2. /\ \A i \in DOMAIN telemetry' : telemetry'[i] \in DOMAIN written /\ Untaken(telemetry'[i])
        /\ \A i, j \in DOMAIN telemetry' : i # j => telemetry'[i] # telemetry'[j]
    BY <1>1, <2>1 DEF RgDataInv, RgOnePlace
  <2>3. ASSUME NEW p \in DOMAIN values', NEW v \in DOMAIN values'[p]
        PROVE  /\ Untaken(values'[p][v].of)
               /\ \A i \in DOMAIN telemetry' : telemetry'[i] # values'[p][v].of
    <3>1. CASE p = written[h].pid
      BY <1>2, <1>3, <3>1
    <3>2. CASE p # written[h].pid
      BY <1>1, <1>3, <3>2 DEF RgDataInv, RgOnePlace
    <3> QED BY <3>1, <3>2
  <2> QED BY <1>0, <2>2, <2>3 DEF RgOnePlace, Untaken
<1>6. RgTracked'
  <2> SUFFICES ASSUME NEW m \in DOMAIN written
               PROVE  \/ \E i \in DOMAIN telemetry' : telemetry'[i] = m
                      \/ Waits(m)' \/ Faulty(m)' \/ Taken(m)'
    BY <1>0 DEF RgTracked, Waits, Has, Faulty, Taken
  <2>1. CASE m = h
    BY <1>0, <1>3, <2>1 DEF Waits, Has
  <2>2. CASE m # h /\ \E i \in DOMAIN telemetry : telemetry[i] = m
    BY <1>1, <2>2
  <2>3. CASE Waits(m) /\ written[m].pid = written[h].pid
    <3>1. m \in OfProcess(written[h].pid)
      BY <2>3 DEF Waits, Has, OfProcess
    <3> QED BY <1>0, <3>1 DEF Faulty
  <2>4. CASE Waits(m) /\ written[m].pid # written[h].pid
    BY <1>0, <1>3, <2>4 DEF Waits, Has
  <2>5. CASE Faulty(m) \/ Taken(m)
    BY <1>0, <2>5 DEF Faulty, Taken
  <2> QED BY <2>1, <2>2, <2>3, <2>4, <2>5 DEF RgDataInv, RgTracked
<1> QED
  BY <1>0, <1>1, <1>4, <1>5, <1>6, RgTypedKept, RgOwnKept DEF RgDataInv

\* Expire and Housekeep: the values that stay are what they were, and the ones
\* that go are displaced.
LEMMA RgAgeStep ==
    ASSUME RgDataInv,
           UNCHANGED <<kcb, written, kernel, telemetry, known, data, rgLost, late, read>>,
           displaced \subseteq displaced',
           \A p \in DOMAIN values' : p \in DOMAIN values /\ \A v \in DOMAIN values'[p] :
               /\ v \in DOMAIN values[p] /\ values'[p][v].of = values[p][v].of
               /\ Filed(values'[p][v]),
           \A p \in DOMAIN values : \A v \in DOMAIN values[p] :
               \/ p \in DOMAIN values' /\ v \in DOMAIN values'[p]
               \/ values[p][v].of \in displaced'
    PROVE  RgDataInv'
<1>1. telemetry' \in Seq(Nat)
  BY DEF RgDataInv, RgTyped
<1>2. RgFiled'
  BY DEF RgDataInv, RgFiled
<1>3. RgOnePlace'
  BY DEF RgDataInv, RgOnePlace, Untaken
<1>4. RgTracked'
  <2> SUFFICES ASSUME NEW m \in DOMAIN written
               PROVE  \/ \E i \in DOMAIN telemetry' : telemetry'[i] = m
                      \/ Waits(m)' \/ Faulty(m)' \/ Taken(m)'
    BY DEF RgTracked, Waits, Has, Faulty, Taken
  <2>1. CASE Waits(m)
    <3>1. PICK p, v : p = written[m].pid /\ v = written[m].name
      OBVIOUS
    <3>2. p \in DOMAIN values /\ v \in DOMAIN values[p] /\ values[p][v].of = m
      BY <2>1, <3>1 DEF Waits, Has
    <3>3. CASE m \in displaced'
      BY <3>3 DEF Faulty
    <3>4. CASE p \in DOMAIN values' /\ v \in DOMAIN values'[p]
      BY <3>1, <3>2, <3>4 DEF Waits, Has
    <3> QED BY <3>2, <3>3, <3>4
  <2>2. CASE (\E i \in DOMAIN telemetry : telemetry[i] = m) \/ Faulty(m) \/ Taken(m)
    BY <2>2 DEF Faulty, Taken
  <2> QED BY <2>1, <2>2 DEF RgDataInv, RgTracked
<1> QED
  BY <1>1, <1>2, <1>3, <1>4, RgTypedKept, RgOwnKept DEF RgDataInv

LEMMA FiledOld ==
    ASSUME NEW w, NEW b, Filed(w)
    PROVE  [w EXCEPT !.old = b].of = w.of /\ Filed([w EXCEPT !.old = b])
<1>1. PICK o, d : w = [of |-> o, old |-> d]
  BY DEF Filed
<1>2. [w EXCEPT !.old = b] = [of |-> o, old |-> b]
  BY <1>1
<1> QED BY <1>1, <1>2 DEF Filed

LEMMA RgExpireStep ==
    ASSUME RgDataInv, NEW p, NEW v, Expire(p, v)
    PROVE  RgDataInv'
<1>b. PICK b : b = TRUE
  OBVIOUS
<1>0. /\ UNCHANGED <<kcb, written, kernel, telemetry, known, data, rgLost, displaced, late, read>>
      /\ p \in DOMAIN values /\ v \in DOMAIN values[p]
      /\ values' = [values EXCEPT ![p][v].old = b]
  BY <1>b DEF Expire, rgHistory
<1>1. DOMAIN values' = DOMAIN values /\ \A q \in DOMAIN values : DOMAIN values'[q] = DOMAIN values[q]
  BY <1>0
<1>2. \A q \in DOMAIN values : \A u \in DOMAIN values[q] :
          Filed(values[q][u])
  BY DEF RgDataInv, RgFiled
<1>3. \A q \in DOMAIN values : \A u \in DOMAIN values[q] :
          values'[q][u] = values[q][u] \/ values'[q][u] = [values[q][u] EXCEPT !.old = b]
  BY <1>0
<1>4. \A q \in DOMAIN values : \A u \in DOMAIN values[q] :
          values'[q][u].of = values[q][u].of /\ Filed(values'[q][u])
  <2> SUFFICES ASSUME NEW q \in DOMAIN values, NEW u \in DOMAIN values[q]
               PROVE  values'[q][u].of = values[q][u].of /\ Filed(values'[q][u])
    OBVIOUS
  <2>1. PICK w, x : w = values[q][u] /\ x = values'[q][u]
    OBVIOUS
  <2>2. Filed(w) /\ (x = w \/ x = [w EXCEPT !.old = b])
    BY <1>2, <1>3, <2>1
  <2>3. [w EXCEPT !.old = b].of = w.of /\ Filed([w EXCEPT !.old = b])
    BY <2>2, FiledOld
  <2>4. x.of = w.of /\ Filed(x)
    BY <2>2, <2>3
  <2> QED BY <2>1, <2>4
<1>5. \A q \in DOMAIN values' : q \in DOMAIN values /\ \A u \in DOMAIN values'[q] :
          /\ u \in DOMAIN values[q] /\ values'[q][u].of = values[q][u].of
          /\ Filed(values'[q][u])
  BY <1>1, <1>4
<1>6. \A q \in DOMAIN values : \A u \in DOMAIN values[q] :
          q \in DOMAIN values' /\ u \in DOMAIN values'[q]
  BY <1>1
<1> QED
  BY <1>0, <1>5, <1>6, RgAgeStep

LEMMA RgHousekeepStep ==
    ASSUME RgDataInv, Housekeep
    PROVE  RgDataInv'
<1>0. /\ UNCHANGED <<kcb, written, kernel, telemetry, known, data, rgLost, late, read>>
      /\ values' = [p \in {q \in DOMAIN values : DOMAIN Fresh(values[q]) # {}} |-> Fresh(values[p])]
  BY DEF Housekeep
<1>1. displaced' = displaced \cup (Pending \
          {w.of : w \in UNION {{values'[p][v] : v \in DOMAIN values'[p]} : p \in DOMAIN values'}})
  BY DEF Housekeep
<1>2. \A p \in DOMAIN values' : p \in DOMAIN values /\ \A v \in DOMAIN values'[p] :
          v \in DOMAIN values[p] /\ values'[p][v] = values[p][v]
  BY <1>0 DEF Fresh
<1>3. \A p \in DOMAIN values : \A v \in DOMAIN values[p] :
          \/ p \in DOMAIN values' /\ v \in DOMAIN values'[p]
          \/ values[p][v].of \in displaced'
  <2> SUFFICES ASSUME NEW p \in DOMAIN values, NEW v \in DOMAIN values[p],
                      values[p][v].of \notin displaced'
               PROVE  p \in DOMAIN values' /\ v \in DOMAIN values'[p]
    OBVIOUS
  <2>1. values[p][v].of \in Pending
    BY DEF Pending
  <2>2. PICK q \in DOMAIN values' : \E u \in DOMAIN values'[q] :
           values'[q][u].of = values[p][v].of
    BY <1>1, <2>1
  <2>3. PICK u \in DOMAIN values'[q] : values'[q][u].of = values[p][v].of
    BY <2>2
  <2>4. q = p /\ u = v
    BY <1>2, <2>3 DEF RgDataInv, RgFiled
  <2> QED BY <2>3, <2>4
<1>4. \A p \in DOMAIN values : \A v \in DOMAIN values[p] :
          Filed(values[p][v])
  BY DEF RgDataInv, RgFiled
<1>5. \A p \in DOMAIN values' : p \in DOMAIN values /\ \A v \in DOMAIN values'[p] :
          /\ v \in DOMAIN values[p] /\ values'[p][v].of = values[p][v].of
          /\ Filed(values'[p][v])
  BY <1>2, <1>4
<1>6. displaced \subseteq displaced'
  BY <1>1
<1> QED
  BY <1>0, <1>3, <1>5, <1>6, RgAgeStep

\* The data of a write that had none is recorded; the others keep theirs.
LEMMA RgPutData ==
    ASSUME NEW n, n \notin DOMAIN data, NEW m, data' = Put(data, n, m)
    PROVE  /\ DOMAIN data' = DOMAIN data \cup {n} /\ data'[n] = m
           /\ \A j \in DOMAIN data : j # n /\ data'[j] = data[j]
BY DEF Put

\* No other event is given a path.
LEMMA RgResolved ==
    ASSUME NEW e, ResolveKey(e), UNCHANGED written
    PROVE  /\ \A j \in DOMAIN known : j \in DOMAIN known' /\ (j # e.of => known'[j] = known[j])
           /\ \A j : j # e.of => /\ j \in DOMAIN known' => j \in DOMAIN known
                                 /\ Named(known, j)' = Named(known, j)
<1>1. known' = known \/ \E x : known' = Put(known, e.of, x)
  BY DEF ResolveKey, FindMatchingKey
<1>2. CASE known' = known
  BY <1>2 DEF Named
<1>3. ASSUME NEW x, known' = Put(known, e.of, x)
      PROVE  /\ \A j \in DOMAIN known : j \in DOMAIN known' /\ (j # e.of => known'[j] = known[j])
             /\ \A j : j # e.of => (j \in DOMAIN known' => j \in DOMAIN known)
  BY <1>3 DEF Put
<1>4. ASSUME NEW x, known' = Put(known, e.of, x), NEW j, j # e.of
      PROVE  Named(known, j)' = Named(known, j)
  BY <1>3, <1>4 DEF Named
<1> QED BY <1>1, <1>2, <1>3, <1>4

\* A RegSetValue event that gets no data of its own write had a fault.
LEMMA RgExcused ==
    ASSUME RgDataInv, NEW n \in DOMAIN written, ~Waits(n), n \notin DOMAIN data,
           \A i \in DOMAIN telemetry : telemetry[i] = n => n \in late',
           \A j \in DOMAIN data : j \in DOMAIN data' /\ data'[j] = data[j],
           late \subseteq late', UNCHANGED <<rgLost, displaced>>
    PROVE  Faulty(n)' \/ \E i \in DOMAIN data' : i # n /\ data'[i] = n
<1>1. CASE \E i \in DOMAIN telemetry : telemetry[i] = n
  BY <1>1 DEF Faulty
<1>2. CASE Faulty(n)
  BY <1>2 DEF Faulty
<1>3. CASE Taken(n)
  BY <1>3 DEF Taken
<1> QED BY <1>1, <1>2, <1>3 DEF RgDataInv, RgTracked

\* RegSetValue finds an internal event and pops it.
LEMMA RgPopStep ==
    ASSUME RgDataInv, ProcessSet,
           Has(written[Head(kernel).of].pid, Named(known', Head(kernel).of))
    PROVE  RgDataInv'
<1>n. PICK n : n = Head(kernel).of
  OBVIOUS
<1>m. PICK p, v, m : p = written[n].pid /\ v = Named(known', n) /\ m = values[p][v].of
  OBVIOUS
<1>0. /\ kernel \in Seq(RgEvent) /\ kernel # <<>> /\ kernel[1].kind = "set" /\ n = kernel[1].of
      /\ 1 \in DOMAIN kernel
  <2>1. kernel \in Seq(RgEvent) /\ kernel # <<>> /\ Head(kernel).kind = "set"
    BY DEF RgDataInv, RgTyped, ProcessSet
  <2> QED BY <1>n, <2>1, TailAt
<1>1. /\ data' = Put(data, n, m) /\ values' = [values EXCEPT ![p] = Delete(@, v)]
      /\ late' = late \cup ({n} \cap {telemetry[i] : i \in DOMAIN telemetry})
      /\ kernel' = Tail(kernel)
      /\ UNCHANGED <<kcb, written, telemetry, keys, rgLost, displaced, read>>
      /\ p \in DOMAIN values /\ v \in DOMAIN values[p]
  BY <1>n, <1>m DEF ProcessSet, RemoveValue, Has
<1>k. /\ \A j \in DOMAIN known : j \in DOMAIN known' /\ (j # n => known'[j] = known[j])
      /\ \A j : j # n => Named(known, j)' = Named(known, j)
  BY <1>n, <1>1, RgResolved DEF ProcessSet
<1>2. n \in DOMAIN written /\ n \notin DOMAIN data /\ n \notin read
  BY <1>0 DEF RgDataInv, RgSets, RgTyped
<1>3. /\ DOMAIN data' = DOMAIN data \cup {n} /\ data'[n] = m
      /\ \A j \in DOMAIN data : j # n /\ data'[j] = data[j]
  BY <1>1, <1>2, RgPutData
<1>4. /\ m \in DOMAIN written /\ written[m].pid = p /\ written[m].name = v /\ Untaken(m)
      /\ \A i \in DOMAIN telemetry : telemetry[i] # m
  <2>1. p \in DOMAIN values /\ v \in DOMAIN values[p]
    BY <1>1
  <2>2. m \in DOMAIN written /\ written[m].pid = p /\ written[m].name = v
    BY <1>m, <2>1 DEF RgDataInv, RgFiled
  <2>3. Untaken(m) /\ \A i \in DOMAIN telemetry : telemetry[i] # m
    BY <1>m, <2>1 DEF RgDataInv, RgOnePlace
  <2> QED BY <2>2, <2>3
<1>5. /\ DOMAIN values' = DOMAIN values
      /\ \A q \in DOMAIN values : q # p => values'[q] = values[q]
      /\ DOMAIN values'[p] = DOMAIN values[p] \ {v}
      /\ \A u \in DOMAIN values'[p] : values'[p][u] = values[p][u]
  BY <1>1 DEF Delete
<1>6. \A q \in DOMAIN values' : \A u \in DOMAIN values'[q] :
          q \in DOMAIN values /\ u \in DOMAIN values[q] /\ values'[q][u] = values[q][u]
          /\ <<q, u>> # <<p, v>>
  BY <1>5
<1>7. kernel' \in Seq(RgEvent) /\ RgSets'
  <2>1. \A i \in DOMAIN kernel' : i \in Nat \ {0} /\ i + 1 \in DOMAIN kernel /\ kernel'[i] = kernel[i + 1]
    BY <1>0, <1>1, TailAt
  <2>2. \A i, j \in DOMAIN kernel' : i + 1 # 1 /\ (i # j => i + 1 # j + 1)
    BY <2>1
  <2>3. kernel' \in Seq(RgEvent)
    BY <1>0, <1>1, TailAt
  <2>4. \A i \in DOMAIN kernel' : kernel'[i].kind = "set" =>
            /\ kernel'[i].of \in DOMAIN written \ DOMAIN data /\ kernel'[i].of # n
            /\ kernel'[i].key = written[kernel'[i].of].key
    BY <1>0, <2>1, <2>2 DEF RgDataInv, RgSets
  <2>5. \A i, j \in DOMAIN kernel' :
            i # j /\ kernel'[i].kind = "set" /\ kernel'[j].kind = "set" =>
               kernel'[i].of # kernel'[j].of
    BY <2>1, <2>2 DEF RgDataInv, RgSets
  <2> QED BY <1>1, <1>3, <2>3, <2>4, <2>5 DEF RgSets
<1>8. RgTyped'
  BY <1>1, <1>2, <1>3, <1>4, <1>7, <1>k DEF RgDataInv, RgTyped
<1>9. RgFiled'
  BY <1>1, <1>6 DEF RgDataInv, RgFiled
<1>10. \A y : Untaken(y) /\ y # m => Untaken(y)'
  BY <1>1, <1>3 DEF Untaken
<1>11. RgOnePlace'
  <2>1. \A q \in DOMAIN values' : \A u \in DOMAIN values'[q] : values'[q][u].of # m
    BY <1>4, <1>6 DEF RgDataInv, RgFiled
  <2>2. /\ \A i \in DOMAIN telemetry : telemetry[i] \in DOMAIN written /\ Untaken(telemetry[i])
        /\ \A i, j \in DOMAIN telemetry : i # j => telemetry[i] # telemetry[j]
    BY DEF RgDataInv, RgOnePlace
  <2>3. \A q \in DOMAIN values' : \A u \in DOMAIN values'[q] :
            /\ Untaken(values'[q][u].of)
            /\ \A i \in DOMAIN telemetry : telemetry[i] # values'[q][u].of
    BY <1>6 DEF RgDataInv, RgOnePlace
  <2> QED BY <1>1, <1>3, <1>4, <2>1, <2>2, <2>3 DEF RgOnePlace, Untaken
<1>13. RgTracked'
  <2> SUFFICES ASSUME NEW k \in DOMAIN written
               PROVE  \/ \E i \in DOMAIN telemetry : telemetry[i] = k
                      \/ Waits(k)' \/ Faulty(k)' \/ Taken(k)'
    BY <1>1 DEF RgTracked, Waits, Has, Faulty, Taken
  <2>1. CASE Waits(k) /\ written[k].pid = p /\ written[k].name = v
    BY <1>m, <1>3, <2>1 DEF Waits, Taken
  <2>2. CASE Waits(k) /\ ~(written[k].pid = p /\ written[k].name = v)
    <3>1. PICK q, u : q = written[k].pid /\ u = written[k].name
      OBVIOUS
    <3>2. q \in DOMAIN values /\ u \in DOMAIN values[q] /\ values[q][u].of = k
      BY <2>2, <3>1 DEF Waits, Has
    <3>3. q \in DOMAIN values' /\ u \in DOMAIN values'[q] /\ values'[q][u] = values[q][u]
      BY <1>5, <2>2, <3>1, <3>2
    <3> QED BY <1>1, <3>1, <3>2, <3>3 DEF Waits, Has
  <2>3. CASE Faulty(k) \/ Taken(k)
    BY <1>1, <1>3, <2>3 DEF Faulty, Taken
  <2> QED BY <2>1, <2>2, <2>3 DEF RgDataInv, RgTracked
<1>14. RgOwnData'
  <2> SUFFICES ASSUME NEW j \in DOMAIN data', data'[j] # j
               PROVE  /\ IF j \in read'
                         THEN /\ known'[j] = Path(data[j])'
                              /\ known'[j] = Path(j)' => data'[j] > j
                         ELSE /\ written[j].pid = written[data'[j]].pid
                              /\ written[data'[j]].name = Named(known, j)'
                      /\ \/ Faulty(j)' \/ Named(known, j)' # written[j].name
                         \/ \E i \in DOMAIN data' : i # j /\ data'[i] = j
    BY <1>1 DEF RgOwnData, Path, Faulty
  <2>1. CASE j = n
    <3>1. Named(known, n)' = v
      BY <1>1, <1>m DEF Named
    <3>2. CASE v # written[n].name
      BY <1>1, <1>2, <1>3, <1>m, <1>4, <2>1, <3>1, <3>2
    <3>3. CASE v = written[n].name
      <4>1. ~Waits(n)
        BY <1>m, <1>3, <2>1, <3>3 DEF Waits
      <4>2. Faulty(n)' \/ \E i \in DOMAIN data' : i # n /\ data'[i] = n
        BY <1>1, <1>2, <1>3, <4>1, RgExcused
      <4> QED BY <1>1, <1>2, <1>3, <1>m, <1>4, <2>1, <3>1, <4>2
    <3> QED BY <3>2, <3>3
  <2>2. CASE j \in DOMAIN data
    <3>1. j # n /\ data'[j] = data[j] /\ Named(known, j)' = Named(known, j)
      BY <1>3, <1>k, <2>2
    <3>2. j \in read => known'[j] = known[j]
      BY <1>k, <3>1 DEF RgDataInv, RgTyped
    <3>3. Path(j)' = Path(j) /\ Path(data[j])' = Path(data[j])
      BY <1>1, <3>1 DEF Path
    <3>4. /\ IF j \in read THEN known[j] = Path(data[j]) /\ (known[j] = Path(j) => data[j] > j)
             ELSE /\ written[j].pid = written[data[j]].pid
                  /\ written[data[j]].name = Named(known, j)
          /\ \/ Faulty(j) \/ Named(known, j) # written[j].name
             \/ \E i \in DOMAIN data : i # j /\ data[i] = j
      BY <2>2, <3>1 DEF RgDataInv, RgOwnData, Faulty
    <3>5. Faulty(j) => Faulty(j)'
      BY <1>1 DEF Faulty
    <3>6. (\E i \in DOMAIN data : i # j /\ data[i] = j) => \E i \in DOMAIN data' : i # j /\ data'[i] = j
      BY <1>3
    <3> QED BY <1>1, <3>1, <3>2, <3>3, <3>4, <3>5, <3>6
  <2> QED BY <1>3, <2>1, <2>2
<1>15. RgPoppedOnce'
  BY <1>1, <1>2, <1>3, <1>4 DEF RgDataInv, RgPoppedOnce, Untaken
<1> QED
  BY <1>7, <1>8, <1>9, <1>11, <1>13, <1>14, <1>15 DEF RgDataInv

\* RegSetValue finds none and reads the registry, or gets no data.
LEMMA RgReadStep ==
    ASSUME RgDataInv, ProcessSet,
           ~Has(written[Head(kernel).of].pid, Named(known', Head(kernel).of))
    PROVE  RgDataInv'
<1>n. PICK n : n = Head(kernel).of
  OBVIOUS
<1>0. /\ kernel \in Seq(RgEvent) /\ kernel # <<>> /\ kernel[1].kind = "set" /\ n = kernel[1].of
      /\ 1 \in DOMAIN kernel
  <2>1. kernel \in Seq(RgEvent) /\ kernel # <<>> /\ Head(kernel).kind = "set"
    BY DEF RgDataInv, RgTyped, ProcessSet
  <2> QED BY <1>n, <2>1, TailAt
<1>1. /\ UNCHANGED <<kcb, written, telemetry, keys, values, rgLost, displaced>>
      /\ late' = late \cup ({n} \cap {telemetry[i] : i \in DOMAIN telemetry})
      /\ kernel' = Tail(kernel)
      /\ \/ UNCHANGED <<data, read>>
         \/ n \in DOMAIN known' /\ ReadValue(n, known'[n])
  BY <1>n DEF ProcessSet
<1>k. /\ \A j \in DOMAIN known : j \in DOMAIN known' /\ (j # n => known'[j] = known[j])
      /\ \A j : j # n => Named(known, j)' = Named(known, j)
  BY <1>n, <1>1, RgResolved DEF ProcessSet
<1>2. n \in DOMAIN written /\ n \notin DOMAIN data /\ n \notin read
  BY <1>0 DEF RgDataInv, RgSets, RgTyped
<1>4. DOMAIN written \subseteq Nat
  BY DEF RgDataInv, RgTyped
<1>5. /\ \A j \in DOMAIN data : j # n /\ j \in DOMAIN data' /\ data'[j] = data[j]
                                /\ (j \in read' <=> j \in read)
      /\ \A j \in DOMAIN data' :
            \/ j \in DOMAIN data
            \/ /\ j = n /\ n \in read' /\ n \in DOMAIN known' /\ data'[n] \in DOMAIN written
               /\ Latest(data'[n], known'[n])
      /\ read' \subseteq DOMAIN data' /\ read' \subseteq DOMAIN known'
  <2>1. CASE UNCHANGED <<data, read>>
    BY <1>2, <1>k, <2>1 DEF RgDataInv, RgTyped
  <2>2. CASE n \in DOMAIN known' /\ ReadValue(n, known'[n])
    <3>0. PICK m \in DOMAIN written : Latest(m, known'[n]) /\ data' = Put(data, n, m)
      BY <2>2 DEF ReadValue
    <3>1. /\ DOMAIN data' = DOMAIN data \cup {n} /\ data'[n] = m
          /\ \A j \in DOMAIN data : j # n /\ data'[j] = data[j]
      BY <1>2, <3>0, RgPutData
    <3>2. read' = read \cup {n}
      BY <2>2 DEF ReadValue
    <3> QED BY <1>2, <1>k, <2>2, <3>0, <3>1, <3>2 DEF RgDataInv, RgTyped
  <2> QED BY <1>1, <2>1, <2>2
<1>6. \A y : Untaken(y) => Untaken(y)'
  BY <1>5 DEF Untaken
<1>7. kernel' \in Seq(RgEvent) /\ RgSets'
  <2>1. \A i \in DOMAIN kernel' : i \in Nat \ {0} /\ i + 1 \in DOMAIN kernel /\ kernel'[i] = kernel[i + 1]
    BY <1>0, <1>1, TailAt
  <2>2. \A i, j \in DOMAIN kernel' : i + 1 # 1 /\ (i # j => i + 1 # j + 1)
    BY <2>1
  <2>3. kernel' \in Seq(RgEvent)
    BY <1>0, <1>1, TailAt
  <2>4. \A i \in DOMAIN kernel' : kernel'[i].kind = "set" =>
            /\ kernel'[i].of \in DOMAIN written \ DOMAIN data /\ kernel'[i].of # n
            /\ kernel'[i].key = written[kernel'[i].of].key
    BY <1>0, <2>1, <2>2 DEF RgDataInv, RgSets
  <2>5. \A i, j \in DOMAIN kernel' :
            i # j /\ kernel'[i].kind = "set" /\ kernel'[j].kind = "set" =>
               kernel'[i].of # kernel'[j].of
    BY <2>1, <2>2 DEF RgDataInv, RgSets
  <2> QED BY <1>1, <1>5, <2>3, <2>4, <2>5 DEF RgSets
<1>8. RgTyped'
  BY <1>1, <1>2, <1>5, <1>7 DEF RgDataInv, RgTyped
<1>9. RgFiled'
  BY <1>1 DEF RgDataInv, RgFiled
<1>10. RgOnePlace'
  BY <1>1, <1>5 DEF RgDataInv, RgOnePlace, Untaken
<1>11. RgTracked'
  <2> SUFFICES ASSUME NEW k \in DOMAIN written
               PROVE  \/ \E i \in DOMAIN telemetry : telemetry[i] = k
                      \/ Waits(k)' \/ Faulty(k)' \/ Taken(k)'
    BY <1>1 DEF RgTracked, Waits, Has, Faulty, Taken
  <2>1. CASE Waits(k)
    BY <1>1, <2>1 DEF Waits, Has
  <2>2. CASE Faulty(k)
    BY <1>1, <2>2 DEF Faulty
  <2>3. CASE Taken(k)
    BY <1>5, <2>3 DEF Taken
  <2> QED BY <2>1, <2>2, <2>3 DEF RgDataInv, RgTracked
<1>12. RgOwnData'
  <2> SUFFICES ASSUME NEW j \in DOMAIN data', data'[j] # j
               PROVE  /\ IF j \in read'
                         THEN /\ known'[j] = Path(data[j])'
                              /\ known'[j] = Path(j)' => data'[j] > j
                         ELSE /\ written[j].pid = written[data'[j]].pid
                              /\ written[data'[j]].name = Named(known, j)'
                      /\ \/ Faulty(j)' \/ Named(known, j)' # written[j].name
                         \/ \E i \in DOMAIN data' : i # j /\ data'[i] = j
    BY <1>1 DEF RgOwnData, Path, Faulty
  <2>1. CASE j \notin DOMAIN data
    <3>1. /\ j = n /\ n \in read' /\ n \in DOMAIN known' /\ data'[n] \in DOMAIN written
          /\ Latest(data'[n], known'[n])
      BY <1>5, <2>1
    <3>2. PICK m \in DOMAIN written : m = data'[n]
      BY <3>1
    <3>3. known'[n] = Path(m) /\ (known'[n] = Path(n) => n <= m) /\ m # n
      BY <1>2, <2>1, <3>1, <3>2 DEF Latest
    <3>4. known'[n] = Path(n) => m > n
      BY <1>2, <1>4, <3>2, <3>3
    <3>5. Path(n)' = Path(n) /\ Path(data[n])' = Path(m)
      BY <1>1, <3>2 DEF Path
    <3>6. CASE Named(known, n)' # written[n].name
      BY <3>1, <3>2, <3>3, <3>4, <3>5, <3>6
    <3>7. CASE Named(known, n)' = written[n].name
      <4>0. Named(known', n) = written[n].name
        BY <1>1, <3>7 DEF Named
      <4>1. ~Waits(n)
        BY <1>n, <4>0 DEF Waits
      <4>2. Faulty(n)' \/ \E i \in DOMAIN data' : i # n /\ data'[i] = n
        BY <1>1, <1>2, <1>5, <4>1, RgExcused
      <4> QED BY <3>1, <3>2, <3>3, <3>4, <3>5, <4>2
    <3> QED BY <3>6, <3>7
  <2>2. CASE j \in DOMAIN data
    <3>1. j # n /\ data'[j] = data[j] /\ Named(known, j)' = Named(known, j)
      BY <1>5, <1>k, <2>2
    <3>2. j \in read => known'[j] = known[j]
      BY <1>k, <3>1 DEF RgDataInv, RgTyped
    <3>3. Path(j)' = Path(j) /\ Path(data[j])' = Path(data[j])
      BY <1>1, <3>1 DEF Path
    <3>4. /\ IF j \in read THEN known[j] = Path(data[j]) /\ (known[j] = Path(j) => data[j] > j)
             ELSE /\ written[j].pid = written[data[j]].pid
                  /\ written[data[j]].name = Named(known, j)
          /\ \/ Faulty(j) \/ Named(known, j) # written[j].name
             \/ \E i \in DOMAIN data : i # j /\ data[i] = j
      BY <2>2, <3>1 DEF RgDataInv, RgOwnData, Faulty
    <3>5. Faulty(j) => Faulty(j)'
      BY <1>1 DEF Faulty
    <3>6. (\E i \in DOMAIN data : i # j /\ data[i] = j) => \E i \in DOMAIN data' : i # j /\ data'[i] = j
      BY <1>5
    <3> QED BY <1>1, <1>5, <2>2, <3>1, <3>2, <3>3, <3>4, <3>5, <3>6
  <2> QED BY <2>1, <2>2
<1>13. RgPoppedOnce'
  BY <1>5 DEF RgDataInv, RgPoppedOnce
<1> QED
  BY <1>7, <1>8, <1>9, <1>10, <1>11, <1>12, <1>13 DEF RgDataInv

LEMMA RgDataStep == RgDataInv /\ [RgNext]_rgVars => RgDataInv'
<1> SUFFICES ASSUME RgDataInv, [RgNext]_rgVars PROVE RgDataInv'
  OBVIOUS
<1>1. CASE UNCHANGED rgVars
  <2>1. /\ UNCHANGED <<kcb, written, kernel, telemetry, values, known, data, displaced, late, read>>
        /\ rgLost' = rgLost
    BY <1>1 DEF rgVars, rgHistory
  <2>2. RgTyped' /\ RgSets'
    BY <2>1 DEF RgDataInv, RgTyped, RgSets
  <2> QED BY <2>1, <2>2, RgKernelOnly
<1>2. CASE ProcessSet
  BY <1>2, RgPopStep, RgReadStep
<1> QED
  BY <1>1, <1>2, RgKeyStep, RgSetStep, RgLoseTelemetryStep, RgInternalStep, RgExpireStep,
     RgHousekeepStep DEF RgNext

(***************************************************************************)
(* The keys the processor knows lag behind those of the system by the      *)
(* events on their way.  A history H of what the system had before each of *)
(* them leads from what had to be known, H[1], to what the system has; it  *)
(* exists in every state.                                                  *)
(***************************************************************************)
Turns(f, e, g) ==
    \/ e.kind = "create" /\ e.kcb \notin DOMAIN f /\ g = Put(f, e.kcb, e.key)
    \/ e.kind = "delete" /\ e.kcb \in DOMAIN f /\ f[e.kcb] = e.key /\ g = Delete(f, e.kcb)
    \/ e.kind = "set" /\ e.kcb \in DOMAIN f /\ f[e.kcb] = e.key /\ g = f

LostCreate(k) == \E e \in rgLost : e.kind = "create" /\ e.key = k
LostDelete(k) == \E e \in rgLost : e.kind = "delete" /\ e.key = k

\* What is missing was created by an event that was dropped, what is too much
\* was deleted by one.
Agrees(f) ==
    /\ \A a \in DOMAIN f : a \notin DOMAIN keys \/ keys[a] # f[a] => LostCreate(f[a])
    /\ \A a \in DOMAIN keys : a \notin DOMAIN f \/ keys[a] # f[a] => LostDelete(keys[a])

KeyHistory(H) ==
    /\ H[Len(kernel) + 1] = kcb
    /\ \A i \in DOMAIN kernel : Turns(H[i], kernel[i], H[i + 1])
    /\ Agrees(H[1])

RgKeyInv ==
    /\ RgDataInv /\ DOMAIN known \subseteq DOMAIN written
    /\ \E H : KeyHistory(H)
    /\ RgOwnKey

\* The head of the kernel session is handled or dropped.
LEMMA HistoryTail ==
    ASSUME RgTyped, kernel # <<>>, kernel' = Tail(kernel), UNCHANGED kcb,
           NEW H, KeyHistory(H), Agrees(H[2])'
    PROVE  \E G : KeyHistory(G)'
<1>0. kernel \in Seq(RgEvent)
  BY DEF RgTyped
<1>1. PICK l \in Nat : l = Len(kernel) /\ l >= 1 /\ Len(kernel') = l - 1 /\ DOMAIN kernel = 1 .. l
  BY <1>0
<1>2. PICK G : G = [i \in 1 .. l |-> H[i + 1]]
  OBVIOUS
<1>3. G[1] = H[2]
  BY <1>1, <1>2
<1>4. G[Len(kernel') + 1] = kcb'
  <2>1. Len(kernel') + 1 = l
    BY <1>1
  <2>2. G[l] = H[l + 1]
    BY <1>1, <1>2
  <2> QED BY <1>1, <2>1, <2>2 DEF KeyHistory
<1>5. ASSUME NEW i \in DOMAIN kernel'
      PROVE  Turns(G[i], kernel'[i], G[i + 1])
  <2>1. i \in Nat \ {0} /\ i + 1 \in DOMAIN kernel /\ kernel'[i] = kernel[i + 1]
    BY <1>0, <1>5, TailAt
  <2>2. G[i] = H[i + 1] /\ G[i + 1] = H[(i + 1) + 1]
    BY <1>1, <1>2, <2>1
  <2>3. Turns(H[i + 1], kernel[i + 1], H[(i + 1) + 1])
    BY <2>1 DEF KeyHistory
  <2> QED BY <2>1, <2>2, <2>3
<1>6. Agrees(G[1])'
  BY <1>3
<1>7. KeyHistory(G)'
  BY <1>4, <1>5, <1>6 DEF KeyHistory
<1> QED
  BY <1>7

\* The system reports what it did.
LEMMA HistoryAppend ==
    ASSUME RgTyped, NEW x \in RgEvent, kernel' = Append(kernel, x), Turns(kcb, x, kcb'),
           UNCHANGED <<keys, rgLost>>, NEW H, KeyHistory(H)
    PROVE  \E G : KeyHistory(G)'
<1>0. kernel \in Seq(RgEvent)
  BY DEF RgTyped
<1>1. PICK l \in Nat : l = Len(kernel) /\ Len(kernel') = l + 1 /\ DOMAIN kernel = 1 .. l
                       /\ DOMAIN kernel' = 1 .. l + 1
  BY <1>0
<1>2. PICK G : G = [i \in 1 .. l + 2 |-> IF i = l + 2 THEN kcb' ELSE H[i]]
  OBVIOUS
<1>3. G[1] = H[1] /\ G[l + 2] = kcb'
  BY <1>1, <1>2
<1>4. \A i \in 1 .. l + 1 : G[i] = H[i]
  BY <1>1, <1>2
<1>5. ASSUME NEW i \in DOMAIN kernel'
      PROVE  Turns(G[i], kernel'[i], G[i + 1])
  <2>1. CASE i = l + 1
    <3>1. kernel'[i] = x
      BY <1>0, <1>1, <2>1, AppendAt
    <3>2. G[i] = kcb
      BY <1>1, <1>4, <2>1 DEF KeyHistory
    <3>3. i + 1 = l + 2
      BY <2>1
    <3> QED BY <1>3, <3>1, <3>2, <3>3
  <2>2. CASE i # l + 1
    <3>1. i \in DOMAIN kernel
      BY <1>1, <2>2
    <3>2. kernel'[i] = kernel[i]
      BY <1>0, <3>1, AppendAt
    <3>3. G[i] = H[i] /\ G[i + 1] = H[i + 1]
      BY <1>1, <1>4, <3>1
    <3> QED BY <3>1, <3>2, <3>3 DEF KeyHistory
  <2> QED BY <2>1, <2>2
<1>6. G[Len(kernel') + 1] = kcb'
  <2>1. Len(kernel') + 1 = l + 2
    BY <1>1
  <2> QED BY <1>3, <2>1
<1>7. Agrees(G[1])'
  <2>1. Agrees(G[1])
    BY <1>3 DEF KeyHistory
  <2> QED BY <2>1 DEF Agrees, LostCreate, LostDelete
<1>8. KeyHistory(G)'
  BY <1>5, <1>6, <1>7 DEF KeyHistory
<1> QED
  BY <1>8

LEMMA RgKeyInitInv == RgInit => RgKeyInv
<1> SUFFICES ASSUME RgInit PROVE RgKeyInv
  OBVIOUS
<1>0. kernel = <<>> /\ kcb = <<>> /\ keys = <<>> /\ known = <<>> /\ written = <<>>
  BY DEF RgInit
<1>1. /\ DOMAIN kcb = {} /\ DOMAIN keys = {} /\ DOMAIN known = {} /\ DOMAIN kernel = {}
      /\ Len(kernel) = 0
  BY <1>0
<1>2. PICK H : H = [i \in {1} |-> kcb]
  OBVIOUS
<1>3. H[1] = kcb
  BY <1>2
<1>4. Agrees(H[1])
  BY <1>1, <1>3 DEF Agrees
<1>5. KeyHistory(H)
  BY <1>1, <1>3, <1>4 DEF KeyHistory
<1> QED
  BY <1>1, <1>5, RgInitInv DEF RgKeyInv, RgOwnKey

\* The first event on its way turns H[1] into H[2].
LEMMA HistoryHead ==
    ASSUME RgTyped, kernel # <<>>, NEW H, KeyHistory(H)
    PROVE  Turns(H[1], Head(kernel), H[2])
<1>1. 1 \in DOMAIN kernel /\ Head(kernel) = kernel[1]
  BY TailAt DEF RgTyped
<1>2. Turns(H[1], kernel[1], H[1 + 1])
  BY <1>1 DEF KeyHistory
<1> QED BY <1>1, <1>2

\* A dropped event leaves its trace.
LEMMA AgreesLost ==
    ASSUME NEW f, NEW e, NEW g, Agrees(f), Turns(f, e, g), UNCHANGED keys,
           rgLost' = rgLost \cup {e}
    PROVE  Agrees(g)'
<1>1. \A k : LostCreate(k) => LostCreate(k)'
  BY DEF LostCreate
<1>2. \A k : LostDelete(k) => LostDelete(k)'
  BY DEF LostDelete
<1>3. CASE e.kind = "create" /\ e.kcb \notin DOMAIN f /\ g = Put(f, e.kcb, e.key)
  <2>1. /\ DOMAIN g = DOMAIN f \cup {e.kcb} /\ g[e.kcb] = e.key
        /\ \A a \in DOMAIN f : g[a] = f[a]
    BY <1>3 DEF Put
  <2>2. LostCreate(e.key)'
    BY <1>3 DEF LostCreate
  <2>3. \A a \in DOMAIN g : a \notin DOMAIN keys \/ keys[a] # g[a] => LostCreate(g[a])'
    BY <1>1, <2>1, <2>2 DEF Agrees
  <2>4. \A a \in DOMAIN keys : a \notin DOMAIN g \/ keys[a] # g[a] => LostDelete(keys[a])'
    BY <1>2, <1>3, <2>1 DEF Agrees
  <2> QED BY <2>3, <2>4 DEF Agrees, LostCreate, LostDelete
<1>4. CASE e.kind = "delete" /\ e.kcb \in DOMAIN f /\ f[e.kcb] = e.key /\ g = Delete(f, e.kcb)
  <2>1. DOMAIN g = DOMAIN f \ {e.kcb} /\ \A a \in DOMAIN g : g[a] = f[a]
    BY <1>4 DEF Delete
  <2>2. LostDelete(e.key)'
    BY <1>4 DEF LostDelete
  <2>3. \A a \in DOMAIN g : a \notin DOMAIN keys \/ keys[a] # g[a] => LostCreate(g[a])'
    BY <1>1, <2>1 DEF Agrees
  <2>4. \A a \in DOMAIN keys : a \notin DOMAIN g \/ keys[a] # g[a] => LostDelete(keys[a])'
    BY <1>2, <1>4, <2>1, <2>2 DEF Agrees
  <2> QED BY <2>3, <2>4 DEF Agrees, LostCreate, LostDelete
<1>5. CASE g = f
  BY <1>1, <1>2, <1>5 DEF Agrees, LostCreate, LostDelete
<1> QED
  BY <1>3, <1>4, <1>5 DEF Turns

\* The processor follows the event that it handles.
LEMMA AgreesKeys ==
    ASSUME NEW f, NEW e, NEW g, Agrees(f), Turns(f, e, g), e.kind # "set",
           keys' = KeysAfter(e), UNCHANGED rgLost
    PROVE  Agrees(g)'
<1>1. \A k : (LostCreate(k)' <=> LostCreate(k)) /\ (LostDelete(k)' <=> LostDelete(k))
  BY DEF LostCreate, LostDelete
<1>2. CASE e.kind = "create" /\ g = Put(f, e.kcb, e.key)
  <2>1. /\ DOMAIN g = DOMAIN f \cup {e.kcb} /\ g[e.kcb] = e.key
        /\ \A a \in DOMAIN f : a # e.kcb => g[a] = f[a]
    BY <1>2 DEF Put
  <2>2. /\ DOMAIN keys' = DOMAIN keys \cup {e.kcb} /\ keys'[e.kcb] = e.key
        /\ \A a \in DOMAIN keys : a # e.kcb => keys'[a] = keys[a]
    BY <1>2 DEF Put, KeysAfter
  <2>3. \A a \in DOMAIN g : a \notin DOMAIN keys' \/ keys'[a] # g[a] => LostCreate(g[a])
    BY <2>1, <2>2 DEF Agrees
  <2>4. \A a \in DOMAIN keys' : a \notin DOMAIN g \/ keys'[a] # g[a] => LostDelete(keys'[a])
    BY <2>1, <2>2 DEF Agrees
  <2> QED BY <2>3, <2>4 DEF Agrees, LostCreate, LostDelete
<1>3. CASE e.kind = "delete" /\ g = Delete(f, e.kcb)
  <2>1. DOMAIN g = DOMAIN f \ {e.kcb} /\ \A a \in DOMAIN g : g[a] = f[a]
    BY <1>3 DEF Delete
  <2>2. DOMAIN keys' = DOMAIN keys \ {e.kcb} /\ \A a \in DOMAIN keys' : keys'[a] = keys[a]
    BY <1>3 DEF Delete, KeysAfter
  <2>3. \A a \in DOMAIN g : a \notin DOMAIN keys' \/ keys'[a] # g[a] => LostCreate(g[a])
    BY <2>1, <2>2 DEF Agrees
  <2>4. \A a \in DOMAIN keys' : a \notin DOMAIN g \/ keys'[a] # g[a] => LostDelete(keys'[a])
    BY <2>1, <2>2 DEF Agrees
  <2> QED BY <2>3, <2>4 DEF Agrees, LostCreate, LostDelete
<1> QED
  BY <1>2, <1>3 DEF Turns

LEMMA RgKeyInvStep == RgKeyInv /\ [RgNext]_rgVars => RgKeyInv'
<1> SUFFICES ASSUME RgKeyInv, [RgNext]_rgVars PROVE RgKeyInv'
  OBVIOUS
<1>0. RgDataInv /\ RgTyped /\ RgDataInv' /\ DOMAIN known \subseteq DOMAIN written
  BY RgDataStep DEF RgKeyInv, RgDataInv
<1>h. PICK H : KeyHistory(H)
  BY DEF RgKeyInv
\* Steps that give no event a key.
<1>1. ASSUME UNCHANGED <<known, guessed>>, rgLost \subseteq rgLost',
             \A n \in DOMAIN written : n \in DOMAIN written' /\ written'[n] = written[n],
             \E G : KeyHistory(G)'
      PROVE  RgKeyInv'
  <2>1. RgOwnKey'
    BY <1>0, <1>1 DEF RgKeyInv, RgOwnKey, Path
  <2> QED BY <1>0, <1>1, <2>1 DEF RgKeyInv
<1>2. ASSUME NEW a \in RgKcb, DeleteKey(a) \/ \E k \in RgKey : CreateKey(a, k)
      PROVE  RgKeyInv'
  <2>1. PICK x : x \in RgEvent /\ kernel' = Append(kernel, x) /\ Turns(kcb, x, kcb')
    <3>1. CASE DeleteKey(a)
      <4>1. PICK x : x = [kind |-> "delete", kcb |-> a, key |-> kcb[a], of |-> 0]
        OBVIOUS
      <4>2. x \in RgEvent
        BY <1>0, <3>1, <4>1 DEF RgTyped, RgEvent, DeleteKey
      <4>3. kernel' = Append(kernel, x)
        BY <3>1, <4>1 DEF DeleteKey, Report
      <4>4. Turns(kcb, x, kcb')
        BY <3>1, <4>1 DEF DeleteKey, Turns
      <4> QED BY <4>2, <4>3, <4>4
    <3>2. ASSUME NEW k \in RgKey, CreateKey(a, k)
          PROVE  \E x : x \in RgEvent /\ kernel' = Append(kernel, x) /\ Turns(kcb, x, kcb')
      <4>1. PICK x : x = [kind |-> "create", kcb |-> a, key |-> k, of |-> 0]
        OBVIOUS
      <4>2. x \in RgEvent
        BY <4>1 DEF RgEvent
      <4>3. kernel' = Append(kernel, x)
        BY <3>2, <4>1 DEF CreateKey, Report
      <4>4. Turns(kcb, x, kcb')
        BY <3>2, <4>1 DEF CreateKey, Turns
      <4> QED BY <4>2, <4>3, <4>4
    <3> QED BY <1>2, <3>1, <3>2
  <2>2. UNCHANGED <<written, keys, known, guessed, rgLost>>
    BY <1>2 DEF DeleteKey, CreateKey, rgHistory
  <2>3. \E G : KeyHistory(G)'
    BY <1>0, <1>h, <2>1, <2>2, HistoryAppend
  <2> QED BY <1>1, <2>2, <2>3
<1>3. ASSUME NEW p \in RgPid, NEW a \in RgKcb, NEW v \in RgName, SetValue(p, a, v)
      PROVE  RgKeyInv'
  <2>1. PICK x : x = [kind |-> "set", kcb |-> a, key |-> kcb[a], of |-> Len(written) + 1]
    OBVIOUS
  <2>2. written \in Seq(RgWrite) /\ a \in DOMAIN kcb /\ kcb[a] \in RgKey
    BY <1>0, <1>3 DEF RgTyped, SetValue
  <2>3. x \in RgEvent /\ kernel' = Append(kernel, x) /\ Turns(kcb, x, kcb')
    <3>1. x \in RgEvent
      BY <2>1, <2>2 DEF RgEvent
    <3>2. kernel' = Append(kernel, x)
      BY <1>3, <2>1 DEF SetValue, Report
    <3>3. Turns(kcb, x, kcb')
      BY <1>3, <2>1, <2>2 DEF SetValue, Turns
    <3> QED BY <3>1, <3>2, <3>3
  <2>4. UNCHANGED <<keys, known, guessed, rgLost>>
    BY <1>3 DEF SetValue, rgHistory
  <2>5. \A n \in DOMAIN written : n \in DOMAIN written' /\ written'[n] = written[n]
    <3>1. PICK w : w = [pid |-> p, key |-> kcb[a], name |-> v]
      OBVIOUS
    <3>2. w \in RgWrite /\ written' = Append(written, w)
      BY <1>3, <2>2, <3>1 DEF RgWrite, SetValue
    <3> QED BY <2>2, <3>2, AppendAt
  <2>6. \E G : KeyHistory(G)'
    BY <1>0, <1>h, <2>3, <2>4, HistoryAppend
  <2> QED BY <1>1, <2>4, <2>5, <2>6
<1>4. CASE LoseKernel
  <2>1. /\ kernel # <<>> /\ kernel' = Tail(kernel) /\ rgLost' = rgLost \cup {Head(kernel)}
        /\ UNCHANGED <<kcb, written, keys, known, guessed>>
    BY <1>4 DEF LoseKernel
  <2>2. PICK e, f, g : e = Head(kernel) /\ f = H[1] /\ g = H[2]
    OBVIOUS
  <2>3. Agrees(f) /\ Turns(f, e, g)
    BY <1>0, <1>h, <2>1, <2>2, HistoryHead DEF KeyHistory
  <2>4. Agrees(g)'
    BY <2>1, <2>2, <2>3, AgreesLost
  <2>5. Agrees(H[2])'
    BY <2>2, <2>4
  <2>6. \E G : KeyHistory(G)'
    BY <1>0, <1>h, <2>1, <2>5, HistoryTail
  <2> QED BY <1>1, <2>1, <2>6
<1>5. CASE ProcessKcb
  <2>1. /\ kernel # <<>> /\ kernel' = Tail(kernel) /\ keys' = KeysAfter(Head(kernel))
        /\ Head(kernel).kind # "set" /\ UNCHANGED <<kcb, written, known, guessed, rgLost>>
    BY <1>5 DEF ProcessKcb, rgHistory
  <2>2. PICK e, f, g : e = Head(kernel) /\ f = H[1] /\ g = H[2]
    OBVIOUS
  <2>3. Agrees(f) /\ Turns(f, e, g)
    BY <1>0, <1>h, <2>1, <2>2, HistoryHead DEF KeyHistory
  <2>4. Agrees(g)'
    BY <2>1, <2>2, <2>3, AgreesKeys
  <2>5. Agrees(H[2])'
    BY <2>2, <2>4
  <2>6. \E G : KeyHistory(G)'
    BY <1>0, <1>h, <2>1, <2>5, HistoryTail
  <2> QED BY <1>1, <2>1, <2>6
<1>6. CASE ProcessSet
  <2>1. /\ kernel # <<>> /\ kernel' = Tail(kernel) /\ Head(kernel).kind = "set"
        /\ UNCHANGED <<kcb, written, keys, rgLost>>
    BY <1>6 DEF ProcessSet
  <2>2. PICK e, f, g : e = Head(kernel) /\ f = H[1] /\ g = H[2]
    OBVIOUS
  <2>3. Agrees(f) /\ Turns(f, e, g)
    BY <1>0, <1>h, <2>1, <2>2, HistoryHead DEF KeyHistory
  <2>4. g = f /\ e.kcb \in DOMAIN f /\ f[e.kcb] = e.key
    BY <2>1, <2>2, <2>3 DEF Turns
  <2>5. Agrees(H[2])'
    BY <2>1, <2>2, <2>3, <2>4 DEF Agrees, LostCreate, LostDelete
  <2>6. \E G : KeyHistory(G)'
    BY <1>0, <1>h, <2>1, <2>5, HistoryTail
  <2>7. PICK n : n = e.of
    OBVIOUS
  <2>8. n \in DOMAIN written /\ e.key = written[n].key
    <3>1. kernel \in Seq(RgEvent)
      BY <1>0 DEF RgTyped
    <3>2. 1 \in DOMAIN kernel /\ e = kernel[1]
      BY <2>1, <2>2, <3>1, TailAt
    <3> QED BY <1>0, <2>1, <2>2, <2>7, <3>2 DEF RgDataInv, RgSets
  <2>9. \/ known' = Put(known, n, Path(n)) /\ guessed' = guessed
        \/ /\ e.kcb \in DOMAIN keys /\ guessed' = guessed
           /\ known' = Put(known, n, [key |-> keys[e.kcb], name |-> written[n].name])
        \/ known' = known /\ guessed' = guessed
        \/ /\ e.kcb \notin DOMAIN keys /\ guessed' = guessed \cup {n}
           /\ \E x : known' = Put(known, n, x)
    BY <1>6, <2>2, <2>7 DEF ProcessSet, ResolveKey, FindMatchingKey
  <2>p. ASSUME NEW x, known' = Put(known, n, x)
        PROVE  \A j \in DOMAIN known' :
                   (j \in DOMAIN known /\ known'[j] = known[j]) \/ (j = n /\ known'[n] = x)
    BY <2>p DEF Put
  <2>10. \A j \in DOMAIN known' :
             \/ j \in DOMAIN known /\ known'[j] = known[j]
             \/ j = n /\ known'[n] = Path(n)
             \/ /\ j = n /\ e.kcb \in DOMAIN keys
                /\ known'[n] = [key |-> keys[e.kcb], name |-> written[n].name]
             \/ j = n /\ e.kcb \notin DOMAIN keys /\ n \in guessed'
    <3>1. CASE known' = Put(known, n, Path(n))
      BY <2>p, <3>1
    <3>2. CASE /\ e.kcb \in DOMAIN keys
               /\ known' = Put(known, n, [key |-> keys[e.kcb], name |-> written[n].name])
      BY <2>p, <3>2
    <3>3. ASSUME NEW x, known' = Put(known, n, x), e.kcb \notin DOMAIN keys, n \in guessed'
          PROVE  \A j \in DOMAIN known' :
                     (j \in DOMAIN known /\ known'[j] = known[j]) \/ j = n
      BY <2>p, <3>3
    <3> QED BY <2>9, <3>1, <3>2, <3>3
  <2>11. DOMAIN known' \subseteq DOMAIN written'
    BY <1>0, <2>1, <2>8, <2>10
  <2>g. guessed \subseteq guessed'
    BY <2>9
  <2>12. RgOwnKey'
    <3> SUFFICES ASSUME NEW j \in DOMAIN known', known'[j] # Path(j)
                 PROVE  /\ LostCreate(written[j].key)
                        /\ \/ j \in guessed'
                           \/ known'[j].name = written[j].name /\ LostDelete(known'[j].key)
      BY <2>1 DEF RgOwnKey, LostCreate, LostDelete, Path
    <3>1. CASE /\ j = n /\ e.kcb \in DOMAIN keys
               /\ known'[n] = [key |-> keys[e.kcb], name |-> written[n].name]
      <4>1. known'[n].key = keys[e.kcb] /\ known'[n].name = written[n].name
        BY <3>1
      <4>2. keys[e.kcb] # written[n].key
        BY <3>1 DEF Path
      <4>3. LostCreate(written[n].key) /\ LostDelete(keys[e.kcb])
        BY <2>3, <2>4, <2>8, <3>1, <4>2 DEF Agrees
      <4> QED BY <3>1, <4>1, <4>3
    <3>2. CASE j = n /\ known'[n] = Path(n)
      BY <3>2
    <3>3. CASE j \in DOMAIN known /\ known'[j] = known[j]
      BY <2>g, <3>3 DEF RgKeyInv, RgOwnKey, LostCreate, LostDelete
    <3>4. CASE j = n /\ e.kcb \notin DOMAIN keys /\ n \in guessed'
      BY <2>3, <2>4, <2>8, <3>4 DEF Agrees
    <3> QED BY <2>10, <3>1, <3>2, <3>3, <3>4
  <2> QED BY <1>0, <2>6, <2>11, <2>12 DEF RgKeyInv
\* The rest does not touch the kernel session.
<1>7. ASSUME UNCHANGED <<kcb, written, kernel, keys, known, guessed>>, rgLost \subseteq rgLost'
      PROVE  RgKeyInv'
  <2>1. KeyHistory(H)'
    BY <1>h, <1>7 DEF KeyHistory, Agrees, LostCreate, LostDelete
  <2> QED BY <1>1, <1>7, <2>1
<1>8. CASE \/ LoseTelemetry \/ ProcessInternal \/ Housekeep \/ UNCHANGED rgVars
           \/ \E p \in RgPid, v \in RgName : Expire(p, v)
  <2>1. UNCHANGED <<kcb, written, kernel, keys, known, guessed>> /\ rgLost \subseteq rgLost'
    BY <1>8 DEF LoseTelemetry, ProcessInternal, Housekeep, Expire, rgVars, rgHistory
  <2> QED BY <1>7, <2>1
<1> QED
  BY <1>2, <1>3, <1>4, <1>5, <1>6, <1>8 DEF RgNext

\* For any processes, keys, value names and addresses of control blocks, and
\* any number of writes and dropped events: a RegSetValue event gets the path
\* and the data of its own write, and no internal event enriches two
\* (pushSetValue, popSetValue, the map of control blocks), but for the faults
\* the property names, whichever handle findMatchingKey returns and whatever
\* key the value is read under.
THEOREM RegistryAttributes == RgSpec => []RgAttributed
<1>1. RgInit => RgKeyInv
  BY RgKeyInitInv
<1>2. RgKeyInv /\ [RgNext]_rgVars => RgKeyInv'
  BY RgKeyInvStep
<1>3. RgKeyInv => RgAttributed
  BY DEF RgKeyInv, RgDataInv, RgAttributed
<1> QED
  BY <1>1, <1>2, <1>3, PTL DEF RgSpec
-----------------------------------------------------------------------------
(* The process snapshotter *)

PsProcess == [pid : PsPid, parent : Nat, at : {"alive", "zombie", "gone"}]
PsCoreEvent == [kind : {"create", "terminate"}, of : Nat]
PsState == [of : Nat, ppid : PsPid \cup {0}, parent : Nat, core : BOOLEAN]

PsTyped ==
    /\ os \in Seq(PsProcess) /\ core \in Seq(PsCoreEvent) /\ internal \in Seq(Nat)
    /\ ps \in Seq(PsState)
    /\ thread \in [PsThread -> [at : {"idle", "write", "find", "put"},
                                pid : PsPid \cup {0}, ps : Nat]]
    /\ scan \in [at : {"wait", "next", "add", "done"}, todo : SUBSET PsScan,
                 pid : PsPid \cup {0}, ps : Nat]
    /\ removed \subseteq DOMAIN os /\ dropped \in Nat
    /\ \A i \in DOMAIN core : core[i].of \in DOMAIN os
    /\ \A i \in DOMAIN internal : internal[i] \in DOMAIN os

\* A pid has one process at a time, and a process starts others while it runs.
PsPids ==
    /\ \A m, n \in DOMAIN os : m < n /\ os[m].pid = os[n].pid => os[m].at = "gone"
    /\ \A n \in DOMAIN os : os[n].parent # 0 =>
          /\ os[n].parent \in DOMAIN os /\ os[n].parent < n
          /\ \A m \in DOMAIN os : os[n].parent < m /\ m <= n => os[m].pid # os[os[n].parent].pid

OfPid(x, p) == x \in DOMAIN ps /\ ps[x].of \in DOMAIN os /\ os[ps[x].of].pid = p

\* What is stored, or about to be, under a pid is the state of a process with
\* it; a state that a lookup made has no parent.
PsPointers ==
    /\ \A x \in DOMAIN ps : ps[x].of \in DOMAIN os
    /\ \A x \in DOMAIN ps : ps[x].parent # NoPs => OfPid(ps[x].parent, ps[x].ppid)
    /\ \A p \in DOMAIN procs : OfPid(procs[p], p)
    /\ \A t \in PsThread : thread[t].at \in {"find", "put"} =>
          OfPid(thread[t].ps, thread[t].pid) /\ ps[thread[t].ps].parent = NoPs
    /\ scan.at = "add" => OfPid(scan.ps, scan.pid)

\* The end of a process comes after its start and, if no event was dropped,
\* before the start of the next one with its pid.
Ends(n, j) == core[j].kind = "terminate" /\ core[j].of = n

PsEvents ==
    /\ \A i \in DOMAIN core : core[i].kind = "create" =>
          /\ core[i].of \notin removed
          /\ \A j \in DOMAIN core : j < i => ~Ends(core[i].of, j)
    /\ dropped = 0 =>
          /\ \A n \in DOMAIN os : os[n].at # "alive" =>
                n \in removed \/ \E j \in DOMAIN core : Ends(n, j)
          /\ \A i \in DOMAIN core : core[i].kind = "create" =>
                \A m, n \in DOMAIN os :
                    n < m /\ m <= core[i].of /\ os[n].pid = os[m].pid =>
                        n \in removed \/ \E j \in DOMAIN core : j < i /\ Ends(n, j)

\* The parent a state was given, wherever the state is.
PsParentKept ==
    \A x \in DOMAIN ps : ps[x].parent # NoPs =>
        LET q == ps[ps[x].parent].of IN
        q = os[ps[x].of].parent \/ q > ps[x].of \/ q \in revived \/ dropped # 0

\* A state in the snapshot has no parent that has left it.
PsParentStays ==
    \A p \in DOMAIN procs :
        LET s == ps[procs[p]]
            q == ps[s.parent].of
        IN s.parent # NoPs /\ q \in removed => q \in revived \/ s.of \in revived

PsInv ==
    /\ PsTyped /\ PsPids /\ PsPointers /\ PsEvents
    /\ PsRemovedStays /\ PsDirtyTimed /\ PsParentKept /\ PsParentStays

LEMMA PsInitInv == PsInit => PsInv
<1> SUFFICES ASSUME PsInit PROVE PsInv
  OBVIOUS
<1>0. /\ os = <<>> /\ core = <<>> /\ internal = <<>> /\ ps = <<>> /\ procs = <<>> /\ dirty = <<>>
      /\ thread = [t \in PsThread |-> PsIdle] /\ removed = {} /\ dropped = 0
      /\ scan = [at |-> "wait", todo |-> PsScan, pid |-> 0, ps |-> NoPs]
  BY DEF PsInit
<1>1. /\ DOMAIN os = {} /\ DOMAIN core = {} /\ DOMAIN internal = {} /\ DOMAIN ps = {}
      /\ DOMAIN procs = {} /\ DOMAIN dirty = {}
  BY <1>0
<1>2. \A t \in PsThread : thread[t].at = "idle"
  BY <1>0 DEF PsIdle
<1>3. PsTyped
  <2>1. thread \in [PsThread -> [at : {"idle", "write", "find", "put"},
                                 pid : PsPid \cup {0}, ps : Nat]]
    BY <1>0 DEF PsIdle, NoPs
  <2>2. scan \in [at : {"wait", "next", "add", "done"}, todo : SUBSET PsScan,
                  pid : PsPid \cup {0}, ps : Nat]
    BY <1>0 DEF NoPs
  <2> QED BY <1>0, <1>1, <2>1, <2>2 DEF PsTyped
<1>4. PsPids /\ PsPointers
  BY <1>0, <1>1, <1>2 DEF PsPids, PsPointers
<1>5. PsEvents
  BY <1>1 DEF PsEvents
<1> QED
  BY <1>1, <1>3, <1>4, <1>5 DEF PsInv, PsRemovedStays, PsDirtyTimed, PsParentKept, PsParentStays

\* Each step of the snapshotters is one of these.
LEMMA PsCases ==
    ASSUME [PsNext]_psVars
    PROVE  \/ \E p \in PsPid : \E m :
                 /\ m = 0 \/ (m \in DOMAIN os /\ os[m].at = "alive")
                 /\ StartProcess(p, m)
           \/ \E n \in DOMAIN os : ExitProcess(n) \/ CloseLastHandle(n)
           \/ LoseEvent \/ WriteCore \/ WriteBlocks \/ WriteInternal \/ Remove
           \/ \E x \in timers : TimerFires(x)
           \/ \E t \in PsThread : FindEnds(t) \/ PutProcess(t) \/ \E p \in PsPid : FindStarts(t, p)
           \/ Collect
           \/ ScanStarts \/ AddHandle \/ ScanEnds \/ \E p \in PsScan : ReadState(p)
           \/ UNCHANGED psVars
BY DEF PsNext

\* The system.
Started(p, m, n) ==
    /\ n = Len(os) + 1 /\ n \notin DOMAIN os /\ DOMAIN os' = DOMAIN os \cup {n}
    /\ \A k \in DOMAIN os : k < n /\ os'[k] = os[k]
    /\ os'[n] = [pid |-> p, parent |-> m, at |-> "alive"]
    /\ os' \in Seq(PsProcess) /\ core' \in Seq(PsCoreEvent) /\ internal' \in Seq(Nat)
    /\ DOMAIN core' = DOMAIN core \cup {Len(core) + 1}
    /\ \A i \in DOMAIN core : i < Len(core) + 1 /\ core'[i] = core[i]
    /\ core'[Len(core) + 1] = [kind |-> "create", of |-> n]
    /\ DOMAIN internal' = DOMAIN internal \cup {Len(internal) + 1}
    /\ \A i \in DOMAIN internal : internal'[i] = internal[i]
    /\ internal'[Len(internal) + 1] = n

LEMMA PsStartFacts ==
    ASSUME PsTyped, NEW p \in PsPid, NEW m, StartProcess(p, m),
           m = 0 \/ (m \in DOMAIN os /\ os[m].at = "alive")
    PROVE  \E n \in Nat : Started(p, m, n)
<1>0. /\ os \in Seq(PsProcess) /\ core \in Seq(PsCoreEvent) /\ internal \in Seq(Nat)
  BY DEF PsTyped
<1>1. PICK n \in Nat : n = Len(os) + 1
  BY <1>0
<1>2. PICK o, c : o = [pid |-> p, parent |-> m, at |-> "alive"]
                  /\ c = [kind |-> "create", of |-> n]
  OBVIOUS
<1>3. m \in Nat
  BY <1>0
<1>4. o \in PsProcess /\ c \in PsCoreEvent
  BY <1>2, <1>3 DEF PsProcess, PsCoreEvent
<1>5. os' = Append(os, o) /\ core' = Append(core, c) /\ internal' = Append(internal, n)
  BY <1>1, <1>2 DEF StartProcess
<1>6. /\ os' \in Seq(PsProcess) /\ DOMAIN os' = DOMAIN os \cup {n} /\ n \notin DOMAIN os
      /\ (\A k \in DOMAIN os : os'[k] = os[k]) /\ os'[n] = o
  BY <1>0, <1>1, <1>4, <1>5, AppendAt
<1>7. /\ core' \in Seq(PsCoreEvent) /\ DOMAIN core' = DOMAIN core \cup {Len(core) + 1}
      /\ (\A i \in DOMAIN core : core'[i] = core[i]) /\ core'[Len(core) + 1] = c
  BY <1>0, <1>4, <1>5, AppendAt
<1>8. /\ internal' \in Seq(Nat) /\ DOMAIN internal' = DOMAIN internal \cup {Len(internal) + 1}
      /\ (\A i \in DOMAIN internal : internal'[i] = internal[i])
      /\ internal'[Len(internal) + 1] = n
  BY <1>0, <1>5, AppendAt
<1>9. (\A k \in DOMAIN os : k < n) /\ (\A i \in DOMAIN core : i < Len(core) + 1)
  BY <1>0, <1>1
<1> QED
  BY <1>1, <1>2, <1>6, <1>7, <1>8, <1>9 DEF Started

\* A process that ends or goes keeps the rest of its record.
LEMMA PsAtFacts ==
    ASSUME PsTyped, NEW n \in DOMAIN os, NEW a \in {"alive", "zombie", "gone"},
           os' = [os EXCEPT ![n].at = a]
    PROVE  /\ os' \in Seq(PsProcess) /\ DOMAIN os' = DOMAIN os
           /\ \A k \in DOMAIN os : /\ os'[k].pid = os[k].pid /\ os'[k].parent = os[k].parent
                                   /\ k # n => os'[k].at = os[k].at
           /\ os'[n].at = a
<1>0. os \in Seq(PsProcess) /\ \A k \in DOMAIN os : os[k] \in PsProcess
  BY DEF PsTyped
<1>1. \A k \in DOMAIN os : os'[k] = IF k = n THEN [os[k] EXCEPT !.at = a] ELSE os[k]
  OBVIOUS
<1>2. PICK r \in PsProcess : r = os[n]
  BY <1>0
<1>3. /\ [r EXCEPT !.at = a] \in PsProcess /\ [r EXCEPT !.at = a].pid = r.pid
      /\ [r EXCEPT !.at = a].parent = r.parent /\ [r EXCEPT !.at = a].at = a
  BY DEF PsProcess
<1>4. DOMAIN os' = DOMAIN os
  OBVIOUS
<1>5. os'[n] = [r EXCEPT !.at = a]
  BY <1>1, <1>2
<1>6. \A k \in DOMAIN os : os'[k] \in PsProcess
  BY <1>0, <1>1, <1>3, <1>5
<1>7. os' \in Seq(PsProcess)
  <2>1. os' \in [1 .. Len(os) -> PsProcess]
    BY <1>0, <1>4, <1>6
  <2> QED BY <1>0, <2>1
<1> QED
  BY <1>1, <1>2, <1>3, <1>4, <1>5, <1>7

LEMMA PsExitFacts ==
    ASSUME PsTyped, NEW n \in DOMAIN os, ExitProcess(n)
    PROVE  /\ os' = [os EXCEPT ![n].at = "zombie"] /\ os[n].at = "alive"
           /\ core' \in Seq(PsCoreEvent) /\ DOMAIN core' = DOMAIN core \cup {Len(core) + 1}
           /\ \A i \in DOMAIN core : i < Len(core) + 1 /\ core'[i] = core[i]
           /\ core'[Len(core) + 1] = [kind |-> "terminate", of |-> n]
<1>0. os \in Seq(PsProcess) /\ core \in Seq(PsCoreEvent)
  BY DEF PsTyped
<1>1. PICK c : c = [kind |-> "terminate", of |-> n]
  OBVIOUS
<1>2. c \in PsCoreEvent
  BY <1>0, <1>1 DEF PsCoreEvent
<1>3. /\ core' = Append(core, c) /\ os' = [os EXCEPT ![n].at = "zombie"] /\ os[n].at = "alive"
  BY <1>1 DEF ExitProcess
<1>4. /\ core' \in Seq(PsCoreEvent) /\ DOMAIN core' = DOMAIN core \cup {Len(core) + 1}
      /\ (\A i \in DOMAIN core : core'[i] = core[i]) /\ core'[Len(core) + 1] = c
  BY <1>0, <1>2, <1>3, AppendAt
<1>5. \A i \in DOMAIN core : i < Len(core) + 1
  BY <1>0
<1> QED BY <1>1, <1>3, <1>4, <1>5

\* The pid and the parent of a process do not change.
LEMMA PsOsGrows ==
    ASSUME PsTyped, [PsNext]_psVars
    PROVE  \A n \in DOMAIN os :
               n \in DOMAIN os' /\ os'[n].pid = os[n].pid /\ os'[n].parent = os[n].parent
<1>1. ASSUME NEW p \in PsPid, NEW m, StartProcess(p, m),
             m = 0 \/ (m \in DOMAIN os /\ os[m].at = "alive")
      PROVE  \A n \in DOMAIN os : n \in DOMAIN os' /\ os'[n] = os[n]
  BY <1>1, PsStartFacts DEF Started
<1>2. ASSUME NEW n \in DOMAIN os, ExitProcess(n) \/ CloseLastHandle(n)
      PROVE  \A k \in DOMAIN os :
                 k \in DOMAIN os' /\ os'[k].pid = os[k].pid /\ os'[k].parent = os[k].parent
  <2>1. PICK a \in {"alive", "zombie", "gone"} : os' = [os EXCEPT ![n].at = a]
    BY <1>2 DEF ExitProcess, CloseLastHandle
  <2> QED BY <2>1, PsAtFacts
<1>3. CASE UNCHANGED os
  BY <1>3
<1> QED
  BY <1>1, <1>2, <1>3, PsCases DEF LoseEvent, WriteCore, WriteBlocks, WriteInternal, Remove,
     TimerFires, FindEnds, PutProcess, FindStarts, Collect, ScanStarts, AddHandle, ScanEnds,
     ReadState, psVars, psSystem

LEMMA PsPidsStep ==
    ASSUME PsTyped, PsPids, [PsNext]_psVars
    PROVE  PsPids'
<1>0. /\ DOMAIN os \subseteq Nat /\ \A k \in DOMAIN os : os[k] \in PsProcess
  BY DEF PsTyped
<1>1. ASSUME NEW p \in PsPid, NEW m, StartProcess(p, m),
             m = 0 \/ (m \in DOMAIN os /\ os[m].at = "alive")
      PROVE  PsPids'
  <2>0. PICK n \in Nat : Started(p, m, n)
    BY <1>1, PsStartFacts
  <2>1. /\ n \notin DOMAIN os /\ DOMAIN os' = DOMAIN os \cup {n}
        /\ \A k \in DOMAIN os : k < n /\ os'[k] = os[k]
        /\ os'[n] = [pid |-> p, parent |-> m, at |-> "alive"]
    BY <2>0 DEF Started
  <2>2. os'[n].pid = p /\ os'[n].parent = m
    BY <2>1
  <2>3. \A k \in DOMAIN os : os[k].pid = p => os[k].at = "gone"
    BY <1>0, <1>1 DEF StartProcess, HasPid, Openable, PsProcess
  <2>4. \A k, l \in DOMAIN os' : k < l /\ os'[k].pid = os'[l].pid => os'[k].at = "gone"
    BY <1>0, <2>1, <2>2, <2>3 DEF PsPids
  <2>5. m # 0 => \A k \in DOMAIN os : m < k => os[k].pid # os[m].pid
    BY <1>1 DEF PsPids
  <2>6. m # 0 => p # os[m].pid
    BY <1>1, <2>3
  <2>7. ASSUME NEW l \in DOMAIN os', os'[l].parent # 0
        PROVE  /\ os'[l].parent \in DOMAIN os' /\ os'[l].parent < l
               /\ \A k \in DOMAIN os' :
                     os'[l].parent < k /\ k <= l => os'[k].pid # os'[os'[l].parent].pid
    <3>1. CASE l = n
      BY <1>1, <2>1, <2>2, <2>5, <2>6, <2>7, <3>1
    <3>2. CASE l \in DOMAIN os
      <4>1. /\ os'[l] = os[l] /\ os[l].parent \in DOMAIN os /\ os[l].parent < l
            /\ os'[os[l].parent] = os[os[l].parent]
            /\ \A k \in DOMAIN os :
                     os[l].parent < k /\ k <= l => os[k].pid # os[os[l].parent].pid
        BY <2>1, <2>7, <3>2 DEF PsPids
      <4>2. \A k \in DOMAIN os' : k <= l => k \in DOMAIN os /\ os'[k] = os[k]
        BY <1>0, <2>1, <3>2
      <4> QED BY <2>1, <4>1, <4>2
    <3> QED BY <2>1, <3>1, <3>2
  <2> QED BY <2>4, <2>7 DEF PsPids
<1>2. ASSUME NEW n \in DOMAIN os, ExitProcess(n) \/ CloseLastHandle(n)
      PROVE  PsPids'
  <2>1. PICK a \in {"alive", "zombie", "gone"} :
             os' = [os EXCEPT ![n].at = a] /\ (os[n].at = "gone" => a = "gone")
    BY <1>2 DEF ExitProcess, CloseLastHandle
  <2>2. /\ DOMAIN os' = DOMAIN os
        /\ \A k \in DOMAIN os : /\ os'[k].pid = os[k].pid /\ os'[k].parent = os[k].parent
                                /\ os[k].at = "gone" => os'[k].at = "gone"
    BY <2>1, PsAtFacts
  <2> QED BY <2>2 DEF PsPids
<1>3. CASE UNCHANGED os
  BY <1>3 DEF PsPids
<1> QED
  BY <1>1, <1>2, <1>3, PsCases DEF LoseEvent, WriteCore, WriteBlocks, WriteInternal, Remove,
     TimerFires, FindEnds, PutProcess, FindStarts, Collect, ScanStarts, AddHandle, ScanEnds,
     ReadState, psVars, psSystem

\* The process states that are made.
LEMMA PsStates ==
    ASSUME PsTyped, PsPids, PsPointers, NEW n \in DOMAIN os
    PROVE  /\ CoreState(n) \in PsState /\ InternalState(n) \in PsState
           /\ CoreState(n).of = n /\ InternalState(n).of = n
           /\ InternalState(n).parent = NoPs
           /\ CoreState(n).ppid = PidOf(os[n].parent)
           /\ CoreState(n).parent = Lookup(procs, PidOf(os[n].parent))
<1>a. os \in Seq(PsProcess) /\ ps \in Seq(PsState)
  BY DEF PsTyped
<1>b. \A k \in DOMAIN os : os[k] \in PsProcess
  BY <1>a
<1>0. /\ n \in Nat /\ DOMAIN ps \subseteq Nat
      /\ \A k \in DOMAIN os : os[k].pid \in PsPid
  BY <1>a, <1>b DEF PsProcess
<1>1. os[n].parent = 0 \/ os[n].parent \in DOMAIN os
  BY DEF PsPids
<1>2. PidOf(os[n].parent) \in PsPid \cup {0}
  BY <1>0, <1>1 DEF PidOf
<1>3. Lookup(procs, PidOf(os[n].parent)) \in Nat
  BY <1>0 DEF Lookup, NoPs, PsPointers, OfPid
<1>4. PICK i, l, t, f : /\ i = PidOf(os[n].parent) /\ l = Lookup(procs, i)
                        /\ t = TRUE /\ f = FALSE
  OBVIOUS
<1>5. t \in BOOLEAN /\ f \in BOOLEAN
  BY <1>4, Zenon
<1>6. [of |-> n, ppid |-> i, parent |-> l, core |-> t] \in PsState
  BY <1>0, <1>2, <1>3, <1>4, <1>5 DEF PsState
<1>7. [of |-> n, ppid |-> i, parent |-> NoPs, core |-> f] \in PsState
  BY <1>0, <1>2, <1>4, <1>5 DEF PsState, NoPs
<1>8. /\ CoreState(n) = [of |-> n, ppid |-> i, parent |-> l, core |-> t]
      /\ InternalState(n) = [of |-> n, ppid |-> i, parent |-> NoPs, core |-> f]
  BY <1>4, Zenon DEF CoreState, InternalState
<1> QED
  BY <1>4, <1>6, <1>7, <1>8

\* A step adds a state, cuts states off from a parent, or leaves them alone.
LEMMA PsResetFacts ==
    ASSUME PsTyped, NEW p, ps' = ResetParents(p)
    PROVE  /\ ps' \in Seq(PsState) /\ DOMAIN ps' = DOMAIN ps
           /\ \A x \in DOMAIN ps :
                 /\ ps'[x].of = ps[x].of /\ ps'[x].ppid = ps[x].ppid
                 /\ ps'[x].parent = ps[x].parent \/ ps'[x].parent = NoPs
                 /\ x \in {procs[q] : q \in DOMAIN procs \ {p}} /\ ps[x].ppid = p =>
                       ps'[x].parent = NoPs
<1>0. ps \in Seq(PsState) /\ \A x \in DOMAIN ps : ps[x] \in PsState
  BY DEF PsTyped
<1>1. /\ DOMAIN ps' = DOMAIN ps
      /\ \A x \in DOMAIN ps :
            ps'[x] = IF x \in {procs[q] : q \in DOMAIN procs \ {p}} /\ ps[x].ppid = p
                     THEN [ps[x] EXCEPT !.parent = NoPs] ELSE ps[x]
  BY DEF ResetParents
<1>2. \A r \in PsState :
          /\ [r EXCEPT !.parent = NoPs] \in PsState /\ [r EXCEPT !.parent = NoPs].of = r.of
          /\ [r EXCEPT !.parent = NoPs].ppid = r.ppid
          /\ [r EXCEPT !.parent = NoPs].parent = NoPs
  BY DEF PsState, NoPs
<1>3. ASSUME NEW x \in DOMAIN ps
      PROVE  /\ ps'[x] \in PsState
             /\ ps'[x].of = ps[x].of /\ ps'[x].ppid = ps[x].ppid
             /\ ps'[x].parent = ps[x].parent \/ ps'[x].parent = NoPs
             /\ x \in {procs[q] : q \in DOMAIN procs \ {p}} /\ ps[x].ppid = p =>
                   ps'[x].parent = NoPs
  <2>1. PICK r \in PsState : r = ps[x]
    BY <1>0
  <2>2. CASE ps'[x] = [r EXCEPT !.parent = NoPs]
    BY <1>2, <2>1, <2>2
  <2>3. CASE ps'[x] = r /\ ~(x \in {procs[q] : q \in DOMAIN procs \ {p}} /\ ps[x].ppid = p)
    BY <2>1, <2>3
  <2> QED BY <1>1, <2>1, <2>2, <2>3
<1>4. ps' \in [1 .. Len(ps) -> PsState]
  <2>1. ps' = [x \in DOMAIN ps |-> ps'[x]] /\ DOMAIN ps = 1 .. Len(ps)
    BY <1>0 DEF ResetParents
  <2> QED BY <1>3, <2>1
<1>5. ps' \in Seq(PsState)
  BY <1>0, <1>4
<1> QED
  BY <1>1, <1>3, <1>5

LEMMA PsAddFacts ==
    ASSUME PsTyped, NEW s \in PsState, ps' = Append(ps, s)
    PROVE  /\ ps' \in Seq(PsState) /\ DOMAIN ps' = DOMAIN ps \cup {Len(ps) + 1}
           /\ Len(ps) + 1 \notin DOMAIN ps
           /\ \A x \in DOMAIN ps : ps'[x] = ps[x]
           /\ ps'[Len(ps) + 1] = s
BY AppendAt DEF PsTyped

PsThreads == [PsThread -> [at : {"idle", "write", "find", "put"}, pid : PsPid \cup {0}, ps : Nat]]
PsScans == [at : {"wait", "next", "add", "done"}, todo : SUBSET PsScan,
            pid : PsPid \cup {0}, ps : Nat]

LEMMA PsTypedStep ==
    ASSUME PsTyped, PsPids, PsPointers, [PsNext]_psVars
    PROVE  PsTyped'
<1>0. /\ os \in Seq(PsProcess) /\ core \in Seq(PsCoreEvent) /\ internal \in Seq(Nat)
      /\ ps \in Seq(PsState) /\ thread \in PsThreads /\ scan \in PsScans
      /\ removed \subseteq DOMAIN os /\ dropped \in Nat
      /\ \A i \in DOMAIN core : core[i].of \in DOMAIN os
      /\ \A i \in DOMAIN internal : internal[i] \in DOMAIN os
  BY DEF PsTyped, PsThreads, PsScans
<1>1. ASSUME os' \in Seq(PsProcess), core' \in Seq(PsCoreEvent), internal' \in Seq(Nat),
             ps' \in Seq(PsState), thread' \in PsThreads, scan' \in PsScans,
             removed' \subseteq DOMAIN os', dropped' \in Nat,
             \A i \in DOMAIN core' : core'[i].of \in DOMAIN os',
             \A i \in DOMAIN internal' : internal'[i] \in DOMAIN os'
      PROVE  PsTyped'
  BY <1>1 DEF PsTyped, PsThreads, PsScans
<1>i. PsIdle \in [at : {"idle", "write", "find", "put"}, pid : PsPid \cup {0}, ps : Nat]
  BY DEF PsIdle, NoPs
<1>t. \A t \in PsThread : [thread EXCEPT ![t] = PsIdle] \in PsThreads
  BY <1>0, <1>i DEF PsThreads
<1>c. ASSUME core # <<>>, core' = Tail(core), os' = os
      PROVE  /\ core' \in Seq(PsCoreEvent) /\ Head(core).of \in DOMAIN os
             /\ \A i \in DOMAIN core' : core'[i].of \in DOMAIN os'
  <2>1. /\ core' \in Seq(PsCoreEvent) /\ 1 \in DOMAIN core /\ Head(core) = core[1]
        /\ \A i \in DOMAIN core' : i + 1 \in DOMAIN core /\ core'[i] = core[i + 1]
    BY <1>0, <1>c, TailAt
  <2> QED BY <1>0, <1>c, <2>1
<1>n. ASSUME internal # <<>>, internal' = Tail(internal), os' = os
      PROVE  /\ internal' \in Seq(Nat) /\ Head(internal) \in DOMAIN os
             /\ \A i \in DOMAIN internal' : internal'[i] \in DOMAIN os'
  <2>1. /\ internal' \in Seq(Nat) /\ 1 \in DOMAIN internal /\ Head(internal) = internal[1]
        /\ \A i \in DOMAIN internal' : i + 1 \in DOMAIN internal /\ internal'[i] = internal[i + 1]
    BY <1>0, <1>n, TailAt
  <2> QED BY <1>0, <1>n, <2>1
<1>2. ASSUME NEW p \in PsPid, NEW m, StartProcess(p, m),
             m = 0 \/ (m \in DOMAIN os /\ os[m].at = "alive")
      PROVE  PsTyped'
  <2>0. PICK n \in Nat : Started(p, m, n)
    BY <1>2, PsStartFacts
  <2>1. /\ DOMAIN os' = DOMAIN os \cup {n}
        /\ os' \in Seq(PsProcess) /\ core' \in Seq(PsCoreEvent) /\ internal' \in Seq(Nat)
        /\ DOMAIN core' = DOMAIN core \cup {Len(core) + 1}
        /\ \A i \in DOMAIN core : core'[i] = core[i]
        /\ core'[Len(core) + 1] = [kind |-> "create", of |-> n]
        /\ DOMAIN internal' = DOMAIN internal \cup {Len(internal) + 1}
        /\ \A i \in DOMAIN internal : internal'[i] = internal[i]
        /\ internal'[Len(internal) + 1] = n
    BY <2>0 DEF Started
  <2>2. UNCHANGED <<ps, thread, scan, removed, dropped>>
    BY <1>2 DEF StartProcess, psMaps, psHistory
  <2> QED BY <1>0, <1>1, <2>1, <2>2
<1>3. ASSUME NEW n \in DOMAIN os, ExitProcess(n)
      PROVE  PsTyped'
  <2>1. /\ core' \in Seq(PsCoreEvent) /\ DOMAIN core' = DOMAIN core \cup {Len(core) + 1}
        /\ \A i \in DOMAIN core : core'[i] = core[i]
        /\ core'[Len(core) + 1] = [kind |-> "terminate", of |-> n]
        /\ os' = [os EXCEPT ![n].at = "zombie"]
    BY <1>3, PsExitFacts
  <2>2. os' \in Seq(PsProcess) /\ DOMAIN os' = DOMAIN os
    BY <2>1, PsAtFacts
  <2>3. UNCHANGED <<internal, ps, thread, scan, removed, dropped>>
    BY <1>3 DEF ExitProcess, psMaps, psHistory
  <2> QED BY <1>0, <1>1, <2>1, <2>2, <2>3
<1>4. ASSUME NEW n \in DOMAIN os, CloseLastHandle(n)
      PROVE  PsTyped'
  <2>1. /\ os' = [os EXCEPT ![n].at = "gone"]
        /\ UNCHANGED <<core, internal, ps, thread, scan, removed, dropped>>
    BY <1>4 DEF CloseLastHandle, psMaps, psHistory
  <2>2. os' \in Seq(PsProcess) /\ DOMAIN os' = DOMAIN os
    BY <2>1, PsAtFacts
  <2> QED BY <1>0, <1>1, <2>1, <2>2
<1>5. CASE LoseEvent
  <2>1. /\ UNCHANGED <<os, ps, thread, scan, removed>> /\ dropped' = dropped + 1
        /\ \/ core # <<>> /\ core' = Tail(core) /\ UNCHANGED internal
           \/ internal # <<>> /\ internal' = Tail(internal) /\ UNCHANGED core
    BY <1>5 DEF LoseEvent, psMaps
  <2>2. core' \in Seq(PsCoreEvent) /\ \A i \in DOMAIN core' : core'[i].of \in DOMAIN os'
    BY <1>0, <1>c, <2>1
  <2>3. internal' \in Seq(Nat) /\ \A i \in DOMAIN internal' : internal'[i] \in DOMAIN os'
    BY <1>0, <1>n, <2>1
  <2> QED BY <1>0, <1>1, <2>1, <2>2, <2>3
<1>6. CASE WriteCore
  <2>1. /\ UNCHANGED <<os, internal, scan, removed, dropped>> /\ core # <<>> /\ core' = Tail(core)
        /\ ps' = Append(ps, CoreState(Head(core).of))
        /\ thread' = [thread EXCEPT !["kernel"] = PsIdle]
    BY <1>6 DEF WriteCore, NewState, psHistory
  <2>2. ps' \in Seq(PsState)
    BY <1>c, <2>1, PsStates, PsAddFacts
  <2>3. thread' \in PsThreads
    BY <1>t, <2>1 DEF PsThread
  <2> QED BY <1>0, <1>1, <1>c, <2>1, <2>2, <2>3
<1>7. CASE WriteInternal
  <2>1. /\ UNCHANGED <<os, core, thread, scan, removed, dropped>>
        /\ internal # <<>> /\ internal' = Tail(internal)
        /\ ps' = ps \/ ps' = Append(ps, InternalState(Head(internal)))
    BY <1>7 DEF WriteInternal, NewState
  <2>2. ps' \in Seq(PsState)
    BY <1>0, <1>n, <2>1, PsStates, PsAddFacts
  <2> QED BY <1>0, <1>1, <1>n, <2>1, <2>2
<1>8. CASE Remove
  <2>1. /\ UNCHANGED <<os, internal, thread, scan, dropped>> /\ core # <<>> /\ core' = Tail(core)
        /\ ps' = ResetParents(os[Head(core).of].pid) /\ removed' = removed \cup {Head(core).of}
    BY <1>8 DEF Remove
  <2>2. ps' \in Seq(PsState)
    BY <2>1, PsResetFacts
  <2> QED BY <1>0, <1>1, <1>c, <2>1, <2>2
<1>9. ASSUME NEW t \in PsThread, NEW p \in PsPid, FindStarts(t, p)
      PROVE  PsTyped'
  <2>1. PICK n \in HasPid(p) : ps' = Append(ps, InternalState(n))
    BY <1>9 DEF FindStarts, NewState, InternalState
  <2>2. n \in DOMAIN os
    BY DEF HasPid
  <2>3. ps' \in Seq(PsState)
    BY <2>1, <2>2, PsStates, PsAddFacts
  <2>4. PICK a : a \in {"find", "put"} /\
             thread' = [thread EXCEPT ![t] = [at |-> a, pid |-> p, ps |-> Len(ps) + 1]]
    BY <1>9 DEF FindStarts
  <2>5. thread' \in PsThreads
    BY <1>0, <2>4 DEF PsThreads
  <2>6. UNCHANGED <<os, core, internal, scan, removed, dropped>>
    BY <1>9 DEF FindStarts, psSystem
  <2> QED BY <1>0, <1>1, <2>3, <2>5, <2>6
<1>10. CASE WriteBlocks \/ \E t \in PsThread : FindEnds(t) \/ PutProcess(t)
  <2>1. PICK t \in PsThread :
             \/ \E a \in {"write", "put"} : thread' = [thread EXCEPT ![t].at = a]
             \/ thread' = [thread EXCEPT ![t] = PsIdle]
    BY <1>10 DEF WriteBlocks, FindEnds, PutProcess, PsThread
  <2>2. UNCHANGED <<os, core, internal, ps, scan, removed, dropped>>
    BY <1>10 DEF WriteBlocks, FindEnds, PutProcess, psSystem, psMaps, psHistory
  <2>3. \A a \in {"write", "put"} : [thread EXCEPT ![t].at = a] \in PsThreads
    BY <1>0 DEF PsThreads
  <2>4. thread' \in PsThreads
    BY <1>t, <2>1, <2>3
  <2> QED BY <1>0, <1>1, <2>2, <2>4
<1>11. CASE ScanStarts \/ AddHandle \/ ScanEnds
  <2>1. UNCHANGED <<os, core, internal, ps, thread, removed, dropped>>
    BY <1>11 DEF ScanStarts, AddHandle, ScanEnds, psSystem, psMaps, psHistory
  <2>2. PICK a, l : /\ a \in {"next", "done"} /\ l \in {NoPs, scan.ps}
                    /\ \/ scan' = [scan EXCEPT !.at = a]
                       \/ scan' = [scan EXCEPT !.at = a, !.ps = l]
    BY <1>11, Zenon DEF ScanStarts, AddHandle, ScanEnds
  <2>3. scan.ps \in Nat /\ NoPs \in Nat
    BY <1>0 DEF PsScans, NoPs
  <2>4. [scan EXCEPT !.at = a] \in PsScans
    BY <1>0, <2>2 DEF PsScans
  <2>5. [scan EXCEPT !.at = a, !.ps = l] \in PsScans
    BY <1>0, <2>2, <2>3 DEF PsScans
  <2> QED BY <1>0, <1>1, <2>1, <2>2, <2>4, <2>5
<1>12. ASSUME NEW p \in PsScan, ReadState(p)
       PROVE  PsTyped'
  <2>1. UNCHANGED <<os, core, internal, ps, thread, removed, dropped>>
    BY <1>12 DEF ReadState, psSystem, psMaps, psHistory
  <2>2. PICK a, l : /\ a \in {"next", "add"} /\ l = Lookup(procs, p)
                    /\ scan' = [at |-> a, todo |-> scan.todo \ {p}, pid |-> p, ps |-> l]
    BY <1>12 DEF ReadState
  <2>3. l \in Nat /\ p \in PsPid
    BY <1>0, <2>2, PsAssumption DEF Lookup, NoPs, PsPointers, OfPid
  <2>4. scan' \in PsScans
    BY <1>0, <2>2, <2>3 DEF PsScans
  <2> QED BY <1>0, <1>1, <2>1, <2>4
<1>13. CASE Collect \/ (\E x \in timers : TimerFires(x)) \/ UNCHANGED psVars
  <2>1. UNCHANGED <<os, core, internal, ps, thread, scan, removed, dropped>>
    BY <1>13 DEF Collect, TimerFires, psVars, psSystem, psMaps, psHistory
  <2> QED BY <1>0, <1>1, <2>1
<1> QED
  BY <1>2, <1>3, <1>4, <1>5, <1>6, <1>7, <1>8, <1>9, <1>10, <1>11, <1>12, <1>13, PsCases

\* A state stays of its process and keeps its parent or loses it; only the
\* write of a CreateProcess event makes one with a parent.
LEMMA PsHeapStep ==
    ASSUME PsTyped, PsPids, PsPointers, [PsNext]_psVars
    PROVE  /\ \A x \in DOMAIN ps :
                 /\ x \in DOMAIN ps' /\ ps'[x].of = ps[x].of /\ ps'[x].ppid = ps[x].ppid
                 /\ ps'[x].parent = ps[x].parent \/ ps'[x].parent = NoPs
           /\ \A x \in DOMAIN ps' \ DOMAIN ps :
                 /\ ps'[x].of \in DOMAIN os
                 /\ ps'[x].parent # NoPs =>
                       /\ WriteCore /\ ps'[x].of = Head(core).of
                       /\ ps'[x].ppid = PidOf(os[Head(core).of].parent)
                       /\ ps'[x].parent = Lookup(procs, PidOf(os[Head(core).of].parent))
<1>0. /\ core \in Seq(PsCoreEvent) /\ internal \in Seq(Nat)
      /\ \A i \in DOMAIN core : core[i].of \in DOMAIN os
      /\ \A i \in DOMAIN internal : internal[i] \in DOMAIN os
  BY DEF PsTyped
<1>1. CASE WriteCore
  <2>1. core # <<>> /\ ps' = Append(ps, CoreState(Head(core).of))
    BY <1>1 DEF WriteCore, NewState
  <2>2. Head(core).of \in DOMAIN os
    BY <1>0, <2>1
  <2>3. PICK s \in PsState : s = CoreState(Head(core).of)
    BY <2>2, PsStates
  <2>4. /\ s.of = Head(core).of /\ s.ppid = PidOf(os[Head(core).of].parent)
        /\ s.parent = Lookup(procs, PidOf(os[Head(core).of].parent))
    BY <2>2, <2>3, PsStates
  <2>5. /\ DOMAIN ps' = DOMAIN ps \cup {Len(ps) + 1} /\ ps'[Len(ps) + 1] = s
        /\ \A x \in DOMAIN ps : ps'[x] = ps[x]
    BY <2>1, <2>3, PsAddFacts
  <2> QED BY <1>1, <2>2, <2>4, <2>5
<1>2. ASSUME NEW n \in DOMAIN os, ps' = Append(ps, InternalState(n))
      PROVE  /\ \A x \in DOMAIN ps : x \in DOMAIN ps' /\ ps'[x] = ps[x]
             /\ \A x \in DOMAIN ps' \ DOMAIN ps : ps'[x].of = n /\ ps'[x].parent = NoPs
  <2>1. PICK s \in PsState : s = InternalState(n)
    BY PsStates
  <2>2. s.of = n /\ s.parent = NoPs
    BY <2>1, PsStates
  <2>3. /\ DOMAIN ps' = DOMAIN ps \cup {Len(ps) + 1} /\ ps'[Len(ps) + 1] = s
        /\ \A x \in DOMAIN ps : ps'[x] = ps[x]
    BY <1>2, <2>1, PsAddFacts
  <2> QED BY <2>2, <2>3
<1>3. CASE WriteInternal
  <2>1. internal # <<>> /\ (ps' = ps \/ ps' = Append(ps, InternalState(Head(internal))))
    BY <1>3 DEF WriteInternal, NewState
  <2>2. Head(internal) \in DOMAIN os
    BY <1>0, <2>1
  <2> QED BY <1>2, <2>1, <2>2
<1>4. ASSUME NEW t \in PsThread, NEW p \in PsPid, FindStarts(t, p)
      PROVE  /\ \A x \in DOMAIN ps : x \in DOMAIN ps' /\ ps'[x] = ps[x]
             /\ \A x \in DOMAIN ps' \ DOMAIN ps : ps'[x].of \in DOMAIN os /\ ps'[x].parent = NoPs
  <2>1. PICK n \in HasPid(p) : ps' = Append(ps, InternalState(n))
    BY <1>4 DEF FindStarts, NewState, InternalState
  <2>2. n \in DOMAIN os
    BY DEF HasPid
  <2> QED BY <1>2, <2>1, <2>2
<1>5. CASE Remove
  <2>1. PICK p : ps' = ResetParents(p)
    BY <1>5 DEF Remove
  <2> QED BY <2>1, PsResetFacts
<1>6. CASE UNCHANGED ps
  BY <1>6
<1> QED
  BY <1>1, <1>3, <1>4, <1>5, <1>6, PsCases DEF StartProcess, ExitProcess, CloseLastHandle,
     LoseEvent, WriteBlocks, TimerFires, FindEnds, PutProcess, Collect, ScanStarts, AddHandle,
     ScanEnds, ReadState, psVars, psMaps

LEMMA OfPidKept ==
    ASSUME PsTyped, PsPids, PsPointers, [PsNext]_psVars, NEW x, NEW p, OfPid(x, p)
    PROVE  OfPid(x, p)'
BY PsHeapStep, PsOsGrows DEF OfPid

\* Where the steps store the states that they make.
LEMMA PsStored ==
    ASSUME PsTyped, PsPids, PsPointers, NEW n \in DOMAIN os, os' = os,
           ps' = Append(ps, CoreState(n)) \/ ps' = Append(ps, InternalState(n))
    PROVE  \E x : /\ x = Len(ps) + 1 /\ x \in DOMAIN ps' \ DOMAIN ps /\ ps'[x].of = n
                  /\ \A p : p = os[n].pid => OfPid(x, p)'
                  /\ ps' = Append(ps, InternalState(n)) => ps'[x].parent = NoPs
<1>1. ASSUME NEW s \in PsState, ps' = Append(ps, s), s.of = n
      PROVE  \E x : /\ x = Len(ps) + 1 /\ x \in DOMAIN ps' \ DOMAIN ps /\ ps'[x] = s
                    /\ \A p : p = os[n].pid => OfPid(x, p)'
  <2>1. PICK x : x = Len(ps) + 1
    OBVIOUS
  <2>2. x \in DOMAIN ps' \ DOMAIN ps /\ ps'[x] = s
    BY <1>1, <2>1, PsAddFacts
  <2>3. \A p : p = os[n].pid => OfPid(x, p)'
    BY <1>1, <2>2 DEF OfPid
  <2> QED BY <2>1, <2>2, <2>3
<1> QED BY <1>1, PsStates

LEMMA PsPointersStep ==
    ASSUME PsTyped, PsPids, PsPointers, [PsNext]_psVars
    PROVE  PsPointers'
<1>a. /\ \A x \in DOMAIN ps : x \in DOMAIN ps' /\ ps'[x].of = ps[x].of
      /\ \A n \in DOMAIN os : n \in DOMAIN os'
  BY PsHeapStep, PsOsGrows
<1>b. \A x, p : OfPid(x, p) => OfPid(x, p)'
  BY OfPidKept
<1>c. /\ core \in Seq(PsCoreEvent) /\ internal \in Seq(Nat) /\ thread \in PsThreads
      /\ \A i \in DOMAIN core : core[i].of \in DOMAIN os
      /\ \A i \in DOMAIN internal : internal[i] \in DOMAIN os
  BY DEF PsTyped, PsThreads
<1>1. \A x \in DOMAIN ps' : ps'[x].of \in DOMAIN os'
  BY <1>a, PsHeapStep DEF PsPointers
<1>2. ASSUME NEW x \in DOMAIN ps', ps'[x].parent # NoPs
      PROVE  \E y, p : y = ps'[x].parent /\ p = ps'[x].ppid /\ OfPid(y, p)
  <2>1. CASE x \in DOMAIN ps
    BY <1>2, <2>1, PsHeapStep DEF PsPointers
  <2>2. CASE x \notin DOMAIN ps
    <3>1. /\ ps'[x].ppid = PidOf(os[Head(core).of].parent)
          /\ ps'[x].parent = Lookup(procs, PidOf(os[Head(core).of].parent))
      BY <1>2, <2>2, PsHeapStep
    <3>2. ps'[x].ppid \in DOMAIN procs /\ ps'[x].parent = procs[ps'[x].ppid]
      BY <1>2, <3>1 DEF Lookup
    <3> QED BY <3>2 DEF PsPointers
  <2> QED BY <2>1, <2>2
<1>3. \A x \in DOMAIN ps' : ps'[x].parent # NoPs => OfPid(ps[x].parent, ps[x].ppid)'
  BY <1>b, <1>2
\* What is stored.
<1>s. ASSUME NEW p, NEW x, procs' = Store(procs, p, x)
      PROVE  /\ DOMAIN procs' = DOMAIN procs \cup {p} /\ procs'[p] = x
             /\ \A q \in DOMAIN procs : q # p => procs'[q] = procs[q]
  BY <1>s DEF Store
<1>4. ASSUME NEW p, NEW x, NEW q \in DOMAIN procs', procs' = Store(procs, p, x), OfPid(x, p)'
      PROVE  OfPid(procs[q], q)'
  <2>0. /\ DOMAIN procs' = DOMAIN procs \cup {p} /\ procs'[p] = x
        /\ \A r \in DOMAIN procs : r # p => procs'[r] = procs[r]
    BY <1>4, <1>s
  <2>1. CASE q = p
    <3>1. procs'[q] = x
      BY <2>0, <2>1
    <3> QED BY <1>4, <2>1, <3>1 DEF OfPid
  <2>2. CASE q # p
    <3>1. q \in DOMAIN procs /\ procs'[q] = procs[q]
      BY <2>0, <2>2
    <3>2. \E y : y = procs[q] /\ OfPid(y, q)
      BY <3>1 DEF PsPointers
    <3> QED BY <1>b, <3>1, <3>2
  <2> QED BY <2>1, <2>2
<1>5. ASSUME NEW q \in DOMAIN procs', q \in DOMAIN procs, procs'[q] = procs[q]
      PROVE  OfPid(procs[q], q)'
  <2>1. \E y : y = procs[q] /\ OfPid(y, q)
    BY <1>5 DEF PsPointers
  <2> QED BY <1>b, <1>5, <2>1
\* A lookup under way.
<1>6. ASSUME NEW t \in PsThread, thread[t].at \in {"find", "put"}, thread'[t].pid = thread[t].pid,
             thread'[t].ps = thread[t].ps
      PROVE  (OfPid(thread[t].ps, thread[t].pid) /\ ps[thread[t].ps].parent = NoPs)'
  <2>1. PICK y, p : y = thread[t].ps /\ p = thread[t].pid
    OBVIOUS
  <2>2. OfPid(y, p) /\ ps[y].parent = NoPs
    BY <1>6, <2>1 DEF PsPointers
  <2>3. OfPid(y, p)' /\ ps'[y].parent = NoPs
    BY <1>b, <2>2, PsHeapStep DEF OfPid
  <2> QED BY <1>6, <2>1, <2>3
<1>7. ASSUME NEW q \in DOMAIN procs'
      PROVE  OfPid(procs[q], q)'
  <2>1. CASE WriteCore
    <3>1. PICK n \in DOMAIN os : /\ os' = os /\ ps' = Append(ps, CoreState(n))
                                 /\ procs' = Store(procs, os[n].pid, Len(ps) + 1)
      <4>1. core # <<>> => Head(core).of \in DOMAIN os
        BY <1>c
      <4> QED BY <2>1, <4>1 DEF WriteCore, NewState
    <3>2. PICK x : x = Len(ps) + 1 /\ \A p : p = os[n].pid => OfPid(x, p)'
      BY <3>1, PsStored
    <3> QED BY <1>4, <3>1, <3>2
  <2>2. CASE WriteInternal
    <3>1. PICK n \in DOMAIN os : n = Head(internal)
      BY <1>c, <2>2 DEF WriteInternal
    <3>2. CASE procs' = procs
      BY <1>5, <3>2
    <3>3. CASE /\ ps' = Append(ps, InternalState(n)) /\ os' = os
               /\ procs' = Store(procs, os[n].pid, Len(ps) + 1)
      <4>1. PICK x : x = Len(ps) + 1 /\ \A p : p = os[n].pid => OfPid(x, p)'
        BY <3>3, PsStored
      <4> QED BY <1>4, <3>3, <4>1
    <3> QED BY <2>2, <3>1, <3>2, <3>3 DEF WriteInternal, NewState
  <2>3. CASE Remove
    <3>1. q \in DOMAIN procs /\ procs'[q] = procs[q]
      BY <2>3 DEF Remove, Removed, Erase
    <3> QED BY <1>5, <3>1
  <2>4. ASSUME NEW t \in PsThread, PutProcess(t)
        PROVE  OfPid(procs[q], q)'
    <3>1. PICK x, p : x = thread[t].ps /\ p = thread[t].pid
      OBVIOUS
    <3>2. procs' = Store(procs, p, x) /\ OfPid(x, p)
      BY <2>4, <3>1 DEF PutProcess, PsPointers
    <3> QED BY <1>4, <1>b, <3>2
  <2>5. CASE AddHandle
    <3>1. PICK x, p : x = scan.ps /\ p = scan.pid
      OBVIOUS
    <3>2. procs' = Store(procs, p, x) /\ OfPid(x, p)
      BY <2>5, <3>1 DEF AddHandle, PsPointers
    <3> QED BY <1>4, <1>b, <3>2
  <2>6. CASE Collect
    <3>1. q \in DOMAIN procs /\ procs'[q] = procs[q]
      BY <2>6 DEF Collect
    <3> QED BY <1>5, <3>1
  <2>7. CASE procs' = procs
    BY <1>5, <2>7
  <2> QED
    BY <2>1, <2>2, <2>3, <2>4, <2>5, <2>6, <2>7, PsCases DEF StartProcess, ExitProcess,
       CloseLastHandle, LoseEvent, WriteBlocks, TimerFires, FindStarts, FindEnds, ScanStarts,
       ScanEnds, ReadState, psVars, psMaps
<1>8. ASSUME NEW u \in PsThread, thread'[u].at \in {"find", "put"}
      PROVE  (OfPid(thread[u].ps, thread[u].pid) /\ ps[thread[u].ps].parent = NoPs)'
  <2>1. ASSUME NEW t \in PsThread, NEW p \in PsPid, FindStarts(t, p)
        PROVE  (OfPid(thread[u].ps, thread[u].pid) /\ ps[thread[u].ps].parent = NoPs)'
    <3>1. PICK n \in HasPid(p) : ps' = Append(ps, InternalState(n))
      BY <2>1 DEF FindStarts, NewState, InternalState
    <3>2. n \in DOMAIN os /\ os[n].pid = p /\ os' = os
      BY <2>1 DEF HasPid, FindStarts, psSystem
    <3>3. PICK x : x = Len(ps) + 1 /\ OfPid(x, p)' /\ ps'[x].parent = NoPs
      BY <3>1, <3>2, PsStored
    <3>4. PICK a : thread' = [thread EXCEPT ![t] = [at |-> a, pid |-> p, ps |-> x]]
      BY <2>1, <3>3 DEF FindStarts
    <3>5. CASE u = t
      <4>1. thread'[u].pid = p /\ thread'[u].ps = x
        BY <1>c, <3>4, <3>5 DEF PsThreads
      <4> QED BY <3>3, <4>1 DEF OfPid
    <3>6. CASE u # t
      <4>1. thread'[u] = thread[u]
        BY <1>c, <3>4, <3>6 DEF PsThreads
      <4> QED BY <1>6, <1>8, <4>1
    <3> QED BY <3>5, <3>6
  <2>2. ASSUME NEW t \in PsThread, NEW a, thread' = [thread EXCEPT ![t].at = a],
               a = "write" \/ (a = "put" /\ thread[t].at = "find")
        PROVE  (OfPid(thread[u].ps, thread[u].pid) /\ ps[thread[u].ps].parent = NoPs)'
    <3>1. thread'[u].pid = thread[u].pid /\ thread'[u].ps = thread[u].ps
      BY <1>c, <2>2 DEF PsThreads
    <3>2. thread'[u].at = IF u = t THEN a ELSE thread[u].at
      BY <1>c, <2>2 DEF PsThreads
    <3>3. thread[u].at \in {"find", "put"}
      BY <1>8, <2>2, <3>2
    <3> QED BY <1>6, <3>1, <3>3
  <2>3. ASSUME NEW t \in PsThread, thread' = [thread EXCEPT ![t] = PsIdle]
        PROVE  (OfPid(thread[u].ps, thread[u].pid) /\ ps[thread[u].ps].parent = NoPs)'
    <3>1. u = t => thread'[u].at = "idle"
      BY <1>c, <2>3 DEF PsThreads, PsIdle
    <3>2. thread'[u] = thread[u]
      BY <1>8, <1>c, <2>3, <3>1 DEF PsThreads
    <3> QED BY <1>6, <1>8, <3>2
  <2>4. CASE thread' = thread
    BY <1>6, <1>8, <2>4
  <2>5. CASE WriteBlocks \/ WriteCore
    <3>1. "kernel" \in PsThread
      BY DEF PsThread
    <3> QED BY <2>2, <2>3, <2>5, <3>1 DEF WriteBlocks, WriteCore
  <2>6. CASE \E t \in PsThread : FindEnds(t) \/ PutProcess(t)
    BY <2>2, <2>3, <2>6 DEF FindEnds, PutProcess
  <2> QED
    BY <2>1, <2>4, <2>5, <2>6, PsCases DEF StartProcess, ExitProcess,
       CloseLastHandle, LoseEvent, WriteInternal, Remove, TimerFires, ScanStarts, AddHandle,
       ScanEnds, ReadState, Collect, psVars
<1>9. ASSUME scan'.at = "add"
      PROVE  OfPid(scan.ps, scan.pid)'
  <2>1. PICK y, p : y = scan'.ps /\ p = scan'.pid
    OBVIOUS
  <2>2. ASSUME NEW q \in PsScan, ReadState(q)
        PROVE  OfPid(y, p)
    <3>1. p = q /\ y = Lookup(procs, q) /\ q \in DOMAIN procs
      BY <1>9, <2>1, <2>2 DEF ReadState
    <3> QED BY <3>1 DEF Lookup, PsPointers
  <2>3. ASSUME scan' = scan PROVE OfPid(y, p)
    <3>1. scan.at = "add" /\ y = scan.ps /\ p = scan.pid
      BY <1>9, <2>1, <2>3
    <3> QED BY <3>1 DEF PsPointers
  <2>4. ASSUME ScanStarts \/ AddHandle \/ ScanEnds PROVE FALSE
    <3>1. scan \in PsScans
      BY DEF PsTyped, PsScans
    <3>2. scan'.at # "add"
      BY <2>4, <3>1 DEF ScanStarts, AddHandle, ScanEnds, PsScans
    <3> QED BY <1>9, <3>2
  <2>5. \/ scan' = scan \/ ScanStarts \/ AddHandle \/ ScanEnds
        \/ \E q \in PsScan : ReadState(q)
    BY PsCases DEF StartProcess, ExitProcess, CloseLastHandle, LoseEvent,
       WriteCore, WriteBlocks, WriteInternal, Remove, TimerFires, FindStarts, FindEnds,
       PutProcess, Collect, psVars
  <2>6. OfPid(y, p)
    BY <2>2, <2>3, <2>4, <2>5
  <2> QED BY <1>b, <2>1, <2>6
<1> QED
  BY <1>1, <1>3, <1>7, <1>8, <1>9 DEF PsPointers

LEMMA PsEventsStep ==
    ASSUME PsTyped, PsPids, PsEvents, [PsNext]_psVars
    PROVE  PsEvents'
<1>0. /\ os \in Seq(PsProcess) /\ core \in Seq(PsCoreEvent) /\ removed \subseteq DOMAIN os
      /\ dropped \in Nat /\ \A i \in DOMAIN core : core[i].of \in DOMAIN os
  BY DEF PsTyped
<1>d. DOMAIN core \subseteq Nat /\ DOMAIN os \subseteq Nat
  BY <1>0
<1>a. \A i, j \in DOMAIN core : core[i].kind = "create" /\ j < i => ~Ends(core[i].of, j)
  BY DEF PsEvents
<1>b. \A i \in DOMAIN core : core[i].kind = "create" => core[i].of \notin removed
  BY DEF PsEvents
<1>e. dropped = 0 => \A n \in DOMAIN os : os[n].at # "alive" =>
                        n \in removed \/ \E j \in DOMAIN core : Ends(n, j)
  BY DEF PsEvents
<1>f. dropped = 0 => \A i \in DOMAIN core : \A m, n \in DOMAIN os :
          core[i].kind = "create" /\ n < m /\ m <= core[i].of /\ os[n].pid = os[m].pid =>
              n \in removed \/ \E j \in DOMAIN core : j < i /\ Ends(n, j)
  BY DEF PsEvents
<1>g. ASSUME \A i, j \in DOMAIN core' : core'[i].kind = "create" /\ j < i => ~Ends(core[i].of, j)',
             \A i \in DOMAIN core' : core'[i].kind = "create" => core'[i].of \notin removed',
             dropped' = 0 => \A n \in DOMAIN os' : os'[n].at # "alive" =>
                 n \in removed' \/ \E j \in DOMAIN core' : Ends(n, j)',
             dropped' = 0 => \A i \in DOMAIN core' : \A m, n \in DOMAIN os' :
                 core'[i].kind = "create" /\ n < m /\ m <= core'[i].of /\ os'[n].pid = os'[m].pid =>
                     n \in removed' \/ \E j \in DOMAIN core' : j < i /\ Ends(n, j)'
      PROVE  PsEvents'
  BY <1>g DEF PsEvents
<1>1. ASSUME NEW p \in PsPid, NEW m, StartProcess(p, m),
             m = 0 \/ (m \in DOMAIN os /\ os[m].at = "alive")
      PROVE  PsEvents'
  <2>0. PICK n \in Nat : Started(p, m, n)
    BY <1>1, PsStartFacts
  <2>1. /\ n \notin DOMAIN os /\ DOMAIN os' = DOMAIN os \cup {n}
        /\ \A k \in DOMAIN os : k < n /\ os'[k] = os[k]
        /\ os'[n] = [pid |-> p, parent |-> m, at |-> "alive"]
        /\ DOMAIN core' = DOMAIN core \cup {Len(core) + 1}
        /\ \A i \in DOMAIN core : i < Len(core) + 1 /\ core'[i] = core[i]
        /\ core'[Len(core) + 1] = [kind |-> "create", of |-> n]
    BY <2>0 DEF Started
  <2>2. PICK c \in Nat : c = Len(core) + 1
    BY <1>0
  <2>3. /\ core'[c].kind = "create" /\ core'[c].of = n /\ DOMAIN core' = DOMAIN core \cup {c}
        /\ \A i \in DOMAIN core : i < c /\ core'[i] = core[i]
        /\ os'[n].pid = p /\ os'[n].at = "alive"
    BY <2>1, <2>2
  <2>4. removed' = removed /\ dropped' = dropped
    BY <1>1 DEF StartProcess, psHistory
  <2>5. \A k \in DOMAIN os : os[k].pid = p => os[k].at = "gone"
    <3>1. \A k \in DOMAIN os : os[k] \in PsProcess
      BY <1>0
    <3>2. HasPid(p) = {}
      BY <1>1 DEF StartProcess
    <3> QED BY <3>1, <3>2 DEF HasPid, Openable, PsProcess
  <2>6. \A i, j \in DOMAIN core' : core'[i].kind = "create" /\ j < i => ~Ends(core[i].of, j)'
    BY <1>0, <1>a, <1>d, <2>1, <2>2, <2>3 DEF Ends
  <2>7. \A i \in DOMAIN core' : core'[i].kind = "create" => core'[i].of \notin removed'
    BY <1>0, <1>b, <2>1, <2>3, <2>4
  <2>8. ASSUME dropped' = 0, NEW k \in DOMAIN os, os[k].at # "alive"
        PROVE  k \in removed' \/ \E j \in DOMAIN core' : j < c /\ Ends(k, j)'
    BY <1>e, <2>3, <2>4, <2>8 DEF Ends
  <2>9. ASSUME dropped' = 0, NEW i \in DOMAIN core', NEW l \in DOMAIN os', NEW k \in DOMAIN os',
               core'[i].kind = "create", k < l, l <= core'[i].of, os'[k].pid = os'[l].pid
        PROVE  k \in removed' \/ \E j \in DOMAIN core' : j < i /\ Ends(k, j)'
    <3>1. k \in DOMAIN os /\ os'[k] = os[k]
      BY <1>d, <2>1, <2>9
    <3>2. CASE i = c
      <4>1. os[k].at = "gone"
        BY <2>1, <2>3, <2>5, <2>9, <3>1 DEF PsPids
      <4> QED BY <2>8, <2>9, <3>1, <3>2, <4>1
    <3>3. CASE i \in DOMAIN core
      <4>1. l \in DOMAIN os /\ os'[l] = os[l] /\ core'[i] = core[i]
        BY <1>0, <1>d, <2>1, <2>3, <2>9, <3>3
      <4>2. k \in removed \/ \E j \in DOMAIN core : j < i /\ Ends(k, j)
        BY <1>f, <2>4, <2>9, <3>1, <3>3, <4>1
      <4> QED BY <2>3, <2>4, <4>2 DEF Ends
    <3> QED BY <2>3, <3>2, <3>3
  <2>10. ASSUME dropped' = 0, NEW k \in DOMAIN os', os'[k].at # "alive"
         PROVE  k \in removed' \/ \E j \in DOMAIN core' : Ends(k, j)'
    BY <2>1, <2>3, <2>8, <2>10
  <2> QED BY <1>g, <2>6, <2>7, <2>9, <2>10
<1>2. ASSUME NEW n \in DOMAIN os, ExitProcess(n)
      PROVE  PsEvents'
  <2>1. /\ os' = [os EXCEPT ![n].at = "zombie"] /\ os[n].at = "alive"
        /\ DOMAIN core' = DOMAIN core \cup {Len(core) + 1}
        /\ \A i \in DOMAIN core : i < Len(core) + 1 /\ core'[i] = core[i]
        /\ core'[Len(core) + 1] = [kind |-> "terminate", of |-> n]
    BY <1>2, PsExitFacts
  <2>2. PICK c \in Nat : c = Len(core) + 1
    BY <1>0
  <2>3. /\ core'[c].kind = "terminate" /\ core'[c].of = n /\ DOMAIN core' = DOMAIN core \cup {c}
        /\ \A i \in DOMAIN core : i < c /\ core'[i] = core[i]
    BY <2>1, <2>2
  <2>4. removed' = removed /\ dropped' = dropped
    BY <1>2 DEF ExitProcess, psHistory
  <2>5. /\ DOMAIN os' = DOMAIN os
        /\ \A k \in DOMAIN os : os'[k].pid = os[k].pid /\ (k # n => os'[k].at = os[k].at)
    BY <2>1, PsAtFacts
  <2>6. \A i, j \in DOMAIN core' : core'[i].kind = "create" /\ j < i => ~Ends(core[i].of, j)'
    BY <1>a, <1>d, <2>2, <2>3 DEF Ends
  <2>7. \A i \in DOMAIN core' : core'[i].kind = "create" => core'[i].of \notin removed'
    BY <1>b, <2>3, <2>4
  <2>8. ASSUME dropped' = 0, NEW k \in DOMAIN os', os'[k].at # "alive"
        PROVE  k \in removed' \/ \E j \in DOMAIN core' : Ends(k, j)'
    <3>1. CASE k = n
      BY <2>3, <3>1 DEF Ends
    <3>2. CASE k # n
      BY <1>e, <2>3, <2>4, <2>5, <2>8, <3>2 DEF Ends
    <3> QED BY <3>1, <3>2
  <2>9. ASSUME dropped' = 0, NEW i \in DOMAIN core', NEW l \in DOMAIN os', NEW k \in DOMAIN os',
               core'[i].kind = "create", k < l, l <= core'[i].of, os'[k].pid = os'[l].pid
        PROVE  k \in removed' \/ \E j \in DOMAIN core' : j < i /\ Ends(k, j)'
    <3>1. i \in DOMAIN core /\ core'[i] = core[i]
      BY <2>3, <2>9
    <3>2. k \in removed \/ \E j \in DOMAIN core : j < i /\ Ends(k, j)
      BY <1>f, <2>4, <2>5, <2>9, <3>1
    <3> QED BY <2>3, <2>4, <3>2 DEF Ends
  <2> QED BY <1>g, <2>6, <2>7, <2>8, <2>9
<1>3. ASSUME NEW n \in DOMAIN os, CloseLastHandle(n)
      PROVE  PsEvents'
  <2>1. /\ os' = [os EXCEPT ![n].at = "gone"] /\ os[n].at = "zombie"
        /\ UNCHANGED <<core, removed, dropped>>
    BY <1>3 DEF CloseLastHandle, psHistory
  <2>2. /\ DOMAIN os' = DOMAIN os
        /\ \A k \in DOMAIN os : os'[k].pid = os[k].pid /\ (k # n => os'[k].at = os[k].at)
    BY <2>1, PsAtFacts
  <2>3. \A k \in DOMAIN os : os'[k].at # "alive" => os[k].at # "alive"
    BY <2>1, <2>2
  <2>4. \A k, j : Ends(k, j)' <=> Ends(k, j)
    BY <2>1 DEF Ends
  <2> QED BY <1>a, <1>b, <1>e, <1>f, <1>g, <2>1, <2>2, <2>3, <2>4 DEF Ends
\* The event at the head is taken.
<1>4. ASSUME core # <<>>, core' = Tail(core), os' = os, dropped \in Nat, dropped' \in Nat,
             \/ removed' = removed /\ dropped' # 0
             \/ removed' = removed /\ dropped' = dropped /\ Head(core).kind = "create"
             \/ /\ removed' = removed \cup {Head(core).of} /\ dropped' = dropped
                /\ Head(core).kind = "terminate"
      PROVE  PsEvents'
  <2>1. /\ 1 \in DOMAIN core /\ Head(core) = core[1]
        /\ \A i \in DOMAIN core' : i + 1 \in DOMAIN core /\ core'[i] = core[i + 1]
        /\ \A i \in DOMAIN core : i = 1 \/ (i - 1 \in DOMAIN core' /\ core'[i - 1] = core[i])
        /\ DOMAIN core' \subseteq Nat \ {0}
    <3>1. /\ 1 \in DOMAIN core /\ Head(core) = core[1]
          /\ \A i \in DOMAIN core' : i + 1 \in DOMAIN core /\ core'[i] = core[i + 1]
      BY <1>0, <1>4, TailAt
    <3>2. Len(core') = Len(core) - 1 /\ core' \in Seq(PsCoreEvent)
      BY <1>0, <1>4
    <3>3. \A i \in DOMAIN core : i = 1 \/ (i - 1 \in DOMAIN core' /\ core'[i - 1] = core[i])
      BY <1>0, <1>4, <3>2
    <3>4. DOMAIN core' \subseteq Nat \ {0}
      BY <3>2
    <3> QED BY <3>1, <3>3, <3>4
  <2>2. \A i, j \in DOMAIN core' : core'[i].kind = "create" /\ j < i => ~Ends(core[i].of, j)'
    BY <1>a, <2>1 DEF Ends
  <2>3. ASSUME NEW i \in DOMAIN core', core'[i].kind = "create"
        PROVE  core'[i].of \notin removed'
    <3>1. i + 1 \in DOMAIN core /\ core'[i] = core[i + 1] /\ 1 < i + 1
      BY <2>1
    <3>2. core'[i].of \notin removed /\ ~Ends(core'[i].of, 1)
      BY <1>a, <1>b, <2>1, <2>3, <3>1
    <3> QED BY <1>4, <2>1, <3>2 DEF Ends
  <2>4. ASSUME dropped' = 0 PROVE dropped = 0 /\ removed \subseteq removed'
    BY <1>4, <2>4
  <2>5. ASSUME dropped' = 0, NEW k, NEW j \in DOMAIN core, Ends(k, j)
        PROVE  k \in removed' \/ (j - 1 \in DOMAIN core' /\ Ends(k, j - 1)')
    <3>1. CASE j = 1
      BY <1>4, <2>1, <2>5, <3>1 DEF Ends
    <3>2. CASE j # 1
      BY <2>1, <2>5, <3>2 DEF Ends
    <3> QED BY <3>1, <3>2
  <2>6. ASSUME dropped' = 0, NEW k \in DOMAIN os', os'[k].at # "alive"
        PROVE  k \in removed' \/ \E j \in DOMAIN core' : Ends(k, j)'
    <3>1. k \in removed \/ \E j \in DOMAIN core : Ends(k, j)
      BY <1>4, <1>e, <2>4, <2>6
    <3> QED BY <2>4, <2>5, <2>6, <3>1
  <2>7. ASSUME dropped' = 0, NEW i \in DOMAIN core', NEW l \in DOMAIN os', NEW k \in DOMAIN os',
               core'[i].kind = "create", k < l, l <= core'[i].of, os'[k].pid = os'[l].pid
        PROVE  k \in removed' \/ \E j \in DOMAIN core' : j < i /\ Ends(k, j)'
    <3>1. i + 1 \in DOMAIN core /\ core'[i] = core[i + 1] /\ i \in Nat
      BY <2>1
    <3>2. k \in removed \/ \E j \in DOMAIN core : j < i + 1 /\ Ends(k, j)
      BY <1>4, <1>f, <2>4, <2>7, <3>1
    <3>3. CASE k \in removed
      BY <2>4, <2>7, <3>3
    <3>4. ASSUME NEW j \in DOMAIN core, j < i + 1, Ends(k, j)
          PROVE  k \in removed' \/ \E h \in DOMAIN core' : h < i /\ Ends(k, h)'
      <4>1. j - 1 < i
        BY <1>d, <3>1, <3>4
      <4> QED BY <2>5, <2>7, <3>4, <4>1
    <3> QED BY <3>2, <3>3, <3>4
  <2> QED BY <1>g, <2>2, <2>3, <2>6, <2>7
<1>5. CASE LoseEvent
  <2>1. /\ UNCHANGED <<os, removed>> /\ dropped' = dropped + 1
        /\ \/ core # <<>> /\ core' = Tail(core)
           \/ core' = core
    BY <1>5 DEF LoseEvent
  <2>2. dropped' # 0 /\ dropped' \in Nat
    BY <1>0, <2>1
  <2>3. CASE core # <<>> /\ core' = Tail(core)
    BY <1>0, <1>4, <2>1, <2>2, <2>3
  <2>4. CASE core' = core
    BY <1>a, <1>b, <1>g, <2>1, <2>2, <2>4 DEF Ends
  <2> QED BY <2>1, <2>3, <2>4
<1>6. CASE WriteCore
  <2>1. /\ core # <<>> /\ core' = Tail(core) /\ os' = os /\ removed' = removed
        /\ dropped' = dropped /\ Head(core).kind = "create"
    BY <1>6 DEF WriteCore, psHistory
  <2> QED BY <1>0, <1>4, <2>1
<1>7. CASE Remove
  <2>1. /\ core # <<>> /\ core' = Tail(core) /\ os' = os /\ removed' = removed \cup {Head(core).of}
        /\ dropped' = dropped /\ Head(core).kind = "terminate"
    BY <1>7 DEF Remove
  <2> QED BY <1>0, <1>4, <2>1
<1>8. CASE UNCHANGED <<os, core, removed, dropped>>
  BY <1>8 DEF PsEvents, Ends
<1> QED
  BY <1>1, <1>2, <1>3, <1>5, <1>6, <1>7, <1>8, PsCases DEF WriteBlocks, WriteInternal,
     TimerFires, FindEnds, PutProcess, FindStarts, Collect, ScanStarts, AddHandle, ScanEnds,
     ReadState, psVars, psSystem, psHistory

LEMMA PsDirtyStep ==
    ASSUME PsDirtyTimed, [PsNext]_psVars
    PROVE  PsDirtyTimed'
<1>1. CASE Remove
  <2>1. PICK p, n : /\ dirty' = DirtyAfter(p)
                    /\ timers' = IF p \in DOMAIN procs THEN Timer(p, n) ELSE timers
    BY <1>1 DEF Remove
  <2>2. CASE p \in DOMAIN procs
    <3>1. DOMAIN dirty' = DOMAIN dirty \cup {p} /\ timers' = timers \cup {[pid |-> p, of |-> n]}
      BY <2>1, <2>2 DEF DirtyAfter, Timer, Store
    <3>2. PICK x : x = [pid |-> p, of |-> n]
      OBVIOUS
    <3>3. x.pid = p /\ timers' = timers \cup {x}
      BY <3>1, <3>2
    <3> QED BY <3>1, <3>3 DEF PsDirtyTimed
  <2>3. CASE p \notin DOMAIN procs
    <3>1. dirty' = dirty /\ timers' = timers
      BY <2>1, <2>3 DEF DirtyAfter
    <3> QED BY <3>1 DEF PsDirtyTimed
  <2> QED BY <2>2, <2>3
<1>2. ASSUME NEW x \in timers, TimerFires(x)
      PROVE  PsDirtyTimed'
  <2>1. DOMAIN dirty' = DOMAIN dirty \ {x.pid} /\ timers' = timers \ {x}
    BY <1>2 DEF TimerFires, Clean, Erase
  <2> QED BY <2>1 DEF PsDirtyTimed
<1>3. CASE UNCHANGED <<dirty, timers>>
  BY <1>3 DEF PsDirtyTimed
<1> QED
  BY <1>1, <1>2, <1>3, PsCases DEF StartProcess, ExitProcess, CloseLastHandle, LoseEvent,
     WriteCore, WriteBlocks, WriteInternal, FindEnds, PutProcess, FindStarts, Collect, ScanStarts,
     AddHandle, ScanEnds, ReadState, psVars, psMaps

\* What the history keeps.
LEMMA PsHistoryStep ==
    ASSUME PsTyped, [PsNext]_psVars
    PROVE  /\ revived \subseteq revived' /\ (dropped # 0 => dropped' # 0)
           /\ \/ removed' = removed
              \/ Remove /\ core # <<>> /\ removed' = removed \cup {Head(core).of}
<1>1. dropped \in Nat
  BY DEF PsTyped
<1>2. CASE Remove
  BY <1>2 DEF Remove
<1>3. CASE LoseEvent
  BY <1>1, <1>3 DEF LoseEvent
<1>4. CASE removed' = removed /\ revived \subseteq revived' /\ dropped' = dropped
  BY <1>4
<1>5. CASE WriteInternal
  BY <1>4, <1>5 DEF WriteInternal
<1>6. CASE AddHandle
  BY <1>4, <1>6 DEF AddHandle
<1>7. CASE \E t \in PsThread : FindEnds(t) \/ PutProcess(t) \/ \E p \in PsPid : FindStarts(t, p)
  BY <1>4, <1>7 DEF FindEnds, PutProcess, FindStarts, psHistory
<1> QED
  BY <1>2, <1>3, <1>4, <1>5, <1>6, <1>7, PsCases DEF StartProcess, ExitProcess, CloseLastHandle,
     WriteCore, WriteBlocks, TimerFires, Collect, ScanStarts, ScanEnds, ReadState, psVars,
     psHistory

\* What is in the snapshot after a step was there, or is the state that the
\* step made or stored.
LEMMA PsProcsStep ==
    ASSUME PsTyped, PsPids, PsPointers, [PsNext]_psVars, NEW q \in DOMAIN procs'
    PROVE  \/ /\ q \in DOMAIN procs /\ procs'[q] = procs[q]
              /\ Remove => q # os[Head(core).of].pid /\ ps' = ResetParents(os[Head(core).of].pid)
           \/ /\ WriteCore /\ procs'[q] \in DOMAIN ps' \ DOMAIN ps
              /\ ps'[procs'[q]].of = Head(core).of
           \/ /\ ps'[procs'[q]].parent = NoPs
              /\ ps'[procs'[q]].of \in removed' => ps'[procs'[q]].of \in revived'
           \/ ps'[procs'[q]].of \in revived'
<1>c. /\ core \in Seq(PsCoreEvent) /\ internal \in Seq(Nat)
      /\ \A i \in DOMAIN core : core[i].of \in DOMAIN os
      /\ \A i \in DOMAIN internal : internal[i] \in DOMAIN os
  BY DEF PsTyped
<1>s. ASSUME NEW p, NEW x, procs' = Store(procs, p, x)
      PROVE  \/ q \in DOMAIN procs /\ procs'[q] = procs[q]
             \/ q = p /\ procs'[q] = x
  BY <1>s DEF Store
<1>1. CASE WriteCore
  <2>1. core # <<>> => Head(core).of \in DOMAIN os
    BY <1>c
  <2>2. PICK n \in DOMAIN os : /\ n = Head(core).of /\ os' = os /\ ps' = Append(ps, CoreState(n))
                               /\ procs' = Store(procs, os[n].pid, Len(ps) + 1)
    BY <1>1, <2>1 DEF WriteCore, NewState
  <2>3. PICK x : x = Len(ps) + 1 /\ x \in DOMAIN ps' \ DOMAIN ps /\ ps'[x].of = n
    BY <2>2, PsStored
  <2>4. ~Remove
    BY <1>1 DEF WriteCore, Remove
  <2> QED BY <1>1, <1>s, <2>2, <2>3, <2>4
<1>2. CASE WriteInternal
  <2>1. PICK n \in DOMAIN os : n = Head(internal)
    BY <1>2, <1>c DEF WriteInternal
  <2>2. ~Remove
    <3>1. core' = core
      BY <1>2 DEF WriteInternal
    <3>2. core # <<>> => core # Tail(core)
      <4>1. core # <<>> => Len(Tail(core)) = Len(core) - 1 /\ Len(core) \in Nat
        BY <1>c
      <4> QED BY <4>1
    <3> QED BY <3>1, <3>2 DEF Remove
  <2>3. CASE procs' = procs
    BY <2>2, <2>3
  <2>4. CASE /\ ps' = Append(ps, InternalState(n)) /\ os' = os
             /\ procs' = Store(procs, os[n].pid, Len(ps) + 1)
             /\ revived' = revived \cup ({n} \cap removed) /\ removed' = removed
    <3>1. PICK x : x = Len(ps) + 1 /\ ps'[x].parent = NoPs /\ ps'[x].of = n
      BY <2>4, PsStored
    <3> QED BY <1>s, <2>2, <2>4, <3>1
  <2> QED BY <1>2, <2>1, <2>3, <2>4 DEF WriteInternal, NewState
<1>3. CASE Remove
  <2>1. PICK p : p = os[Head(core).of].pid
    OBVIOUS
  <2>2. procs' = Erase(procs, p) /\ ps' = ResetParents(p)
    BY <1>3, <2>1 DEF Remove, Removed
  <2> QED BY <2>1, <2>2 DEF Erase
<1>u. ASSUME core' = core, q \in DOMAIN procs, procs'[q] = procs[q]
      PROVE  ~Remove
  <2>1. core # <<>> => Len(Tail(core)) = Len(core) - 1 /\ Len(core) \in Nat
    BY <1>c
  <2> QED BY <1>u, <2>1 DEF Remove
<1>4. ASSUME NEW t \in PsThread, PutProcess(t)
      PROVE  \/ q \in DOMAIN procs /\ procs'[q] = procs[q]
             \/ /\ ps'[procs'[q]].parent = NoPs
                /\ ps'[procs'[q]].of \in removed' => ps'[procs'[q]].of \in revived'
  <2>1. PICK x, p : x = thread[t].ps /\ p = thread[t].pid
    OBVIOUS
  <2>2. /\ procs' = Store(procs, p, x) /\ ps[x].parent = NoPs /\ ps' = ps
        /\ revived' = revived \cup ({ps[x].of} \cap removed) /\ removed' = removed
    BY <1>4, <2>1 DEF PutProcess, PsPointers
  <2> QED BY <1>s, <2>2
<1>5. CASE AddHandle
  <2>1. PICK x, p : x = scan.ps /\ p = scan.pid
    OBVIOUS
  <2>2. /\ procs' = Store(procs, p, x) /\ OfPid(x, p) /\ ps' = ps /\ core' = core
        /\ revived' = IF Lookup(procs, p) = x THEN revived ELSE revived \cup {ps[x].of}
    BY <1>5, <2>1 DEF AddHandle, PsPointers, psSystem
  <2>3. x # NoPs
    BY <2>2 DEF OfPid, NoPs, PsTyped
  <2>4. CASE Lookup(procs, p) = x
    BY <1>s, <1>u, <2>2, <2>3, <2>4 DEF Lookup
  <2>5. CASE Lookup(procs, p) # x
    BY <1>s, <1>u, <2>2, <2>5
  <2> QED BY <2>4, <2>5
<1>6. CASE Collect
  <2>1. core' = core /\ q \in DOMAIN procs /\ procs'[q] = procs[q]
    BY <1>6 DEF Collect, psSystem
  <2> QED BY <1>u, <2>1
<1>7. CASE procs' = procs /\ ~Remove
  BY <1>7
<1>8. ASSUME ~Remove, ~WriteCore, ~WriteInternal, ~AddHandle, ~Collect
      PROVE  procs' = procs \/ \E t \in PsThread : PutProcess(t)
  BY <1>8, PsCases DEF StartProcess, ExitProcess, CloseLastHandle, LoseEvent,
     WriteBlocks, TimerFires, FindEnds, FindStarts, ScanStarts, ScanEnds, ReadState, psVars, psMaps
<1>9. ASSUME NEW t \in PsThread, PutProcess(t) PROVE core' = core
  BY <1>9 DEF PutProcess, psSystem
<1> QED
  BY <1>1, <1>2, <1>3, <1>4, <1>5, <1>6, <1>7, <1>8, <1>9, <1>u

LEMMA PsRemovedStep ==
    ASSUME PsTyped, PsPids, PsPointers, PsEvents, PsRemovedStays, [PsNext]_psVars
    PROVE  PsRemovedStays'
<1> SUFFICES ASSUME NEW q \in DOMAIN procs', ps'[procs'[q]].of \in removed'
             PROVE  ps'[procs'[q]].of \in revived'
  BY DEF PsRemovedStays
<1>1. CASE /\ q \in DOMAIN procs /\ procs'[q] = procs[q]
           /\ Remove => q # os[Head(core).of].pid
  <2>1. PICK n : n = ps[procs[q]].of
    OBVIOUS
  <2>2. procs[q] \in DOMAIN ps /\ os[n].pid = q /\ ps'[procs'[q]].of = n
    BY <1>1, <2>1, PsHeapStep DEF PsPointers, OfPid
  <2>3. n \in removed
    BY <1>1, <2>2, PsHistoryStep
  <2>4. n \in revived
    BY <1>1, <2>1, <2>3 DEF PsRemovedStays
  <2> QED BY <2>2, <2>4, PsHistoryStep
<1>2. CASE WriteCore /\ ps'[procs'[q]].of = Head(core).of
  <2>1. core # <<>> /\ Head(core).kind = "create" /\ removed' = removed
    BY <1>2 DEF WriteCore, psHistory
  <2>2. 1 \in DOMAIN core /\ Head(core) = core[1]
    <3>1. core \in Seq(PsCoreEvent)
      BY DEF PsTyped
    <3> QED BY <2>1, <3>1
  <2>3. Head(core).of \notin removed
    BY <2>1, <2>2 DEF PsEvents
  <2> QED BY <1>2, <2>1, <2>3
<1> QED
  BY <1>1, <1>2, PsProcsStep

\* The parent of a new state is what the snapshot has under the pid of the
\* process that started it.
LEMMA PsParentKeptStep ==
    ASSUME PsTyped, PsPids, PsPointers, PsEvents, PsRemovedStays, PsParentKept, [PsNext]_psVars
    PROVE  PsParentKept'
<1>0. /\ os \in Seq(PsProcess) /\ core \in Seq(PsCoreEvent)
      /\ \A i \in DOMAIN core : core[i].of \in DOMAIN os
  BY DEF PsTyped
<1>a. DOMAIN os \subseteq Nat /\ \A k \in DOMAIN os : os[k].pid \in PsPid
  <2>1. DOMAIN os \subseteq Nat /\ \A k \in DOMAIN os : os[k] \in PsProcess
    BY <1>0
  <2> QED BY <2>1 DEF PsProcess
<1> SUFFICES ASSUME NEW x \in DOMAIN ps', ps'[x].parent # NoPs
             PROVE  LET q == ps'[ps'[x].parent].of IN
                    \/ q = os'[ps'[x].of].parent \/ q > ps'[x].of
                    \/ q \in revived' \/ dropped' # 0
  BY DEF PsParentKept
<1>1. PICK y, q, n : y = ps'[x].parent /\ q = ps'[y].of /\ n = ps'[x].of
  OBVIOUS
<1>2. CASE x \in DOMAIN ps
  <2>1. y = ps[x].parent /\ n = ps[x].of /\ n \in DOMAIN os /\ y \in DOMAIN ps
    BY <1>1, <1>2, PsHeapStep DEF PsPointers, OfPid
  <2>2. q = ps[y].of /\ os'[n].parent = os[n].parent
    BY <1>1, <2>1, PsHeapStep, PsOsGrows
  <2>3. q = os[n].parent \/ q > n \/ q \in revived \/ dropped # 0
    BY <1>1, <1>2, <2>1, <2>2 DEF PsParentKept
  <2> QED BY <1>1, <2>2, <2>3, PsHistoryStep
<1>3. CASE x \notin DOMAIN ps
  <2>1. /\ WriteCore /\ n = Head(core).of /\ n \in DOMAIN os
        /\ y = Lookup(procs, PidOf(os[n].parent))
    BY <1>1, <1>3, PsHeapStep
  <2>2. core # <<>> /\ Head(core).kind = "create" /\ os' = os /\ dropped' = dropped
    BY <2>1 DEF WriteCore, psHistory
  <2>3. 1 \in DOMAIN core /\ core[1].kind = "create" /\ core[1].of = n
    BY <1>0, <2>1, <2>2
  <2>4. PICK r : r = PidOf(os[n].parent)
    OBVIOUS
  <2>5. r \in DOMAIN procs /\ y = procs[r]
    BY <1>1, <2>1, <2>4 DEF Lookup
  <2>6. y \in DOMAIN ps /\ ps[y].of \in DOMAIN os /\ os[ps[y].of].pid = r
    BY <2>5 DEF PsPointers, OfPid
  <2>7. q = ps[y].of
    BY <1>1, <2>6, PsHeapStep
  <2>8. PICK m : m = os[n].parent
    OBVIOUS
  <2>9. r # 0 /\ m # 0
    BY <1>a, <2>4, <2>6, <2>8, PsAssumption DEF PidOf
  <2>10. /\ r = os[m].pid /\ m \in DOMAIN os /\ m < n
         /\ \A k \in DOMAIN os : m < k /\ k <= n => os[k].pid # r
    BY <2>1, <2>4, <2>8, <2>9 DEF PidOf, PsPids
  <2>11. ASSUME dropped = 0, q < m PROVE q \in revived
    <3>1. q \in removed
      <4>1. \A j \in DOMAIN core : ~(j < 1)
        BY <1>0
      <4>2. m <= n
        BY <1>a, <2>1, <2>10
      <4> QED BY <2>3, <2>6, <2>7, <2>10, <2>11, <4>1, <4>2 DEF PsEvents
    <3> QED BY <2>5, <2>7, <3>1 DEF PsRemovedStays
  <2>12. q = m \/ q > n \/ q < m
    BY <1>a, <2>1, <2>6, <2>7, <2>10
  <2>13. q = m \/ q > n \/ q \in revived' \/ dropped' # 0
    BY <2>2, <2>11, <2>12, PsHistoryStep
  <2> QED BY <1>1, <2>2, <2>8, <2>13
<1> QED
  BY <1>2, <1>3

LEMMA PsParentStaysStep ==
    ASSUME PsTyped, PsPids, PsPointers, PsEvents, PsRemovedStays, PsParentStays, [PsNext]_psVars
    PROVE  PsParentStays'
<1> SUFFICES ASSUME NEW p \in DOMAIN procs', ps'[procs'[p]].parent # NoPs,
                    ps'[ps'[procs'[p]].parent].of \in removed'
             PROVE  \/ ps'[ps'[procs'[p]].parent].of \in revived'
                    \/ ps'[procs'[p]].of \in revived'
  BY DEF PsParentStays
<1>1. PICK x, y, q : x = procs'[p] /\ y = ps'[x].parent /\ q = ps'[y].of
  OBVIOUS
<1>2. CASE /\ p \in DOMAIN procs /\ procs'[p] = procs[p]
           /\ Remove => p # os[Head(core).of].pid /\ ps' = ResetParents(os[Head(core).of].pid)
  <2>1. x = procs[p] /\ x \in DOMAIN ps
    BY <1>1, <1>2 DEF PsPointers, OfPid
  <2>2. y = ps[x].parent /\ ps'[x].of = ps[x].of
    BY <1>1, <2>1, PsHeapStep
  <2>3. y \in DOMAIN ps /\ os[ps[y].of].pid = ps[x].ppid
    BY <1>1, <2>1, <2>2 DEF PsPointers, OfPid
  <2>4. q = ps[y].of
    BY <1>1, <2>3, PsHeapStep
  <2>5. CASE q \in removed
    <3>1. q \in revived \/ ps[x].of \in revived
      BY <1>1, <1>2, <2>1, <2>2, <2>4, <2>5 DEF PsParentStays
    <3> QED BY <1>1, <2>2, <3>1, PsHistoryStep
  <2>6. CASE q \notin removed
    <3>1. Remove /\ q = Head(core).of
      BY <1>1, <2>6, PsHistoryStep
    <3>2. PICK r : r = os[q].pid
      OBVIOUS
    <3>3. p # r /\ ps' = ResetParents(r) /\ ps[x].ppid = r
      BY <1>2, <2>3, <2>4, <3>1, <3>2
    <3>4. x \in {procs[k] : k \in DOMAIN procs \ {r}}
      BY <1>2, <2>1, <3>3
    <3>5. ps'[x].parent = NoPs
      BY <2>1, <3>3, <3>4, PsResetFacts
    <3> QED BY <1>1, <3>5
  <2> QED BY <2>5, <2>6
<1>3. CASE WriteCore /\ x \in DOMAIN ps' \ DOMAIN ps
  <2>1. PICK r : r = PidOf(os[Head(core).of].parent)
    OBVIOUS
  <2>2. y = Lookup(procs, r) /\ removed' = removed
    BY <1>1, <1>3, <2>1, PsHeapStep DEF WriteCore, psHistory
  <2>3. r \in DOMAIN procs /\ y = procs[r]
    BY <1>1, <2>2 DEF Lookup
  <2>4. y \in DOMAIN ps
    BY <2>3 DEF PsPointers, OfPid
  <2>5. q = ps[y].of
    BY <1>1, <2>4, PsHeapStep
  <2>6. q \in revived
    BY <1>1, <2>2, <2>3, <2>5 DEF PsRemovedStays
  <2> QED BY <1>1, <2>6, PsHistoryStep
<1> QED
  BY <1>1, <1>2, <1>3, PsProcsStep

\* For any processes and pids, any number of processes started, dropped events
\* and lookups: a process whose TerminateProcess was handled leaves the
\* snapshot, and the dirty map by a timer of its own (Remove), and a process
\* that is in it has for a parent the process that started it (newProcState),
\* but for the faults the property names.
THEOREM SnapshotConsistent == PsSpec => []PsConsistent
<1>1. PsInit => PsInv
  BY PsInitInv
<1>2. PsInv /\ [PsNext]_psVars => PsInv'
  BY PsTypedStep, PsPidsStep, PsPointersStep, PsEventsStep, PsRemovedStep, PsDirtyStep,
     PsParentKeptStep, PsParentStaysStep DEF PsInv
<1>3. PsInv => PsConsistent
  <2> SUFFICES ASSUME PsInv PROVE PsParent
    BY DEF PsInv, PsConsistent
  <2>1. \A p \in DOMAIN procs : procs[p] \in DOMAIN ps
    BY DEF PsInv, PsPointers, OfPid
  <2> QED BY <2>1 DEF PsInv, PsParent, PsParentKept, PsParentStays
<1> QED
  BY <1>1, <1>2, <1>3, PTL DEF PsSpec

\* Each step keeps the discipline of the snapshotter's mutex.
LEMMA PsLocksStep ==
    ASSUME PsTyped, PsLocks, [PsNext]_psVars
    PROVE  PsLocks'
<1>0. /\ core \in Seq(PsCoreEvent) /\ thread \in PsThreads /\ scan \in PsScans
  BY DEF PsTyped, PsThreads, PsScans
<1>a. \A t \in PsThread : thread[t].at \in {"idle", "write", "find", "put"}
  BY <1>0 DEF PsThreads
<1>b. ASSUME \A t \in PsThread : thread'[t].at \in {"write", "find"} => thread'[t].at = thread[t].at,
             thread["kernel"].at = "write" => core' # <<>> /\ Head(core') = Head(core),
             scan.at # "wait" => scan'.at # "wait"
      PROVE  PsLocks'
  BY <1>b DEF PsLocks, PsThread
<1>1. CASE \/ \E p \in PsPid : \E m : StartProcess(p, m)
           \/ \E n \in DOMAIN os : ExitProcess(n)
  <2>1. PICK x \in PsCoreEvent : core' = Append(core, x)
    <3>1. CASE \E p \in PsPid : \E m : StartProcess(p, m)
      <4>1. core' = Append(core, [kind |-> "create", of |-> Len(os) + 1])
        BY <3>1 DEF StartProcess
      <4>2. [kind |-> "create", of |-> Len(os) + 1] \in PsCoreEvent
        BY DEF PsTyped, PsCoreEvent
      <4> QED BY <4>1, <4>2
    <3>2. ASSUME NEW n \in DOMAIN os, ExitProcess(n)
          PROVE  \E x \in PsCoreEvent : core' = Append(core, x)
      <4>1. core' = Append(core, [kind |-> "terminate", of |-> n])
        BY <3>2 DEF ExitProcess
      <4>2. [kind |-> "terminate", of |-> n] \in PsCoreEvent
        BY DEF PsTyped, PsCoreEvent
      <4> QED BY <4>1, <4>2
    <3> QED BY <1>1, <3>1, <3>2
  <2>2. core # <<>> => core' # <<>> /\ Head(core') = Head(core)
    BY <1>0, <2>1
  <2>3. UNCHANGED <<thread, scan>>
    BY <1>1 DEF StartProcess, ExitProcess
  <2>4. thread["kernel"].at = "write" => core # <<>>
    BY DEF PsLocks, PsThread
  <2> QED BY <1>b, <2>2, <2>3, <2>4
<1>2. CASE \/ \E n \in DOMAIN os : CloseLastHandle(n)
           \/ WriteInternal \/ (\E x \in timers : TimerFires(x)) \/ Collect
           \/ UNCHANGED psVars
  <2>1. UNCHANGED <<thread, scan, core>>
    BY <1>2 DEF CloseLastHandle, WriteInternal, TimerFires, Collect, psSystem, psVars
  <2>2. thread["kernel"].at = "write" => core # <<>>
    BY DEF PsLocks, PsThread
  <2> QED BY <1>b, <2>1, <2>2
<1>3. CASE LoseEvent \/ Remove
  <2>1. UNCHANGED <<thread, scan>>
    BY <1>3 DEF LoseEvent, Remove
  <2>2. thread["kernel"].at = "write" => core' = core /\ core # <<>>
    BY <1>3 DEF LoseEvent, Remove, PsLocks, PsThread
  <2> QED BY <1>b, <2>1, <2>2
<1>4. CASE WriteCore
  <2>1. /\ scan' = scan
        /\ thread'["kernel"].at = "idle" /\ thread'["telemetry"] = thread["telemetry"]
    BY <1>0, <1>4 DEF WriteCore, PsIdle, PsThreads, PsThread
  <2>2. thread["telemetry"].at # "write"
    BY DEF PsLocks, PsThread
  <2> QED BY <2>1, <2>2 DEF PsLocks, PsThread
<1>5. CASE WriteBlocks
  <2>1. /\ Unlocked /\ Scanning /\ core # <<>> /\ Head(core).kind = "create"
        /\ NeedsHandles(os[Head(core).of].pid)
        /\ UNCHANGED <<core, scan>>
        /\ thread' = [thread EXCEPT !["kernel"].at = "write"]
    BY <1>5 DEF WriteBlocks, psSystem
  <2>2. thread'["kernel"].at = "write" /\ thread'["telemetry"] = thread["telemetry"]
    BY <1>0, <2>1 DEF PsThreads, PsThread
  <2> QED BY <2>1, <2>2 DEF PsLocks, PsThread, Unlocked, Scanning, NeedsHandles
<1>6. ASSUME NEW t \in PsThread, NEW p \in PsPid, FindStarts(t, p) PROVE PsLocks'
  <2>1. /\ NoWriter /\ UNCHANGED <<core, scan>>
        /\ \A u \in PsThread \ {t} : thread'[u] = thread[u]
        /\ thread'[t].at = IF NeedsHandles(p) /\ Scanning THEN "find" ELSE "put"
    BY <1>0, <1>6 DEF FindStarts, psSystem, PsThreads
  <2>2. \A u \in PsThread : thread'[u].at # "write"
    BY <2>1 DEF NoWriter
  <2>3. thread'[t].at = "find" => PsEnumerate /\ scan.at # "wait"
    BY <2>1 DEF NeedsHandles, Scanning
  <2> QED BY <2>1, <2>2, <2>3 DEF PsLocks
<1>7. ASSUME NEW t \in PsThread, FindEnds(t) \/ PutProcess(t) PROVE PsLocks'
  <2>1. /\ UNCHANGED <<core, scan>>
        /\ \A u \in PsThread \ {t} : thread'[u] = thread[u]
        /\ thread'[t].at \in {"idle", "put"}
    BY <1>0, <1>7 DEF FindEnds, PutProcess, psSystem, PsThreads, PsIdle
  <2>2. thread["kernel"].at = "write" => core # <<>>
    BY DEF PsLocks, PsThread
  <2> QED BY <1>b, <2>1, <2>2
<1>8. CASE ScanStarts \/ AddHandle \/ ScanEnds \/ \E p \in PsScan : ReadState(p)
  <2>1. /\ UNCHANGED <<core, thread>>
        /\ scan'.at # "wait"
    <3>1. UNCHANGED <<core, thread>>
      BY <1>8 DEF ScanStarts, AddHandle, ScanEnds, ReadState, psSystem
    <3>2. CASE \E p \in PsScan : ReadState(p)
      BY <3>1, <3>2 DEF ReadState
    <3>3. CASE ScanStarts \/ AddHandle \/ ScanEnds
      BY <1>0, <3>1, <3>3 DEF ScanStarts, AddHandle, ScanEnds, PsScans
    <3> QED BY <1>8, <3>2, <3>3
  <2>2. thread["kernel"].at = "write" => core # <<>>
    BY DEF PsLocks, PsThread
  <2> QED BY <1>b, <2>1, <2>2
<1> QED
  BY <1>1, <1>2, <1>3, <1>4, <1>5, <1>6, <1>7, <1>8, PsCases

\* For any processes and any interleaving of the two trace threads with the scan:
\* a thread keeps the snapshotter's mutex across a wait only when handles are
\* enumerated, one writer or readers at a time, and with its event in hand.  With
\* EnumerateHandles off the mutex is never held across a wait, so that the scan
\* and the trace threads cannot wait for each other.
THEOREM SnapshotLocks == PsSpec => []PsLocks
<1>1. PsInit => PsInv /\ PsLocks
  BY PsInitInv DEF PsInit, PsLocks, PsIdle
<1>2. PsInv /\ PsLocks /\ [PsNext]_psVars => PsInv' /\ PsLocks'
  BY PsTypedStep, PsPidsStep, PsPointersStep, PsEventsStep, PsRemovedStep, PsDirtyStep,
     PsParentKeptStep, PsParentStaysStep, PsLocksStep DEF PsInv
<1> QED
  BY <1>1, <1>2, PTL DEF PsSpec
-----------------------------------------------------------------------------
(* The symbolizer *)

SyLife == [pid : SyPid, alive : BOOLEAN, mod : Nat, parent : Nat]
SyWalk ==
    [ev : Nat, of : Nat, addr : SyAddr, state : BOOLEAN, start : BOOLEAN, done : BOOLEAN]
SyHandle == [of : Nat, open : BOOLEAN]

SyTyped ==
    /\ life \in Seq(SyLife) /\ loads \in Nat
    /\ walks \in Seq(SyWalk)
    /\ \A i \in DOMAIN walks : walks[i].of \in DOMAIN life /\ walks[i].ev \in DOMAIN life
    /\ handles \in Seq(SyHandle)

\* A process whose TerminateProcess event was dropped, or with frames that were
\* produced after its end.
Faulted(n) == <<"process", n>> \in symLost \/ n \in lateFrames

\* What is kept for a pid is of a process with it, which runs unless one of
\* the faults happened to it.
Owner(n, p) == n \in DOMAIN life /\ life[n].pid = p /\ (life[n].alive \/ Faulted(n))

SyOne ==
    \A m, n \in DOMAIN life :
        life[m].alive /\ life[n].alive /\ life[m].pid = life[n].pid => m = n

SyEnded == \A n : Faulted(n) => n \in DOMAIN life /\ ~life[n].alive

SyKept ==
    /\ \A p \in DOMAIN symProcs :
          symProcs[p] \in DOMAIN handles /\ Owner(handles[symProcs[p]].of, p)
    /\ leaked \subseteq DOMAIN handles /\ leaked \cap HandleOf = {}

SySymbols ==
    \A x \in DOMAIN symbols : x \in SyPid \X SyAddr /\ Owner(symbols[x].of, x[1])

\* The cached exports of a pid are of a module that a process with the pid has,
\* whose UnloadImage event was dropped, or that was taken from another process.
SyMods ==
    \A p \in DOMAIN mods :
        /\ mods[p] # 0
        /\ \/ <<"module", mods[p]>> \in symLost \/ <<p, mods[p]>> \in borrowed
           \/ \E n \in DOMAIN life : life[n].mod = mods[p] /\ Owner(n, p)

SyInv ==
    /\ SyTyped /\ SyOne /\ SyEnded
    /\ SyKept /\ SyHandlesOwned /\ SySymbols /\ SyMods /\ SyExports

LEMMA SyInitInv == SyInit => SyInv
<1> SUFFICES ASSUME SyInit PROVE SyInv
  OBVIOUS
<1>0. /\ life = <<>> /\ loads = 0 /\ walks = <<>> /\ symProcs = <<>> /\ mods = <<>>
      /\ symbols = <<>> /\ handles = <<>> /\ leaked = {} /\ symLost = {} /\ lateFrames = {}
  BY DEF SyInit
<1>1. /\ DOMAIN life = {} /\ DOMAIN walks = {} /\ DOMAIN symProcs = {} /\ DOMAIN mods = {}
      /\ DOMAIN symbols = {} /\ DOMAIN handles = {}
  BY <1>0
<1>2. SyTyped
  BY <1>0, <1>1 DEF SyTyped
<1>3. HandleOf = {}
  BY <1>1 DEF HandleOf
<1>4. SyHandlesOwned
  BY <1>0, <1>1, <1>3 DEF SyHandlesOwned
<1>5. SyEnded
  BY <1>0 DEF SyEnded, Faulted
<1> QED
  BY <1>0, <1>1, <1>2, <1>4, <1>5 DEF SyInv, SyOne, SyKept, SySymbols, SyMods, SyExports

\* A process starts, an address comes, and a frame or a symbol is produced.
Begun(p) ==
    \E q \in {0} \cup DOMAIN life :
        Start(p, q) \/ \E m \in DOMAIN life, a \in SyAddr : StartWalked(p, q, m, a)

Stacked ==
    \E n \in DOMAIN life, a \in SyAddr :
        (\E state \in BOOLEAN : Walk(n, a, state)) \/ \E m \in DOMAIN life : StartAddress(n, m, a)

Framed(i) ==
    FrameFromCache(i) \/ FrameFromState(i) \/ FrameFromHandle(i) \/ SymbolizeAddress(i)

LEMMA SyCases ==
    ASSUME [SyNext]_syVars
    PROVE  \/ \E p \in SyPid : Begun(p)
           \/ \E n \in DOMAIN life : Load(n) \/ UnloadImage(n) \/ TerminateProcess(n) \/ Dropped(n)
           \/ Stacked
           \/ \E i \in DOMAIN walks : Framed(i)
           \/ \E P \in SUBSET DOMAIN symProcs : CleanSyms(P)
           \/ Close \/ UNCHANGED syVars
BY DEF SyNext, Begun, Stacked, Framed

\* The records of processes.
LEMMA SyAtFacts ==
    ASSUME SyTyped, NEW n \in DOMAIN life,
           \/ \E m \in Nat : life' = [life EXCEPT ![n].mod = m]
           \/ life' = [life EXCEPT ![n].alive = FALSE]
    PROVE  /\ life' \in Seq(SyLife) /\ DOMAIN life' = DOMAIN life
           /\ \A k \in DOMAIN life : /\ life'[k].pid = life[k].pid
                                     /\ k # n => life'[k] = life[k]
           /\ \A m \in Nat : life' = [life EXCEPT ![n].mod = m] =>
                 life'[n].mod = m /\ life'[n].alive = life[n].alive
           /\ life' = [life EXCEPT ![n].alive = FALSE] =>
                 life'[n].mod = life[n].mod /\ life'[n].alive = FALSE
<1>0. life \in Seq(SyLife) /\ \A k \in DOMAIN life : life[k] \in SyLife
  BY DEF SyTyped
<1>1. PICK r \in SyLife : r = life[n]
  BY <1>0
<1>2. PICK b : b = FALSE
  OBVIOUS
<1>3. b \in BOOLEAN
  BY <1>2, Zenon
<1>4. ASSUME NEW s \in SyLife, s.pid = r.pid, life' = [life EXCEPT ![n] = s]
      PROVE  /\ life' \in Seq(SyLife) /\ DOMAIN life' = DOMAIN life /\ life'[n] = s
             /\ \A k \in DOMAIN life : life'[k].pid = life[k].pid /\ (k # n => life'[k] = life[k])
  <2>1. DOMAIN life' = DOMAIN life /\ life'[n] = s
        /\ \A k \in DOMAIN life : k # n => life'[k] = life[k]
    BY <1>4
  <2>2. life' \in [1 .. Len(life) -> SyLife]
    BY <1>0, <1>4
  <2>3. life' \in Seq(SyLife)
    BY <1>0, <2>2
  <2> QED BY <1>1, <1>4, <2>1, <2>3
<1>5. ASSUME NEW m \in Nat, life' = [life EXCEPT ![n].mod = m]
      PROVE  \E s \in SyLife : /\ s.pid = r.pid /\ s.mod = m /\ s.alive = r.alive
                               /\ life' = [life EXCEPT ![n] = s]
  <2>1. PICK s : s = [r EXCEPT !.mod = m]
    OBVIOUS
  <2>2. s \in SyLife /\ s.pid = r.pid /\ s.mod = m /\ s.alive = r.alive
    BY <2>1 DEF SyLife
  <2>3. life' = [life EXCEPT ![n] = s]
    BY <1>1, <1>5, <2>1
  <2> QED BY <2>2, <2>3
<1>6. ASSUME life' = [life EXCEPT ![n].alive = FALSE]
      PROVE  \E s \in SyLife : /\ s.pid = r.pid /\ s.mod = r.mod /\ s.alive = FALSE
                               /\ life' = [life EXCEPT ![n] = s]
  <2>1. PICK s : s = [r EXCEPT !.alive = b]
    OBVIOUS
  <2>2. s \in SyLife /\ s.pid = r.pid /\ s.mod = r.mod /\ s.alive = b
    BY <1>3, <2>1 DEF SyLife
  <2>3. life' = [life EXCEPT ![n] = s]
    BY <1>1, <1>2, <1>6, <2>1
  <2> QED BY <1>2, <2>2, <2>3, Zenon
<1>7. ASSUME NEW m \in Nat, life' = [life EXCEPT ![n].mod = m]
      PROVE  /\ life' \in Seq(SyLife) /\ DOMAIN life' = DOMAIN life
             /\ \A k \in DOMAIN life : life'[k].pid = life[k].pid /\ (k # n => life'[k] = life[k])
             /\ life'[n].mod = m /\ life'[n].alive = life[n].alive
  BY <1>1, <1>4, <1>5, <1>7
<1>8. ASSUME life' = [life EXCEPT ![n].alive = FALSE]
      PROVE  /\ life' \in Seq(SyLife) /\ DOMAIN life' = DOMAIN life
             /\ \A k \in DOMAIN life : life'[k].pid = life[k].pid /\ (k # n => life'[k] = life[k])
             /\ life'[n].mod = life[n].mod /\ life'[n].alive = FALSE
  BY <1>1, <1>4, <1>6, <1>8
<1> QED
  BY <1>7, <1>8

LEMMA SyStartFacts ==
    ASSUME SyTyped, NEW p \in SyPid, Begun(p)
    PROVE  \E n \in Nat :
             /\ n \notin DOMAIN life /\ DOMAIN life' = DOMAIN life \cup {n}
             /\ life' \in Seq(SyLife) /\ \A k \in DOMAIN life : life'[k] = life[k]
             /\ life'[n].pid = p /\ life'[n].alive
<1>0. life \in Seq(SyLife)
  BY DEF SyTyped
<1>1. PICK b : b = TRUE
  OBVIOUS
<1>2. b \in BOOLEAN
  BY <1>1, Zenon
<1>q. PICK q \in {0} \cup DOMAIN life : Born(p, q)
  BY DEF Begun, Start, StartWalked
<1>3. PICK r : r = [pid |-> p, alive |-> b, mod |-> 0, parent |-> q]
  OBVIOUS
<1>4. r \in SyLife /\ r.pid = p /\ r.alive = b
  <2>1. q \in Nat
    BY <1>0
  <2> QED BY <1>2, <1>3, <2>1 DEF SyLife
<1>5. life' = Append(life, r)
  BY <1>1, <1>3, <1>q DEF Born
<1>6. PICK n \in Nat : n = Len(life) + 1
  BY <1>0
<1>7. /\ n \notin DOMAIN life /\ DOMAIN life' = DOMAIN life \cup {n}
      /\ life' \in Seq(SyLife) /\ (\A k \in DOMAIN life : life'[k] = life[k]) /\ life'[n] = r
  BY <1>0, <1>4, <1>5, <1>6, AppendAt
<1>8. life'[n].alive
  BY <1>1, <1>4, <1>7
<1> QED
  BY <1>4, <1>7, <1>8

\* Handles are closed ...
LEMMA SyCloseFacts ==
    ASSUME SyTyped, NEW H, CloseHandles(H)
    PROVE  /\ handles' \in Seq(SyHandle) /\ DOMAIN handles' = DOMAIN handles
           /\ \A h \in DOMAIN handles : /\ handles'[h].of = handles[h].of
                                        /\ handles'[h].open <=> handles[h].open /\ h \notin H
<1>0. handles \in Seq(SyHandle) /\ \A h \in DOMAIN handles : handles[h] \in SyHandle
  BY DEF SyTyped
<1>1. PICK b : b = FALSE
  OBVIOUS
<1>2. b \in BOOLEAN
  BY <1>1, Zenon
<1>3. \A r \in SyHandle : /\ [r EXCEPT !.open = b] \in SyHandle /\ [r EXCEPT !.open = b].of = r.of
                          /\ [r EXCEPT !.open = b].open = b
  BY <1>2 DEF SyHandle
<1>4. handles' = [h \in DOMAIN handles |->
                     IF h \in H THEN [handles[h] EXCEPT !.open = b] ELSE handles[h]]
  BY <1>1 DEF CloseHandles
<1>5. \A h \in DOMAIN handles :
          handles'[h] = IF h \in H THEN [handles[h] EXCEPT !.open = b] ELSE handles[h]
  BY <1>4
<1>6. ASSUME NEW h \in DOMAIN handles
      PROVE  /\ handles'[h] \in SyHandle /\ handles'[h].of = handles[h].of
             /\ handles'[h].open <=> handles[h].open /\ h \notin H
  <2>1. PICK r \in SyHandle : r = handles[h]
    BY <1>0
  <2>2. CASE h \in H
    <3>1. handles'[h] = [r EXCEPT !.open = b]
      BY <1>5, <2>1, <2>2
    <3>2. handles'[h] \in SyHandle /\ handles'[h].of = handles[h].of /\ handles'[h].open = b
      BY <1>3, <2>1, <3>1
    <3>3. ~handles'[h].open
      BY <1>1, <3>2
    <3> QED BY <2>2, <3>2, <3>3
  <2>3. CASE h \notin H
    BY <1>5, <2>1, <2>3
  <2> QED BY <2>2, <2>3
<1>7. handles' \in [1 .. Len(handles) -> SyHandle]
  <2>1. DOMAIN handles = 1 .. Len(handles)
    BY <1>0
  <2> QED BY <1>4, <1>6, <2>1
<1>8. handles' \in Seq(SyHandle) /\ DOMAIN handles' = DOMAIN handles
  BY <1>0, <1>4, <1>7
<1> QED
  BY <1>6, <1>8

LEMMA ConcatIn ==
    ASSUME NEW S, NEW s \in Seq(S), NEW t \in Seq(S)
    PROVE  s \o t \in Seq(S) /\ Len(s \o t) = Len(s) + Len(t)
OBVIOUS

\* ... and opened.
LEMMA SyOpenFacts ==
    ASSUME SyTyped, NEW p, NEW count \in Nat, NEW k, OpenHandles(p, count, k)
    PROVE  /\ handles' \in Seq(SyHandle) /\ Len(handles') = Len(handles) + count
           /\ \A h \in DOMAIN handles : h \in DOMAIN handles' /\ handles'[h] = handles[h]
           /\ \A h \in DOMAIN handles' \ DOMAIN handles :
                 handles'[h].of \in Running(p) /\ handles'[h].open
<1>0. life \in Seq(SyLife) /\ handles \in Seq(SyHandle)
  BY DEF SyTyped
<1>1. CASE count = 0
  <2>1. PICK f : f = [i \in 1 .. count |-> [of |-> CHOOSE n \in Running(p) : TRUE, open |-> TRUE]]
    OBVIOUS
  <2>2. f = <<>>
    <3>1. 1 .. count = {}
      BY <1>1
    <3> QED BY <2>1, <3>1
  <2>3. handles' = handles \o f
    BY <2>1 DEF OpenHandles
  <2>4. handles' = handles
    BY <1>0, <2>2, <2>3
  <2> QED BY <1>0, <1>1, <2>4
<1>2. CASE count # 0
  <2>1. count > 0
    BY <1>2
  <2>2. PICK n : n = CHOOSE m \in Running(p) : TRUE
    OBVIOUS
  <2>3. n \in Running(p)
    BY <2>1, <2>2 DEF OpenHandles
  <2>4. n \in Nat
    BY <1>0, <2>3 DEF Running
  <2>5. PICK b : b = TRUE
    OBVIOUS
  <2>6. b \in BOOLEAN
    BY <2>5, Zenon
  <2>7. PICK r : r = [of |-> n, open |-> b]
    OBVIOUS
  <2>8. r \in SyHandle /\ r.of = n /\ r.open = b
    BY <2>4, <2>6, <2>7 DEF SyHandle
  <2>9. PICK f : f = [i \in 1 .. count |-> r]
    OBVIOUS
  <2>10. handles' = handles \o f
    BY <2>2, <2>5, <2>7, <2>9 DEF OpenHandles
  <2>11. f \in Seq(SyHandle) /\ Len(f) = count
    BY <2>8, <2>9
  <2>12. /\ handles' \in Seq(SyHandle) /\ Len(handles') = Len(handles) + count
         /\ \A h \in DOMAIN handles : h \in DOMAIN handles' /\ handles'[h] = handles[h]
    <3>1. handles' \in Seq(SyHandle) /\ Len(handles') = Len(handles) + count
      BY <1>0, <2>10, <2>11, ConcatIn
    <3>2. ASSUME NEW h \in DOMAIN handles
          PROVE  h \in DOMAIN handles' /\ handles'[h] = handles[h]
      <4>1. h \in 1 .. Len(handles) /\ h \in 1 .. Len(handles) + count
        BY <1>0
      <4>2. h \in DOMAIN handles'
        BY <3>1, <4>1
      <4>3. handles'[h] = handles[h]
        BY <1>0, <2>10, <2>11, <4>1
      <4> QED BY <4>2, <4>3
    <3> QED BY <3>1, <3>2
  <2>13. \A h \in DOMAIN handles' \ DOMAIN handles : handles'[h] = r
    <3>1. ASSUME NEW h \in DOMAIN handles' \ DOMAIN handles
          PROVE  h - Len(handles) \in 1 .. count /\ handles'[h] = f[h - Len(handles)]
      BY <1>0, <2>10, <2>11, <2>12
    <3> QED BY <2>9, <3>1
  <2> QED BY <2>3, <2>5, <2>8, <2>12, <2>13
<1> QED
  BY <1>1, <1>2

\* The handle of a frame is none, the one that is kept, or opened now.
LEMMA SyFrameCases ==
    ASSUME NEW i, Framed(i)
    PROVE  /\ Walked(i)
           /\ \/ UNCHANGED syHandles
              \/ \E p, tries : /\ p = life[walks[i].of].pid /\ tries \in {1, 2}
                               /\ HandleOpened(p, tries) \/ HandleFails(p, tries)
<1>1. CASE FrameFromCache(i)
  BY <1>1 DEF FrameFromCache, HandleKept
<1>2. CASE FrameFromState(i)
  BY <1>2 DEF FrameFromState
<1>3. CASE FrameFromHandle(i)
  BY <1>3 DEF FrameFromHandle, HandleKept
<1>4. CASE SymbolizeAddress(i)
  BY <1>4 DEF SymbolizeAddress, HandleKept
<1> QED BY <1>1, <1>2, <1>3, <1>4 DEF Framed

LEMMA SyGrabCases ==
    ASSUME NEW p, NEW tries \in {1, 2}, HandleOpened(p, tries) \/ HandleFails(p, tries)
    PROVE  \E count, k \in Nat :
             /\ OpenHandles(p, count, k)
             /\ \/ count = k /\ symProcs' = symProcs
                \/ count = k + 1 /\ symProcs' = Plus(symProcs, p, Len(handles'))
<1>1. CASE HandleOpened(p, tries)
  <2>1. PICK k \in 0 .. tries - 1 : /\ OpenHandles(p, k + 1, k)
                                    /\ symProcs' = Plus(symProcs, p, Len(handles'))
    BY <1>1 DEF HandleOpened
  <2>2. k \in Nat /\ k + 1 \in Nat
    OBVIOUS
  <2> QED BY <2>1, <2>2
<1>2. CASE HandleFails(p, tries)
  <2>1. PICK k \in 0 .. tries : OpenHandles(p, k, k) /\ symProcs' = symProcs
    BY <1>2 DEF HandleFails
  <2>2. k \in Nat
    OBVIOUS
  <2> QED BY <2>1, <2>2
<1> QED BY <1>1, <1>2

\* A process keeps its pid, does not start again, and its module changes only
\* while it runs; what happened is not forgotten.
LEMMA SyLifeStep ==
    ASSUME SyTyped, [SyNext]_syVars
    PROVE  /\ life' \in Seq(SyLife)
           /\ \A k \in DOMAIN life :
                 /\ k \in DOMAIN life' /\ life'[k].pid = life[k].pid
                 /\ life'[k].alive => life[k].alive
                 /\ life'[k].mod = life[k].mod \/ life[k].alive
           /\ symLost \subseteq symLost' /\ lateFrames \subseteq lateFrames'
           /\ borrowed \subseteq borrowed'
<1>0. life \in Seq(SyLife) /\ loads \in Nat
  BY DEF SyTyped
<1>1. ASSUME NEW p \in SyPid, Begun(p)
      PROVE  /\ life' \in Seq(SyLife) /\ \A k \in DOMAIN life : k \in DOMAIN life' /\ life'[k] = life[k]
             /\ symLost' = symLost /\ lateFrames' = lateFrames /\ borrowed' = borrowed
  <2>1. symLost' = symLost /\ lateFrames' = lateFrames /\ borrowed' = borrowed
    BY <1>1 DEF Begun, Start, StartWalked, Born, syHistory
  <2> QED BY <1>1, <2>1, SyStartFacts
<1>2. ASSUME NEW n \in DOMAIN life, Load(n) \/ UnloadImage(n) \/ TerminateProcess(n) \/ Dropped(n)
      PROVE  /\ life' \in Seq(SyLife)
             /\ \A k \in DOMAIN life :
                   /\ k \in DOMAIN life' /\ life'[k].pid = life[k].pid
                   /\ life'[k].alive => life[k].alive
                   /\ life'[k].mod = life[k].mod \/ life[k].alive
             /\ symLost \subseteq symLost' /\ lateFrames \subseteq lateFrames' /\ borrowed' = borrowed
  <2>1. /\ symLost \subseteq symLost' /\ lateFrames \subseteq lateFrames' /\ borrowed' = borrowed
        /\ life[n].alive
    BY <1>2 DEF Load, UnloadImage, TerminateProcess, Dropped, syHistory
  <2>2. CASE \E m \in Nat : life' = [life EXCEPT ![n].mod = m]
    BY <2>1, <2>2, SyAtFacts
  <2>3. CASE life' = [life EXCEPT ![n].alive = FALSE]
    <3>1. /\ life' \in Seq(SyLife) /\ DOMAIN life' = DOMAIN life
          /\ \A k \in DOMAIN life : life'[k].pid = life[k].pid /\ (k # n => life'[k] = life[k])
          /\ life'[n].mod = life[n].mod /\ life'[n].alive = FALSE
      BY <2>3, SyAtFacts
    <3> QED BY <2>1, <3>1
  <2>4. 0 \in Nat /\ loads + 1 \in Nat
    BY <1>0
  <2> QED BY <1>2, <2>2, <2>3, <2>4 DEF Load, UnloadImage, TerminateProcess, Dropped
<1>3. CASE /\ life' = life /\ symLost \subseteq symLost' /\ lateFrames \subseteq lateFrames'
           /\ borrowed \subseteq borrowed'
  BY <1>0, <1>3
<1>4. ASSUME NEW i, Framed(i)
      PROVE  /\ life' = life /\ symLost \subseteq symLost' /\ lateFrames \subseteq lateFrames'
             /\ borrowed \subseteq borrowed'
  <2>1. Walked(i)
    BY <1>4, SyFrameCases
  <2>2. borrowed \subseteq borrowed'
    BY <1>4 DEF Framed, FrameFromCache, FrameFromState, FrameFromHandle, SymbolizeAddress, Borrow
  <2> QED BY <2>1, <2>2 DEF Walked, syOs
<1>5. ASSUME \/ Stacked
             \/ \E P \in SUBSET DOMAIN symProcs : CleanSyms(P)
             \/ Close \/ UNCHANGED syVars
      PROVE  /\ life' = life /\ symLost' = symLost /\ lateFrames' = lateFrames
             /\ borrowed' = borrowed
  BY <1>5 DEF Stacked, StartAddress, Walk, CleanSyms, Close, syVars, syOs, syHistory
<1> QED
  BY <1>1, <1>2, <1>3, <1>4, <1>5, SyCases

\* What a step does to the handles.
LEMMA SyHandlesStep ==
    ASSUME SyTyped, [SyNext]_syVars
    PROVE  \/ UNCHANGED syHandles
           \/ \E P : Release(P) /\ leaked' = leaked
           \/ \E i \in DOMAIN walks : \E p : \E count, k \in Nat :
                /\ life' = life /\ p = life[walks[i].of].pid /\ OpenHandles(p, count, k)
                /\ \/ count = k /\ symProcs' = symProcs
                   \/ count = k + 1 /\ symProcs' = Plus(symProcs, p, Len(handles'))
<1>1. ASSUME NEW i \in DOMAIN walks, Framed(i)
      PROVE  \/ UNCHANGED syHandles
             \/ \E p : \E count, k \in Nat :
                  /\ life' = life /\ p = life[walks[i].of].pid /\ OpenHandles(p, count, k)
                  /\ \/ count = k /\ symProcs' = symProcs
                     \/ count = k + 1 /\ symProcs' = Plus(symProcs, p, Len(handles'))
  <2>1. Walked(i) /\ life' = life
    BY <1>1, SyFrameCases DEF Walked, syOs
  <2>2. ASSUME NEW p, NEW tries \in {1, 2}, HandleOpened(p, tries) \/ HandleFails(p, tries)
        PROVE  \E count, k \in Nat :
                  /\ OpenHandles(p, count, k)
                  /\ \/ count = k /\ symProcs' = symProcs
                     \/ count = k + 1 /\ symProcs' = Plus(symProcs, p, Len(handles'))
    BY <2>2, SyGrabCases
  <2> QED BY <1>1, <2>1, <2>2, SyFrameCases
<1>2. ASSUME NEW n, TerminateProcess(n)
      PROVE  \E P : Release(P) /\ leaked' = leaked
  BY <1>2 DEF TerminateProcess
<1>3. ASSUME NEW P, CleanSyms(P)
      PROVE  Release(P) /\ leaked' = leaked
  BY <1>3 DEF CleanSyms, CleanUp
<1>4. ASSUME Close
      PROVE  \E P : Release(P) /\ leaked' = leaked
  BY <1>4 DEF Close, CleanUp
<1>5. ASSUME NEW n, Load(n) \/ UnloadImage(n) \/ Dropped(n)
      PROVE  UNCHANGED syHandles
  BY <1>5 DEF Load, UnloadImage, Dropped
<1>6. ASSUME \/ \E p \in SyPid : Begun(p)
             \/ Stacked
             \/ UNCHANGED syVars
      PROVE  UNCHANGED syHandles
  BY <1>6 DEF Begun, Start, StartWalked, Born, Stacked, Walk, StartAddress, syVars
<1> QED
  BY <1>1, <1>2, <1>3, <1>4, <1>5, <1>6, SyCases

LEMMA SyTypedStep ==
    ASSUME SyTyped, [SyNext]_syVars
    PROVE  SyTyped'
<1>0. /\ loads \in Nat /\ walks \in Seq(SyWalk) /\ handles \in Seq(SyHandle)
      /\ \A i \in DOMAIN walks : walks[i].of \in DOMAIN life /\ walks[i].ev \in DOMAIN life
  BY DEF SyTyped
<1>1. life' \in Seq(SyLife) /\ \A k \in DOMAIN life : k \in DOMAIN life'
  BY SyLifeStep
<1>2. handles' \in Seq(SyHandle)
  <2>1. ASSUME NEW P, Release(P) PROVE handles' \in Seq(SyHandle)
    BY <2>1, SyCloseFacts DEF Release
  <2>2. ASSUME NEW p, NEW count \in Nat, NEW k, OpenHandles(p, count, k)
        PROVE  handles' \in Seq(SyHandle)
    BY <2>2, SyOpenFacts
  <2>3. CASE UNCHANGED syHandles
    BY <1>0, <2>3 DEF syHandles
  <2> QED BY <2>1, <2>2, <2>3, SyHandlesStep
<1>3. loads' \in Nat
  <2>1. ASSUME NEW i, Framed(i)
        PROVE  loads' = loads
    BY <2>1, SyFrameCases DEF Walked, syOs
  <2>2. loads' = loads \/ loads' = loads + 1
    BY <2>1, SyCases DEF Begun, Start, StartWalked, Born, Load, UnloadImage, TerminateProcess,
       Dropped, Stacked, Walk, StartAddress, CleanSyms, Close, syVars, syOs
  <2> QED BY <1>0, <2>2
<1>4. /\ walks' \in Seq(SyWalk)
      /\ \A i \in DOMAIN walks' : walks'[i].of \in DOMAIN life' /\ walks'[i].ev \in DOMAIN life'
  <2>1. ASSUME NEW n \in DOMAIN life', NEW m \in DOMAIN life', NEW c \in SyAddr,
               NEW state \in BOOLEAN, NEW start \in BOOLEAN,
               walks' = Append(walks, Stack(n, m, c, state, start))
        PROVE  /\ walks' \in Seq(SyWalk)
               /\ \A i \in DOMAIN walks' :
                     walks'[i].of \in DOMAIN life' /\ walks'[i].ev \in DOMAIN life'
    <3>1. PICK b : b = FALSE
      OBVIOUS
    <3>2. b \in BOOLEAN
      BY <3>1, Zenon
    <3>3. PICK e : e = [ev |-> n, of |-> m, addr |-> c, state |-> state, start |-> start, done |-> b]
      OBVIOUS
    <3>4. n \in Nat /\ m \in Nat
      BY <1>1
    <3>5. e \in SyWalk /\ e.of = m /\ e.ev = n
      BY <3>2, <3>3, <3>4 DEF SyWalk
    <3>6. walks' = Append(walks, e)
      BY <2>1, <3>1, <3>3 DEF Stack
    <3>7. /\ walks' \in Seq(SyWalk) /\ DOMAIN walks' = DOMAIN walks \cup {Len(walks) + 1}
          /\ (\A i \in DOMAIN walks : walks'[i] = walks[i]) /\ walks'[Len(walks) + 1] = e
      BY <1>0, <3>5, <3>6, AppendAt
    <3> QED BY <1>0, <1>1, <3>5, <3>7
  <2>t. PICK yes, no : yes = TRUE /\ no = FALSE
    OBVIOUS
  <2>b. yes \in BOOLEAN /\ no \in BOOLEAN
    BY <2>t, Zenon
  <2>s. ASSUME Stacked
        PROVE  \E n, m \in DOMAIN life' : \E c \in SyAddr : \E state, start \in BOOLEAN :
                   walks' = Append(walks, Stack(n, m, c, state, start))
    <3>1. PICK n \in DOMAIN life, c \in SyAddr :
             (\E state \in BOOLEAN : Walk(n, c, state)) \/ \E m \in DOMAIN life : StartAddress(n, m, c)
      BY <2>s DEF Stacked
    <3>2. ASSUME NEW state \in BOOLEAN, Walk(n, c, state)
          PROVE  walks' = Append(walks, Stack(n, n, c, state, no))
      BY <2>t, <3>2 DEF Walk
    <3>3. ASSUME NEW m \in DOMAIN life, StartAddress(n, m, c)
          PROVE  walks' = Append(walks, Stack(n, m, c, yes, yes))
      BY <2>t, <3>3 DEF StartAddress
    <3> QED BY <1>1, <2>b, <3>1, <3>2, <3>3
  <2>w. ASSUME NEW p \in SyPid, NEW q, NEW m \in DOMAIN life, NEW c \in SyAddr,
               q \in {0} \cup DOMAIN life, StartWalked(p, q, m, c)
        PROVE  \E n, k \in DOMAIN life' : \E state, start \in BOOLEAN :
                   walks' = Append(walks, Stack(n, k, c, state, start))
    <3>1. PICK n \in Nat : n = Len(life) + 1
      BY DEF SyTyped
    <3>2. PICK r : life' = Append(life, r)
      BY <2>w DEF StartWalked, Born
    <3>3. n \in DOMAIN life'
      BY <3>1, <3>2 DEF SyTyped
    <3>4. walks' = Append(walks, Stack(n, m, c, yes, no))
      BY <2>t, <2>w, <3>1 DEF StartWalked
    <3> QED BY <1>1, <2>b, <3>3, <3>4
  <2>2. ASSUME NEW i \in DOMAIN walks, Walked(i)
        PROVE  /\ walks' \in Seq(SyWalk)
               /\ \A j \in DOMAIN walks' :
                     walks'[j].of \in DOMAIN life' /\ walks'[j].ev \in DOMAIN life'
    <3>1. PICK b : b = TRUE
      OBVIOUS
    <3>2. b \in BOOLEAN
      BY <3>1, Zenon
    <3>3. PICK e \in SyWalk : e = walks[i]
      BY <1>0
    <3>4. [e EXCEPT !.done = b] \in SyWalk /\ [e EXCEPT !.done = b].of = e.of
          /\ [e EXCEPT !.done = b].ev = e.ev
      BY <3>2 DEF SyWalk
    <3>5. PICK g : g = [e EXCEPT !.done = b]
      OBVIOUS
    <3>6. walks' = [walks EXCEPT ![i] = g]
      BY <2>2, <3>1, <3>3, <3>5 DEF Walked
    <3>7. walks' \in [1 .. Len(walks) -> SyWalk]
      BY <1>0, <3>4, <3>5, <3>6
    <3>8. walks' \in Seq(SyWalk)
      BY <1>0, <3>7
    <3>9. \A j \in DOMAIN walks' : j \in DOMAIN walks /\ walks'[j].of = walks[j].of
          /\ walks'[j].ev = walks[j].ev
      BY <3>3, <3>4, <3>5, <3>6
    <3> QED BY <1>0, <1>1, <3>8, <3>9
  <2>3. CASE walks' = walks
    BY <1>0, <1>1, <2>3
  <2>4. ASSUME NEW i, Framed(i)
        PROVE  Walked(i)
    BY <2>4, SyFrameCases
  <2>5. ASSUME NEW n, Load(n) \/ UnloadImage(n) \/ TerminateProcess(n) \/ Dropped(n)
        PROVE  walks' = walks
    BY <2>5 DEF Load, UnloadImage, TerminateProcess, Dropped
  <2>6. ASSUME NEW p \in SyPid, Begun(p)
        PROVE  /\ walks' \in Seq(SyWalk)
               /\ \A j \in DOMAIN walks' :
                     walks'[j].of \in DOMAIN life' /\ walks'[j].ev \in DOMAIN life'
    <3>1. CASE \E q : Start(p, q)
      BY <2>3, <3>1 DEF Start
    <3>2. ASSUME NEW q \in {0} \cup DOMAIN life, NEW m \in DOMAIN life, NEW c \in SyAddr,
                 StartWalked(p, q, m, c)
          PROVE  \E n, k \in DOMAIN life' : \E state, start \in BOOLEAN :
                     walks' = Append(walks, Stack(n, k, c, state, start))
      BY <2>w, <3>2
    <3> QED BY <2>1, <2>6, <3>1, <3>2 DEF Begun
  <2> QED
    BY <2>1, <2>2, <2>3, <2>4, <2>5, <2>6, <2>s, SyCases DEF CleanSyms, Close, syVars
<1> QED
  BY <1>1, <1>2, <1>3, <1>4 DEF SyTyped

LEMMA SyOneStep ==
    ASSUME SyTyped, SyOne, [SyNext]_syVars
    PROVE  SyOne'
<1>1. ASSUME NEW p \in SyPid, Begun(p)
      PROVE  SyOne'
  <2>1. PICK n \in Nat :
             /\ n \notin DOMAIN life /\ DOMAIN life' = DOMAIN life \cup {n}
             /\ \A k \in DOMAIN life : life'[k] = life[k]
             /\ life'[n].pid = p /\ life'[n].alive
    BY <1>1, SyStartFacts
  <2>2. \A k \in DOMAIN life : life[k].pid = p => ~life[k].alive
    BY <1>1 DEF Begun, Start, StartWalked, Born, Running
  <2> QED BY <2>1, <2>2 DEF SyOne
<1>2. CASE DOMAIN life' = DOMAIN life
  BY <1>2, SyLifeStep DEF SyOne
<1>3. ASSUME NEW n \in DOMAIN life, Load(n) \/ UnloadImage(n) \/ TerminateProcess(n) \/ Dropped(n)
      PROVE  DOMAIN life' = DOMAIN life
  BY <1>3 DEF Load, UnloadImage, TerminateProcess, Dropped
<1>4. ASSUME NEW i, Framed(i)
      PROVE  life' = life
  BY <1>4, SyFrameCases DEF Walked, syOs
<1> QED
  BY <1>1, <1>2, <1>3, <1>4, SyCases DEF Stacked, Walk, StartAddress, CleanSyms, Close, syVars, syOs

\* What a step adds to the history.
LEMMA SyHistoryStep ==
    ASSUME SyTyped, [SyNext]_syVars
    PROVE  /\ \/ symLost' = symLost
              \/ \E n \in DOMAIN life : \/ symLost' = symLost \cup {<<"module", life[n].mod>>}
                                        \/ /\ symLost' = symLost \cup {<<"process", n>>}
                                           /\ ~life'[n].alive
           /\ \/ lateFrames' = lateFrames
              \/ \E n \in DOMAIN life : /\ lateFrames' = lateFrames \cup {n}
                                        /\ ~life[n].alive
<1>1. ASSUME NEW n \in DOMAIN life, Dropped(n)
      PROVE  /\ lateFrames' = lateFrames
             /\ \/ symLost' = symLost \cup {<<"module", life[n].mod>>}
                \/ symLost' = symLost \cup {<<"process", n>>} /\ ~life'[n].alive
  <2>1. ASSUME life' = [life EXCEPT ![n].alive = FALSE] PROVE ~life'[n].alive
    BY <2>1, SyAtFacts
  <2> QED BY <1>1, <2>1 DEF Dropped
<1>2. ASSUME NEW i \in DOMAIN walks, Framed(i)
      PROVE  /\ symLost' = symLost
             /\ \/ lateFrames' = lateFrames
                \/ \E n \in DOMAIN life : lateFrames' = lateFrames \cup {n} /\ ~life[n].alive
  <2>1. walks[i].of \in DOMAIN life
    BY DEF SyTyped
  <2> QED BY <1>2, <2>1, SyFrameCases DEF Walked
<1>3. CASE symLost' = symLost /\ lateFrames' = lateFrames
  BY <1>3
<1>4. ASSUME NEW n, Load(n) \/ UnloadImage(n) \/ TerminateProcess(n)
      PROVE  symLost' = symLost /\ lateFrames' = lateFrames
  BY <1>4 DEF Load, UnloadImage, TerminateProcess, syHistory
<1> QED
  BY <1>1, <1>2, <1>3, <1>4, SyCases DEF Begun, Start, StartWalked, Born, Stacked, Walk, StartAddress,
     CleanSyms, Close, syVars, syHistory

LEMMA SyEndedStep ==
    ASSUME SyTyped, SyEnded, [SyNext]_syVars
    PROVE  SyEnded'
<1> SUFFICES ASSUME NEW n, Faulted(n)'
             PROVE  n \in DOMAIN life' /\ ~life'[n].alive
  BY DEF SyEnded
<1>0. \A k \in DOMAIN life : k \in DOMAIN life' /\ (life'[k].alive => life[k].alive)
  BY SyLifeStep
<1>1. CASE Faulted(n)
  BY <1>0, <1>1 DEF SyEnded
<1>2. CASE ~Faulted(n)
  <2>1. CASE <<"process", n>> \in symLost'
    <3>1. PICK k \in DOMAIN life : \/ symLost' = symLost \cup {<<"module", life[k].mod>>}
                                   \/ symLost' = symLost \cup {<<"process", k>>} /\ ~life'[k].alive
      BY <1>2, <2>1, SyHistoryStep DEF Faulted
    <3>2. n = k /\ ~life'[k].alive
      BY <1>2, <2>1, <3>1 DEF Faulted
    <3> QED BY <1>0, <3>2
  <2>2. CASE n \in lateFrames'
    <3>1. n \in DOMAIN life /\ ~life[n].alive
      BY <1>2, <2>2, SyHistoryStep DEF Faulted
    <3> QED BY <1>0, <3>1
  <2> QED BY <2>1, <2>2 DEF Faulted
<1> QED BY <1>1, <1>2

\* No process with the pid ends in this step, unless its event is dropped.
NoEnd(p) ==
    \A k \in DOMAIN life : life[k].pid = p /\ life[k].alive /\ ~life'[k].alive => Faulted(k)'

LEMMA SyEnds ==
    ASSUME SyTyped, [SyNext]_syVars
    PROVE  \/ \A p : NoEnd(p)
           \/ \E n \in DOMAIN life :
                 TerminateProcess(n) /\ \A p : p # life[n].pid => NoEnd(p)
<1>1. ASSUME NEW n \in DOMAIN life, TerminateProcess(n)
      PROVE  \A p : p # life[n].pid => NoEnd(p)
  <2>1. life' = [life EXCEPT ![n].alive = FALSE]
    BY <1>1 DEF TerminateProcess
  <2>2. \A k \in DOMAIN life : k # n => life'[k] = life[k]
    BY <2>1, SyAtFacts
  <2> QED BY <2>2 DEF NoEnd
<1>2. ASSUME NEW n \in DOMAIN life, Dropped(n)
      PROVE  \A p : NoEnd(p)
  <2>1. CASE life' = [life EXCEPT ![n].mod = 0]
    <3>1. life'[n].alive = life[n].alive /\ \A k \in DOMAIN life : k # n => life'[k] = life[k]
      BY <2>1, SyAtFacts
    <3> QED BY <3>1 DEF NoEnd
  <2>2. CASE life' = [life EXCEPT ![n].alive = FALSE] /\ <<"process", n>> \in symLost'
    <3>1. \A k \in DOMAIN life : k # n => life'[k] = life[k]
      BY <2>2, SyAtFacts
    <3> QED BY <2>2, <3>1 DEF NoEnd, Faulted
  <2> QED BY <1>2, <2>1, <2>2 DEF Dropped
<1>3. ASSUME NEW n \in DOMAIN life, Load(n) \/ UnloadImage(n)
      PROVE  \A p : NoEnd(p)
  <2>1. PICK m \in Nat : life' = [life EXCEPT ![n].mod = m]
    <3>1. 0 \in Nat /\ loads + 1 \in Nat
      BY DEF SyTyped
    <3> QED BY <1>3, <3>1 DEF Load, UnloadImage
  <2>2. life'[n].alive = life[n].alive /\ \A k \in DOMAIN life : k # n => life'[k] = life[k]
    BY <2>1, SyAtFacts
  <2> QED BY <2>2 DEF NoEnd
<1>4. ASSUME NEW p \in SyPid, Begun(p)
      PROVE  \A q : NoEnd(q)
  <2>1. \A k \in DOMAIN life : life'[k] = life[k]
    BY <1>4, SyStartFacts
  <2> QED BY <2>1 DEF NoEnd
<1>5. ASSUME life' = life
      PROVE  \A p : NoEnd(p)
  BY <1>5 DEF NoEnd
<1>6. ASSUME NEW i, Framed(i)
      PROVE  life' = life
  BY <1>6, SyFrameCases DEF Walked, syOs
<1>7. ASSUME \/ Stacked
             \/ \E P \in SUBSET DOMAIN symProcs : CleanSyms(P)
             \/ Close \/ UNCHANGED syVars
      PROVE  life' = life
  BY <1>7 DEF Stacked, Walk, StartAddress, CleanSyms, Close, syVars, syOs
<1> QED
  BY <1>1, <1>2, <1>3, <1>4, <1>5, <1>6, <1>7, SyCases

LEMMA OwnerKept ==
    ASSUME SyTyped, [SyNext]_syVars, NEW n, NEW p, Owner(n, p), NoEnd(p)
    PROVE  Owner(n, p)'
<1>1. n \in DOMAIN life /\ life[n].pid = p /\ (life[n].alive \/ Faulted(n))
  BY DEF Owner
<1>2. n \in DOMAIN life' /\ life'[n].pid = p
  BY <1>1, SyLifeStep
<1>3. Faulted(n) => Faulted(n)'
  BY SyLifeStep DEF Faulted
<1>4. life[n].alive => life'[n].alive \/ Faulted(n)'
  BY <1>1 DEF NoEnd
<1> QED BY <1>1, <1>2, <1>3, <1>4 DEF Owner

\* A handle in use is open, has one pid, and its process has that pid.
LEMMA SyKeptStep ==
    ASSUME SyTyped, SyKept, SyHandlesOwned, [SyNext]_syVars
    PROVE  SyKept' /\ SyHandlesOwned'
<1>0. handles \in Seq(SyHandle)
  BY DEF SyTyped
<1>1. ASSUME NEW P, Release(P), leaked' = leaked
      PROVE  /\ leaked' \subseteq DOMAIN handles' /\ leaked' \cap HandleOf' = {}
             /\ SyHandlesOwned'
             /\ \A q \in DOMAIN symProcs' :
                   /\ q \in DOMAIN symProcs /\ q \notin P /\ symProcs'[q] = symProcs[q]
                   /\ symProcs[q] \in DOMAIN handles'
                   /\ handles'[symProcs[q]].of = handles[symProcs[q]].of
  <2>1. PICK H : H = {symProcs[p] : p \in P \cap DOMAIN symProcs}
    OBVIOUS
  <2>2. CloseHandles(H) /\ symProcs' = But(symProcs, P)
    BY <1>1, <2>1 DEF Release
  <2>3. /\ DOMAIN handles' = DOMAIN handles
        /\ \A h \in DOMAIN handles : /\ handles'[h].of = handles[h].of
                                     /\ handles'[h].open <=> handles[h].open /\ h \notin H
    BY <2>2, SyCloseFacts
  <2>4. /\ DOMAIN symProcs' = DOMAIN symProcs \ P
        /\ \A q \in DOMAIN symProcs' : symProcs'[q] = symProcs[q]
    BY <2>2 DEF But
  <2>5. \A p, q \in DOMAIN symProcs : symProcs[p] = symProcs[q] => p = q
    BY DEF SyHandlesOwned
  <2>6. HandleOf' = HandleOf \ H
    <3>1. \A h \in HandleOf' : h \in HandleOf \ H
      BY <2>1, <2>4, <2>5 DEF HandleOf
    <3>2. \A h \in HandleOf \ H : h \in HandleOf'
      BY <2>1, <2>4 DEF HandleOf
    <3> QED BY <3>1, <3>2
  <2>7. H \subseteq HandleOf
    BY <2>1 DEF HandleOf
  <2>8. {h \in DOMAIN handles' : handles'[h].open} = {h \in DOMAIN handles : handles[h].open} \ H
    BY <2>3
  <2>9. {h \in DOMAIN handles' : handles'[h].open} = HandleOf' \cup leaked'
    BY <1>1, <2>6, <2>7, <2>8 DEF SyHandlesOwned, SyKept
  <2>10. \A p, q \in DOMAIN symProcs' : symProcs'[p] = symProcs'[q] => p = q
    BY <2>4, <2>5
  <2>11. SyHandlesOwned'
    BY <2>9, <2>10 DEF SyHandlesOwned
  <2>12. leaked' \subseteq DOMAIN handles' /\ leaked' \cap HandleOf' = {}
    BY <1>1, <2>3, <2>6 DEF SyKept
  <2>13. \A q \in DOMAIN symProcs' :
                   /\ q \in DOMAIN symProcs /\ q \notin P /\ symProcs'[q] = symProcs[q]
                   /\ symProcs[q] \in DOMAIN handles'
                   /\ handles'[symProcs[q]].of = handles[symProcs[q]].of
    BY <2>3, <2>4 DEF SyKept
  <2> QED BY <2>11, <2>12, <2>13
<1>2. ASSUME NEW q \in DOMAIN symProcs', q \in DOMAIN symProcs, symProcs'[q] = symProcs[q],
             symProcs[q] \in DOMAIN handles',
             handles'[symProcs[q]].of = handles[symProcs[q]].of, NoEnd(q)
      PROVE  symProcs'[q] \in DOMAIN handles' /\ Owner(handles[symProcs[q]].of, q)'
  <2>1. PICK n : n = handles[symProcs[q]].of
    OBVIOUS
  <2>2. Owner(n, q)
    BY <1>2, <2>1 DEF SyKept
  <2>3. Owner(n, q)'
    BY <1>2, <2>2, OwnerKept
  <2> QED BY <1>2, <2>1, <2>3 DEF Owner
<1>3. ASSUME NEW n \in DOMAIN life, TerminateProcess(n), \A p : p # life[n].pid => NoEnd(p)
      PROVE  SyKept' /\ SyHandlesOwned'
  <2>1. Release({life[n].pid}) /\ leaked' = leaked
    BY <1>3 DEF TerminateProcess
  <2> QED BY <1>1, <1>2, <1>3, <2>1 DEF SyKept
<1>4. ASSUME \A p : NoEnd(p), UNCHANGED syHandles
      PROVE  SyKept' /\ SyHandlesOwned'
  <2>1. UNCHANGED <<symProcs, handles, leaked>>
    BY <1>4 DEF syHandles
  <2>2. HandleOf' = HandleOf
    BY <2>1 DEF HandleOf
  <2>3. SyHandlesOwned'
    BY <2>1, <2>2 DEF SyHandlesOwned
  <2>4. \A q \in DOMAIN symProcs : symProcs[q] \in DOMAIN handles
    BY DEF SyKept
  <2> QED BY <1>2, <1>4, <2>1, <2>2, <2>3, <2>4 DEF SyKept
<1>5. ASSUME \A p : NoEnd(p), NEW P, Release(P), leaked' = leaked
      PROVE  SyKept' /\ SyHandlesOwned'
  BY <1>1, <1>2, <1>5 DEF SyKept
<1>6. ASSUME NEW p, NEW count \in Nat, NEW k \in Nat, life' = life, OpenHandles(p, count, k),
             \/ count = k /\ symProcs' = symProcs
             \/ count = k + 1 /\ symProcs' = Plus(symProcs, p, Len(handles'))
      PROVE  SyKept' /\ SyHandlesOwned'
  <2>1. /\ handles' \in Seq(SyHandle) /\ Len(handles') = Len(handles) + count
        /\ \A h \in DOMAIN handles : h \in DOMAIN handles' /\ handles'[h] = handles[h]
        /\ \A h \in DOMAIN handles' \ DOMAIN handles :
              handles'[h].of \in Running(p) /\ handles'[h].open
    BY <1>6, SyOpenFacts
  <2>2. PICK l \in Nat : l = Len(handles)
    BY <1>0
  <2>3. /\ DOMAIN handles = 1 .. l /\ DOMAIN handles' = 1 .. l + count
        /\ leaked' = leaked \cup (l + 1 .. l + k) /\ p \notin DOMAIN symProcs
    BY <1>0, <1>6, <2>1, <2>2 DEF OpenHandles
  <2>4. \A q : NoEnd(q)
    BY <1>6 DEF NoEnd
  <2>5. leaked \subseteq 1 .. l /\ HandleOf \subseteq 1 .. l /\ leaked \cap HandleOf = {}
    BY <2>3 DEF SyKept, HandleOf
  <2>6. {h \in 1 .. l : handles[h].open} = HandleOf \cup leaked
    BY <2>3 DEF SyHandlesOwned
  <2>7. {h \in DOMAIN handles' : handles'[h].open} = HandleOf \cup leaked \cup (l + 1 .. l + count)
    <3>1. ASSUME NEW h \in 1 .. l
          PROVE  h \in DOMAIN handles' /\ handles'[h].open <=> h \in HandleOf \cup leaked
      BY <2>1, <2>3, <2>6
    <3>2. ASSUME NEW h \in l + 1 .. l + count
          PROVE  h \in DOMAIN handles' /\ handles'[h].open
      BY <2>1, <2>3
    <3>3. \A h \in DOMAIN handles' : h \in 1 .. l \/ h \in l + 1 .. l + count
      BY <2>3
    <3>4. \A h \in HandleOf \cup leaked : h \in 1 .. l
      BY <2>5
    <3> QED BY <3>1, <3>2, <3>3, <3>4
  <2>8. CASE count = k /\ symProcs' = symProcs
    <3>1. HandleOf' = HandleOf
      BY <2>8 DEF HandleOf
    <3>2. {h \in DOMAIN handles' : handles'[h].open} = HandleOf' \cup leaked'
      BY <2>3, <2>7, <2>8, <3>1
    <3>3. SyHandlesOwned'
      BY <2>8, <3>2 DEF SyHandlesOwned
    <3>4. leaked' \subseteq DOMAIN handles' /\ leaked' \cap HandleOf' = {}
      BY <2>3, <2>5, <2>8, <3>1
    <3>5. ASSUME NEW q \in DOMAIN symProcs'
          PROVE  symProcs'[q] \in DOMAIN handles' /\ Owner(handles[symProcs[q]].of, q)'
      BY <1>2, <2>1, <2>4, <2>8 DEF SyKept
    <3> QED BY <3>3, <3>4, <3>5 DEF SyKept
  <2>9. CASE count = k + 1 /\ symProcs' = Plus(symProcs, p, Len(handles'))
    <3>1. PICK h \in Nat : h = l + count
      OBVIOUS
    <3>2. /\ DOMAIN symProcs' = DOMAIN symProcs \cup {p} /\ symProcs'[p] = h
          /\ \A q \in DOMAIN symProcs : symProcs'[q] = symProcs[q]
      BY <2>1, <2>2, <2>3, <2>9, <3>1 DEF Plus
    <3>3. HandleOf' = HandleOf \cup {h}
      BY <3>2 DEF HandleOf
    <3>4. h \notin 1 .. l /\ h \in DOMAIN handles' /\ l + 1 .. l + count = (l + 1 .. l + k) \cup {h}
          /\ h \notin l + 1 .. l + k
      BY <2>3, <2>9, <3>1
    <3>5. {g \in DOMAIN handles' : handles'[g].open} = HandleOf' \cup leaked'
      BY <2>3, <2>7, <3>3, <3>4
    <3>6. \A q, r \in DOMAIN symProcs' : symProcs'[q] = symProcs'[r] => q = r
      <4>1. \A q \in DOMAIN symProcs : symProcs[q] # h
        BY <2>5, <3>4 DEF HandleOf
      <4> QED BY <3>2, <4>1 DEF SyHandlesOwned
    <3>7. SyHandlesOwned'
      BY <3>5, <3>6 DEF SyHandlesOwned
    <3>8. leaked' \subseteq DOMAIN handles' /\ leaked' \cap HandleOf' = {}
      <4>1. leaked' \subseteq DOMAIN handles'
        BY <2>3, <2>5, <2>9
      <4>2. \A g \in HandleOf : g \notin l + 1 .. l + k
        BY <2>5
      <4> QED BY <2>3, <2>5, <3>3, <3>4, <4>1, <4>2
    <3>9. ASSUME NEW q \in DOMAIN symProcs'
          PROVE  symProcs'[q] \in DOMAIN handles' /\ Owner(handles[symProcs[q]].of, q)'
      <4>1. CASE q \in DOMAIN symProcs
        BY <1>2, <2>1, <2>4, <3>2, <4>1 DEF SyKept
      <4>2. CASE q = p
        <5>1. PICK n : n = handles'[h].of
          OBVIOUS
        <5>2. n \in Running(p)
          BY <2>1, <2>3, <3>4, <5>1
        <5>3. Owner(n, p)'
          BY <1>6, <5>2 DEF Owner, Running
        <5> QED BY <3>2, <3>4, <4>2, <5>1, <5>3 DEF Owner
      <4> QED BY <3>2, <4>1, <4>2
    <3> QED BY <3>7, <3>8, <3>9 DEF SyKept
  <2> QED BY <1>6, <2>8, <2>9
<1>7. CASE \A p : NoEnd(p)
  BY <1>4, <1>5, <1>6, <1>7, SyHandlesStep
<1> QED
  BY <1>3, <1>7, SyEnds

\* The process of a frame.
LEMMA SyWalkedFacts ==
    ASSUME SyTyped, NEW i \in DOMAIN walks, Walked(i)
    PROVE  \E n \in DOMAIN life : \E p \in SyPid :
             /\ n = walks[i].of /\ p = life[n].pid /\ walks[i].addr \in SyAddr
             /\ life' = life /\ symLost' = symLost /\ lateFrames \subseteq lateFrames'
             /\ Owner(n, p)' /\ (life[n].alive \/ n \in lateFrames')
<1>1. life \in Seq(SyLife) /\ walks[i] \in SyWalk /\ walks[i].of \in DOMAIN life
  BY DEF SyTyped
<1>2. PICK n \in DOMAIN life : n = walks[i].of
  BY <1>1
<1>3. life[n] \in SyLife
  BY <1>1
<1>4. PICK p \in SyPid : p = life[n].pid
  BY <1>3 DEF SyLife
<1>5. walks[i].addr \in SyAddr
  BY <1>1 DEF SyWalk
<1>6. /\ life' = life /\ symLost' = symLost /\ lateFrames \subseteq lateFrames'
      /\ life[n].alive \/ n \in lateFrames'
  BY <1>2 DEF Walked, syOs
<1>7. Owner(n, p)'
  BY <1>4, <1>6 DEF Owner, Faulted
<1> QED
  BY <1>2, <1>4, <1>5, <1>6, <1>7

\* A module that is not the one of the process of an event is borrowed.
LEMMA SyBorrows ==
    ASSUME NEW e, NEW m, Borrow(e, m), m # 0
    PROVE  \/ e.of = e.ev /\ m = life[e.ev].mod
           \/ <<life[e.of].pid, m>> \in borrowed' /\ <<life[e.ev].pid, m>> \in borrowed'
BY DEF Borrow

\* The symbol that a frame or a start address adds.
LEMMA SyNewSymbol ==
    ASSUME NEW x \in DOMAIN symbols', NEW p \in SyPid, NEW c \in SyAddr, NEW s,
           symbols' = Plus(symbols, <<p, c>>, s)
    PROVE  \/ x \in DOMAIN symbols /\ symbols'[x] = symbols[x]
           \/ x \in SyPid \X SyAddr /\ x[1] = p /\ symbols'[x] = s
<1>1. PICK y : y = <<p, c>>
  OBVIOUS
<1>2. CASE x = y
  BY <1>1, <1>2 DEF Plus
<1>3. CASE x # y
  BY <1>1, <1>3 DEF Plus
<1> QED BY <1>2, <1>3

\* The symbols after a step were cached, or one is that of a frame.
LEMMA SySymbolsCases ==
    ASSUME SyTyped, SyKept', [SyNext]_syVars, NEW x \in DOMAIN symbols'
    PROVE  \/ /\ x \in DOMAIN symbols /\ symbols'[x] = symbols[x]
              /\ x \in SyPid \X SyAddr => NoEnd(x[1])
           \/ \E n, p : /\ x \in SyPid \X SyAddr /\ x[1] = p /\ symbols'[x].of = n /\ Owner(n, p)'
                        /\ \/ symbols'[x].exp \in {0, symbols'[x].mod}
                           \/ /\ n \in DOMAIN life /\ life' = life /\ p = life[n].pid
                              /\ life[n].alive \/ n \in lateFrames'
                              /\ symbols'[x].mod = life[n].mod \/ <<p, symbols'[x].mod>> \in borrowed'
                              /\ symbols'[x].exp = Exports(p, symbols'[x].mod)
<1>1. ASSUME NEW n \in DOMAIN life, TerminateProcess(n), \A p : p # life[n].pid => NoEnd(p)
      PROVE  /\ x \in DOMAIN symbols /\ symbols'[x] = symbols[x]
             /\ x \in SyPid \X SyAddr => NoEnd(x[1])
  <2>1. symbols' = But(symbols, {life[n].pid} \X SyAddr)
    BY <1>1 DEF TerminateProcess, SymbolsForgotten
  <2>2. x \in DOMAIN symbols /\ x \notin {life[n].pid} \X SyAddr /\ symbols'[x] = symbols[x]
    BY <2>1 DEF But
  <2>3. x \in SyPid \X SyAddr => x[1] # life[n].pid
    BY <2>2
  <2> QED BY <1>1, <2>2, <2>3
<1>2. ASSUME NEW i \in DOMAIN walks, FrameFromState(i)
      PROVE  \/ x \in DOMAIN symbols /\ symbols'[x] = symbols[x]
             \/ \E n, p : /\ x \in SyPid \X SyAddr /\ x[1] = p /\ symbols'[x].of = n /\ Owner(n, p)'
                          /\ n \in DOMAIN life /\ life' = life /\ p = life[n].pid
                          /\ life[n].alive \/ n \in lateFrames'
                          /\ symbols'[x].mod = life[n].mod \/ <<p, symbols'[x].mod>> \in borrowed'
                          /\ symbols'[x].exp = Exports(p, symbols'[x].mod)
  <2>1. Walked(i)
    BY <1>2 DEF FrameFromState
  <2>2. PICK n \in DOMAIN life, p \in SyPid :
             /\ n = walks[i].of /\ p = life[n].pid /\ walks[i].addr \in SyAddr
             /\ life' = life /\ Owner(n, p)' /\ (life[n].alive \/ n \in lateFrames')
    BY <2>1, SyWalkedFacts
  <2>m. PICK m : /\ m # 0 /\ Borrow(walks[i], m)
                 /\ CacheSymbol(p, walks[i].addr, [of |-> n, mod |-> m, exp |-> Exports(p, m)])
    BY <1>2, <2>2 DEF FrameFromState
  <2>3. PICK s : s = [of |-> n, mod |-> m, exp |-> Exports(p, m)]
    OBVIOUS
  <2>c. PICK c \in SyAddr : c = walks[i].addr
    BY <2>2
  <2>4. symbols' = Plus(symbols, <<p, c>>, s)
    BY <2>c, <2>m, <2>3 DEF CacheSymbol
  <2>5. CASE x \in SyPid \X SyAddr /\ x[1] = p /\ symbols'[x] = s
    <3>1. s.of = n /\ s.mod = m /\ s.exp = Exports(p, m)
      BY <2>3
    <3>2. m = life[n].mod \/ <<p, m>> \in borrowed'
      BY <2>2, <2>m, SyBorrows
    <3> QED BY <2>2, <2>5, <3>1, <3>2
  <2>6. \/ x \in DOMAIN symbols /\ symbols'[x] = symbols[x]
        \/ x \in SyPid \X SyAddr /\ x[1] = p /\ symbols'[x] = s
    BY <2>2, <2>4, SyNewSymbol
  <2> QED BY <2>5, <2>6
<1>3. ASSUME NEW i \in DOMAIN walks, FrameFromHandle(i) \/ SymbolizeAddress(i)
      PROVE  \/ x \in DOMAIN symbols /\ symbols'[x] = symbols[x]
             \/ \E n, p : /\ x \in SyPid \X SyAddr /\ x[1] = p /\ symbols'[x].of = n /\ Owner(n, p)'
                          /\ symbols'[x].exp \in {0, symbols'[x].mod}
  <2>1. Walked(i)
    BY <1>3 DEF FrameFromHandle, SymbolizeAddress
  <2>2. PICK n \in DOMAIN life, p \in SyPid :
             /\ n = walks[i].of /\ p = life[n].pid /\ walks[i].addr \in SyAddr
             /\ life' = life /\ Owner(n, p)'
    BY <2>1, SyWalkedFacts
  <2>3. PICK c \in SyAddr : c = walks[i].addr
    BY <2>2
  <2>4. ASSUME NEW l, NEW m, NEW d, d \in {0, m}, Owner(l, p)',
               symbols' = Plus(symbols, <<p, c>>, [of |-> l, exp |-> d, mod |-> m])
        PROVE  \/ x \in DOMAIN symbols /\ symbols'[x] = symbols[x]
               \/ \E k, q : /\ x \in SyPid \X SyAddr /\ x[1] = q /\ symbols'[x].of = k /\ Owner(k, q)'
                            /\ symbols'[x].exp \in {0, symbols'[x].mod}
    <3>1. PICK s : s = [of |-> l, exp |-> d, mod |-> m]
      OBVIOUS
    <3>2. symbols' = Plus(symbols, <<p, c>>, s) /\ s.of = l /\ s.exp = d /\ s.mod = m
      BY <2>4, <3>1
    <3>3. CASE x \in SyPid \X SyAddr /\ x[1] = p /\ symbols'[x] = s
      BY <2>4, <3>2, <3>3
    <3> QED BY <3>2, <3>3, SyNewSymbol
  <2>h. p \in DOMAIN symProcs' => \E l : l = handles'[symProcs'[p]].of /\ Owner(l, p)'
    BY DEF SyKept
  <2>o. ASSUME NEW tries, HandleOpened(p, tries) PROVE p \in DOMAIN symProcs'
    BY <2>o DEF HandleOpened, Plus
  <2>k. ASSUME HandleKept(p) PROVE p \in DOMAIN symProcs'
    BY <2>k DEF HandleKept, syHandles
  <2>5. CASE FrameFromHandle(i)
    <3>1. \/ \E l, m : /\ l = handles'[symProcs'[p]].of
                       /\ p \in DOMAIN symProcs'
                       /\ symbols' = Plus(symbols, <<p, c>>, [of |-> l, exp |-> 0, mod |-> m])
          \/ \E m : symbols' = Plus(symbols, <<p, c>>, [of |-> n, exp |-> 0, mod |-> m])
      BY <2>2, <2>3, <2>5, <2>o, <2>k DEF FrameFromHandle, CacheSymbol
    <3> QED BY <2>2, <2>4, <2>h, <3>1
  <2>6. CASE SymbolizeAddress(i)
    <3>1. \/ symbols' = symbols
          \/ \E l, m : /\ l = handles'[symProcs'[p]].of
                       /\ p \in DOMAIN symProcs'
                       /\ symbols' = Plus(symbols, <<p, c>>, [of |-> l, exp |-> 0, mod |-> m])
          \/ \E m : symbols' = Plus(symbols, <<p, c>>, [of |-> n, exp |-> m, mod |-> m])
      BY <2>2, <2>3, <2>6, <2>o, <2>k DEF SymbolizeAddress, CacheSymbol
    <3> QED BY <2>2, <2>4, <2>h, <3>1
  <2> QED BY <1>3, <2>5, <2>6
<1>4. ASSUME NEW n \in DOMAIN life, UnloadImage(n)
      PROVE  x \in DOMAIN symbols /\ symbols'[x] = symbols[x]
  BY <1>4 DEF UnloadImage, SyncModules, syCaches, But
<1>5. ASSUME \/ \E p \in SyPid : Begun(p)
             \/ \E n \in DOMAIN life : Load(n) \/ Dropped(n)
             \/ Stacked
             \/ \E i \in DOMAIN walks : FrameFromCache(i)
             \/ \E P \in SUBSET DOMAIN symProcs : CleanSyms(P)
             \/ Close \/ UNCHANGED syVars
      PROVE  symbols' = symbols
  BY <1>5 DEF Begun, Start, StartWalked, Born, Load, Dropped, Stacked, Walk, StartAddress,
     FrameFromCache, CleanSyms, Close, syVars, syCaches
<1>6. ASSUME \A p : NoEnd(p), ~\E n \in DOMAIN life : TerminateProcess(n)
      PROVE  \/ x \in DOMAIN symbols /\ symbols'[x] = symbols[x]
             \/ \E i \in DOMAIN walks : FrameFromState(i) \/ FrameFromHandle(i) \/ SymbolizeAddress(i)
  BY <1>4, <1>5, <1>6, SyCases DEF Framed
<1>7. CASE \E n \in DOMAIN life : TerminateProcess(n)
  <2>1. PICK n \in DOMAIN life : TerminateProcess(n) /\ \A p : p # life[n].pid => NoEnd(p)
    BY <1>7, SyEnds
  <2> QED BY <1>1, <2>1
<1>8. CASE ~\E n \in DOMAIN life : TerminateProcess(n)
  <2>1. \A p : NoEnd(p)
    BY <1>8, SyEnds
  <2>2. CASE x \in DOMAIN symbols /\ symbols'[x] = symbols[x]
    BY <2>1, <2>2
  <2>3. CASE \E i \in DOMAIN walks : FrameFromState(i) \/ FrameFromHandle(i) \/ SymbolizeAddress(i)
    BY <1>2, <1>3, <2>1, <2>3
  <2> QED BY <1>6, <1>8, <2>1, <2>2, <2>3
<1> QED BY <1>7, <1>8

LEMMA SySymbolsStep ==
    ASSUME SyTyped, SyKept', SySymbols, [SyNext]_syVars
    PROVE  SySymbols'
<1> SUFFICES ASSUME NEW x \in DOMAIN symbols'
             PROVE  x \in SyPid \X SyAddr /\ Owner(symbols[x].of, x[1])'
  BY DEF SySymbols
<1>1. CASE /\ x \in DOMAIN symbols /\ symbols'[x] = symbols[x]
           /\ x \in SyPid \X SyAddr => NoEnd(x[1])
  <2>1. PICK n, p : n = symbols[x].of /\ p = x[1]
    OBVIOUS
  <2>2. Owner(n, p) /\ NoEnd(p) /\ x \in SyPid \X SyAddr
    BY <1>1, <2>1 DEF SySymbols
  <2>3. Owner(n, p)'
    BY <2>2, OwnerKept
  <2> QED BY <1>1, <2>1, <2>2, <2>3 DEF Owner
<1>2. ASSUME NEW n, NEW p, x \in SyPid \X SyAddr, x[1] = p, symbols'[x].of = n, Owner(n, p)'
      PROVE  x \in SyPid \X SyAddr /\ Owner(symbols[x].of, x[1])'
  BY <1>2 DEF Owner
<1> QED BY <1>1, <1>2, SySymbolsCases

\* A module leaves its process with an event that prunes the exports, or that
\* is dropped.
LEMMA SyModChange ==
    ASSUME SyTyped, [SyNext]_syVars, NEW k \in DOMAIN life, life'[k].mod # life[k].mod
    PROVE  \/ life[k].mod = 0 \/ <<"module", life[k].mod>> \in symLost'
           \/ life[k].pid \notin DOMAIN mods'
<1>0. 0 \in Nat /\ loads + 1 \in Nat
  BY DEF SyTyped
<1>1. ASSUME NEW n \in DOMAIN life, NEW m \in Nat, life' = [life EXCEPT ![n].mod = m]
      PROVE  k = n
  BY <1>1, SyAtFacts
<1>2. ASSUME NEW n \in DOMAIN life, life' = [life EXCEPT ![n].alive = FALSE]
      PROVE  FALSE
  BY <1>2, SyAtFacts
<1>3. ASSUME NEW n \in DOMAIN life, Load(n) PROVE life[k].mod = 0
  <2>1. life' = [life EXCEPT ![n].mod = loads + 1] /\ life[n].mod = 0
    BY <1>3 DEF Load
  <2> QED BY <1>0, <1>1, <2>1
<1>4. ASSUME NEW n \in DOMAIN life, UnloadImage(n) PROVE life[k].pid \notin DOMAIN mods'
  <2>1. life' = [life EXCEPT ![n].mod = 0] /\ life[n].pid \notin DOMAIN mods'
    BY <1>4 DEF UnloadImage, SyncModules, ExportsPruned, But, syCaches
  <2> QED BY <1>0, <1>1, <2>1
<1>5. ASSUME NEW n \in DOMAIN life, Dropped(n) PROVE <<"module", life[k].mod>> \in symLost'
  <2>1. /\ life' = [life EXCEPT ![n].mod = 0]
        /\ symLost' = symLost \cup {<<"module", life[n].mod>>}
    BY <1>2, <1>5 DEF Dropped
  <2>2. k = n
    BY <1>0, <1>1, <2>1
  <2> QED BY <2>1, <2>2
<1>6. ASSUME NEW n \in DOMAIN life, TerminateProcess(n) PROVE FALSE
  BY <1>2, <1>6 DEF TerminateProcess
<1>7. ASSUME NEW p \in SyPid, Begun(p) PROVE FALSE
  BY <1>7, SyStartFacts
<1>8. life' # life
  OBVIOUS
<1>9. ASSUME NEW i, Framed(i)
      PROVE  life' = life
  BY <1>9, SyFrameCases DEF Walked, syOs
<1>10. ASSUME \/ Stacked
              \/ \E P \in SUBSET DOMAIN symProcs : CleanSyms(P)
              \/ Close \/ UNCHANGED syVars
       PROVE  life' = life
  BY <1>10 DEF Stacked, Walk, StartAddress, CleanSyms, Close, syVars, syOs
<1> QED
  BY <1>3, <1>4, <1>5, <1>6, <1>7, <1>8, <1>9, <1>10, SyCases

\* The exports after a step were cached, or are those of a frame's module, of
\* its own process or borrowed.
LEMMA SyModsCases ==
    ASSUME SyTyped, [SyNext]_syVars, NEW q \in DOMAIN mods'
    PROVE  \/ q \in DOMAIN mods /\ mods'[q] = mods[q] /\ NoEnd(q)
           \/ \E n \in DOMAIN life : /\ life' = life /\ Owner(n, q)'
                                     /\ mods'[q] = life[n].mod /\ life[n].mod # 0
           \/ mods'[q] # 0 /\ <<q, mods'[q]>> \in borrowed'
<1>1. ASSUME NEW n \in DOMAIN life, TerminateProcess(n), \A p : p # life[n].pid => NoEnd(p)
      PROVE  q \in DOMAIN mods /\ mods'[q] = mods[q] /\ NoEnd(q)
  BY <1>1 DEF TerminateProcess, But
<1>2. ASSUME NEW i \in DOMAIN walks, FrameFromState(i) \/ FrameFromHandle(i)
      PROVE  \/ q \in DOMAIN mods /\ mods'[q] = mods[q]
             \/ \E n \in DOMAIN life : /\ life' = life /\ Owner(n, q)'
                                       /\ mods'[q] = life[n].mod /\ life[n].mod # 0
             \/ mods'[q] # 0 /\ <<q, mods'[q]>> \in borrowed'
  <2>1. Walked(i)
    BY <1>2 DEF FrameFromState, FrameFromHandle
  <2>2. PICK n \in DOMAIN life, p \in SyPid :
             n = walks[i].of /\ p = life[n].pid /\ life' = life /\ Owner(n, p)'
    BY <2>1, SyWalkedFacts
  <2>3. CASE mods' = mods
    BY <2>3
  <2>4. ASSUME NEW m, m # 0, Borrow(walks[i], m), CacheModule(p, life[walks[i].ev].pid, m),
               mods' # mods
        PROVE  \/ q \in DOMAIN mods /\ mods'[q] = mods[q]
               \/ \E k \in DOMAIN life : /\ life' = life /\ Owner(k, q)'
                                         /\ mods'[q] = life[k].mod /\ life[k].mod # 0
               \/ mods'[q] # 0 /\ <<q, mods'[q]>> \in borrowed'
    <3>1. PICK u : u = life[walks[i].ev].pid
      OBVIOUS
    <3>2. mods' = Plus(mods, u, m)
      BY <2>4, <3>1 DEF CacheModule
    <3>3. q # u => q \in DOMAIN mods /\ mods'[q] = mods[q]
      BY <3>2 DEF Plus
    <3>4. q = u => mods'[q] = m
      BY <3>2 DEF Plus
    <3>5. \/ walks[i].of = walks[i].ev /\ m = life[walks[i].ev].mod
          \/ <<u, m>> \in borrowed'
      BY <2>4, <3>1, SyBorrows
    <3> QED BY <2>2, <2>4, <3>1, <3>3, <3>4, <3>5
  <2>5. \/ mods' = mods
        \/ \E m : m # 0 /\ Borrow(walks[i], m) /\ CacheModule(p, life[walks[i].ev].pid, m)
    BY <1>2, <2>2 DEF FrameFromState, FrameFromHandle
  <2> QED BY <2>3, <2>4, <2>5
<1>3. ASSUME NEW n \in DOMAIN life, UnloadImage(n)
      PROVE  q \in DOMAIN mods /\ mods'[q] = mods[q]
  BY <1>3 DEF UnloadImage, SyncModules, ExportsPruned, syCaches, But
<1>4. ASSUME \/ \E p \in SyPid : Begun(p)
             \/ \E n \in DOMAIN life : Load(n) \/ Dropped(n)
             \/ Stacked
             \/ \E i \in DOMAIN walks : FrameFromCache(i) \/ SymbolizeAddress(i)
             \/ \E P \in SUBSET DOMAIN symProcs : CleanSyms(P)
             \/ Close \/ UNCHANGED syVars
      PROVE  mods' = mods
  BY <1>4 DEF Begun, Start, StartWalked, Born, Load, Dropped, Stacked, Walk, StartAddress,
     FrameFromCache, SymbolizeAddress, CleanSyms, Close, syVars, syCaches
<1>5. CASE \E n \in DOMAIN life : TerminateProcess(n)
  <2>1. PICK n \in DOMAIN life : TerminateProcess(n) /\ \A p : p # life[n].pid => NoEnd(p)
    BY <1>5, SyEnds
  <2> QED BY <1>1, <2>1
<1>6. CASE ~\E n \in DOMAIN life : TerminateProcess(n)
  <2>1. NoEnd(q)
    BY <1>6, SyEnds
  <2>2. \/ q \in DOMAIN mods /\ mods'[q] = mods[q]
        \/ \E i \in DOMAIN walks : FrameFromState(i) \/ FrameFromHandle(i)
    BY <1>3, <1>4, <1>6, SyCases DEF Framed
  <2> QED BY <1>2, <2>1, <2>2
<1> QED BY <1>5, <1>6

LEMMA SyModsStep ==
    ASSUME SyTyped, SyMods, [SyNext]_syVars
    PROVE  SyMods'
<1> SUFFICES ASSUME NEW q \in DOMAIN mods'
             PROVE  /\ mods'[q] # 0
                    /\ \/ <<"module", mods'[q]>> \in symLost' \/ <<q, mods'[q]>> \in borrowed'
                       \/ \E n \in DOMAIN life' : life'[n].mod = mods'[q] /\ Owner(n, q)'
  BY DEF SyMods
<1>1. CASE q \in DOMAIN mods /\ mods'[q] = mods[q] /\ NoEnd(q)
  <2>1. CASE <<"module", mods[q]>> \in symLost \/ <<q, mods[q]>> \in borrowed
    BY <1>1, <2>1, SyLifeStep DEF SyMods
  <2>2. CASE \E n \in DOMAIN life : life[n].mod = mods[q] /\ Owner(n, q)
    <3>1. PICK n \in DOMAIN life : life[n].mod = mods[q] /\ Owner(n, q)
      BY <2>2
    <3>2. Owner(n, q)' /\ n \in DOMAIN life' /\ life[n].pid = q /\ mods[q] # 0
      BY <1>1, <3>1, OwnerKept, SyLifeStep DEF Owner, SyMods
    <3>3. CASE life'[n].mod = life[n].mod
      BY <1>1, <3>1, <3>2, <3>3
    <3>4. CASE life'[n].mod # life[n].mod
      <4>1. \/ life[n].mod = 0 \/ <<"module", life[n].mod>> \in symLost'
            \/ life[n].pid \notin DOMAIN mods'
        BY <3>4, SyModChange
      <4> QED BY <1>1, <3>1, <3>2, <4>1
    <3> QED BY <3>3, <3>4
  <2> QED BY <1>1, <2>1, <2>2 DEF SyMods
<1>2. CASE \E n \in DOMAIN life : /\ life' = life /\ Owner(n, q)'
                                  /\ mods'[q] = life[n].mod /\ life[n].mod # 0
  BY <1>2
<1>3. CASE mods'[q] # 0 /\ <<q, mods'[q]>> \in borrowed'
  BY <1>3
<1> QED BY <1>1, <1>2, <1>3, SyModsCases

\* SyExports of one symbol, of pid p.
ExportsOwn(p, s) ==
    s.exp \notin {0, s.mod} =>
        \/ <<"module", s.exp>> \in symLost \/ s.of \in lateFrames
        \/ \E n \in DOMAIN life : Faulted(n) /\ life[n].mod = s.exp
        \/ <<p, s.exp>> \in borrowed \/ <<p, s.mod>> \in borrowed

LEMMA ExportsOwnAll ==
    ASSUME SyEnded
    PROVE  SyExports <=> \A x \in DOMAIN symbols : ExportsOwn(x[1], symbols[x])
<1>1. \A p, c, d : ({p} \X {c, d}) \cap borrowed # {} <=> <<p, c>> \in borrowed \/ <<p, d>> \in borrowed
  OBVIOUS
<1> QED BY <1>1 DEF SyExports, ExportsOwn, Faulted, SyEnded

\* A process that the faults happened to has ended and keeps its module.
LEMMA ExportsOwnKept ==
    ASSUME SyTyped, SyEnded, [SyNext]_syVars, NEW p, NEW s, ExportsOwn(p, s)
    PROVE  ExportsOwn(p, s)'
<1>1. symLost \subseteq symLost' /\ lateFrames \subseteq lateFrames' /\ borrowed \subseteq borrowed'
  BY SyLifeStep
<1>2. ASSUME NEW n \in DOMAIN life, Faulted(n)
      PROVE  n \in DOMAIN life' /\ Faulted(n)' /\ life'[n].mod = life[n].mod
  BY <1>1, <1>2, SyLifeStep DEF SyEnded, Faulted
<1> QED
  BY <1>1, <1>2 DEF ExportsOwn

LEMMA SyExportsStep ==
    ASSUME SyTyped, SyKept', SyOne, SyEnded, SyEnded', SyMods, SyExports, [SyNext]_syVars
    PROVE  SyExports'
<1>1. \A x \in DOMAIN symbols : ExportsOwn(x[1], symbols[x])
  BY ExportsOwnAll
<1>2. ASSUME \A x \in DOMAIN symbols' : ExportsOwn(x[1], symbols[x])'
      PROVE  SyExports'
  <2>1. \A p, c, d :
            ({p} \X {c, d}) \cap borrowed' # {} <=> <<p, c>> \in borrowed' \/ <<p, d>> \in borrowed'
    OBVIOUS
  <2> QED BY <1>2, <2>1 DEF SyExports, ExportsOwn, Faulted, SyEnded
<1>3. ASSUME NEW x \in DOMAIN symbols'
      PROVE  ExportsOwn(x[1], symbols[x])'
  <2>1. PICK s, u : s = symbols'[x] /\ u = x[1]
    OBVIOUS
  <2>2. ASSUME ExportsOwn(u, s)' PROVE ExportsOwn(x[1], symbols[x])'
    BY <2>1, <2>2 DEF ExportsOwn
  <2>3. CASE x \in DOMAIN symbols /\ symbols'[x] = symbols[x]
    <3>1. ExportsOwn(u, s)
      BY <1>1, <2>1, <2>3
    <3> QED BY <2>2, <3>1, ExportsOwnKept
  <2>4. CASE s.exp \in {0, s.mod}
    BY <2>2, <2>4 DEF ExportsOwn
  <2>5. ASSUME NEW n \in DOMAIN life, s.of = n, life' = life, u = life[n].pid,
               life[n].alive \/ n \in lateFrames',
               s.mod = life[n].mod \/ <<u, s.mod>> \in borrowed', s.exp = Exports(u, s.mod)
        PROVE  ExportsOwn(u, s)'
    <3>1. SUFFICES ASSUME s.exp # 0, s.exp # s.mod, n \notin lateFrames', s.mod = life[n].mod
                   PROVE  \/ <<"module", s.exp>> \in symLost' \/ <<u, s.exp>> \in borrowed'
                          \/ \E k \in DOMAIN life' : Faulted(k)' /\ life'[k].mod = s.exp
      BY <2>5 DEF ExportsOwn
    <3>2. life[n].alive /\ u \in DOMAIN mods /\ s.exp = mods[u]
      BY <2>5, <3>1 DEF Exports
    <3>3. symLost \subseteq symLost' /\ lateFrames \subseteq lateFrames' /\ borrowed \subseteq borrowed'
      BY SyLifeStep
    <3>4. CASE <<"module", mods[u]>> \in symLost \/ <<u, mods[u]>> \in borrowed
      BY <3>2, <3>3, <3>4
    <3>5. ASSUME NEW k \in DOMAIN life, life[k].mod = mods[u], Owner(k, u)
          PROVE  Faulted(k)'
      <4>1. k # n
        BY <2>5, <3>1, <3>2, <3>5
      <4>2. ~life[k].alive
        BY <2>5, <3>2, <3>5, <4>1 DEF SyOne, Owner
      <4> QED BY <3>3, <3>5, <4>2 DEF Owner, Faulted
    <3> QED BY <2>5, <3>2, <3>4, <3>5 DEF SyMods
  <2> QED BY <2>1, <2>2, <2>3, <2>4, <2>5, SySymbolsCases
<1> QED BY <1>2, <1>3

\* For any processes, modules and addresses, any number of callstacks and
\* dropped events, and with the housekeeper and Close at any time: a frame gets
\* a symbol of its own process and, from exports, of its own module, but for
\* the faults the property names, and every handle that is open is owned by one
\* pid or was left behind by a failed initialization (pushFrames, symbolizeAddress,
\* syncModules, cleanSym, Close).
THEOREM FramesAttributed == SySpec => []SyAttributed
<1>1. SyInit => SyInv
  BY SyInitInv
<1>2. SyInv /\ [SyNext]_syVars => SyInv'
  <2> SUFFICES ASSUME SyInv, [SyNext]_syVars PROVE SyInv'
    OBVIOUS
  <2>1. SyTyped' /\ SyOne' /\ SyEnded' /\ SyMods'
    BY SyTypedStep, SyOneStep, SyEndedStep, SyModsStep DEF SyInv
  <2>2. SyKept' /\ SyHandlesOwned'
    BY SyKeptStep DEF SyInv
  <2>3. SySymbols' /\ SyExports'
    BY <2>1, <2>2, SySymbolsStep, SyExportsStep DEF SyInv
  <2> QED BY <2>1, <2>2, <2>3 DEF SyInv
<1>3. SyInv => SyAttributed
  <2> SUFFICES ASSUME SyInv PROVE SyOwnProcess
    BY DEF SyInv, SyAttributed
  <2>1. ASSUME NEW x \in DOMAIN symbols, NEW n \in Running(x[1]), symbols[x].of # n
        PROVE  Faulted(symbols[x].of)
    <3>1. Owner(symbols[x].of, x[1])
      BY DEF SyInv, SySymbols
    <3>2. n \in DOMAIN life /\ life[n].pid = x[1] /\ life[n].alive
      BY DEF Running
    <3> QED BY <2>1, <3>1, <3>2 DEF SyInv, SyOne, Owner
  <2> QED BY <2>1 DEF SyOwnProcess, Faulted
<1> QED
  BY <1>1, <1>2, <1>3, PTL DEF SySpec

-----------------------------------------------------------------------------
(* The file system processor *)

FsAt == {"create", "end", "open", "failed", "released"}
FsOp == [at : FsAt, irp : FsIrp, obj : FsObject, key : FsObject, tid : FsThread]
FsWalk == [of : Nat, old : BOOLEAN]

FsTyped ==
    /\ op \in Seq(FsOp) /\ Len(op) <= FsOps
    /\ buckets \in [FsThread -> Seq(FsWalk)]
    /\ path \in [1 .. FsOps -> SUBSET DOMAIN op]
    /\ \A n \in 1 .. FsOps : n \notin DOMAIN op => path[n] = {}
    /\ \A o \in DOMAIN files : o \in FsObject /\ files[o] \in DOMAIN op
    /\ \A i \in DOMAIN irps : i \in FsIrp /\ irps[i] \in DOMAIN op
    /\ DOMAIN sent \subseteq DOMAIN op

\* Two operations in flight have neither packet nor thread in common, and two
\* that have their file object share neither that nor the file key.
FsUnique ==
    \A n, m \in DOMAIN op :
        /\ InFlight(n) /\ InFlight(m) /\ n # m => op[n].irp # op[m].irp /\ op[n].tid # op[m].tid
        /\ HasObject(n) /\ HasObject(m) /\ n # m =>
              {op[n].obj, op[n].key} \cap {op[m].obj, op[m].key} = {}

\* What waits for a packet was not sent on, and its operation is in flight or
\* its end did not arrive; a CreateFile event that arrived waits for its own.
FsWaiting ==
    /\ \A i \in DOMAIN irps :
          /\ op[irps[i]].irp = i /\ irps[i] \notin DOMAIN sent
          /\ InFlight(irps[i]) \/ Lost("end", irps[i]) \/ irps[i] \in rejected
    /\ \A n \in DOMAIN op : InFlight(n) =>
          Lost("create", n) \/ (op[n].irp \in DOMAIN irps /\ irps[op[n].irp] = n)

\* An event that went on with another operation's end took the callstack of n.
StackTaken(n) == \E m \in DOMAIN sent : Astray(m) /\ sent[m].stack = n

\* The callstack of an operation that is about to end is the latest of its
\* thread's bucket.
FsLatest ==
    \A n \in DOMAIN op : op[n].at = "end" =>
        \/ Lost("walk", n) \/ n \in buried \/ StackTaken(n)
        \/ TopStack(buckets[op[n].tid]) = n

\* The path of a file object is of the operation that has the object, unless the
\* one that had it could not be seen to give it up; only a rundown stores the
\* path of a file key.
FsOutlived(m) == op[m].at = "failed" \/ Lost("release", m) \/ Astray(m) \/ m \in named
FsNamed ==
    \A o \in DOMAIN files :
        /\ op[files[o]].obj = o \/ (op[files[o]].key = o /\ files[o] \in named)
        /\ HasObject(files[o]) \/ FsOutlived(files[o])

\* The object of an open file has a path, unless the file is unknown.
FsPresent ==
    \A n \in DOMAIN op : op[n].at = "open" => op[n].obj \in DOMAIN files \/ Unknown(n)

FsInv == FsTyped /\ FsUnique /\ FsWaiting /\ FsLatest /\ FsNamed /\ FsPresent /\ FsAttributed

LEMMA FsFields ==
    ASSUME op \in Seq(FsOp), NEW n \in DOMAIN op
    PROVE  /\ n \in Nat /\ n # 0
           /\ op[n].at \in FsAt /\ op[n].irp \in FsIrp /\ op[n].obj \in FsObject
           /\ op[n].key \in FsObject /\ op[n].tid \in FsThread
<1>1. op[n] \in FsOp /\ n \in 1 .. Len(op) /\ Len(op) \in Nat
  OBVIOUS
<1>2. n \in Nat /\ n # 0
  BY <1>1
<1>3. /\ op[n].at \in FsAt /\ op[n].irp \in FsIrp /\ op[n].obj \in FsObject
      /\ op[n].key \in FsObject /\ op[n].tid \in FsThread
  BY <1>1 DEF FsOp
<1> QED BY <1>2, <1>3

LEMMA FsInitInv == FsInit => FsInv
<1> SUFFICES ASSUME FsInit PROVE FsInv
  OBVIOUS
<1>1. DOMAIN op = {} /\ op \in Seq(FsOp) /\ Len(op) = 0
  BY DEF FsInit
<1>2. DOMAIN files = {} /\ DOMAIN irps = {} /\ DOMAIN sent = {}
  BY DEF FsInit
<1>3. /\ buckets \in [FsThread -> Seq(FsWalk)] /\ path \in [1 .. FsOps -> SUBSET DOMAIN op]
      /\ \A n \in 1 .. FsOps : path[n] = {}
  BY DEF FsInit
<1>4. FsTyped
  BY <1>1, <1>2, <1>3, FsAssumption DEF FsTyped
<1>5. FsUnique /\ FsWaiting /\ FsLatest /\ FsNamed /\ FsPresent
  BY <1>1, <1>2 DEF FsUnique, FsWaiting, FsLatest, FsNamed, FsPresent
<1>6. FsAttributed
  BY <1>1, <1>2 DEF FsAttributed, FsPaired, FsOwnStack, FsForwarded, FsOwnPath
<1> QED BY <1>4, <1>5, <1>6 DEF FsInv

\* An operation goes to its next stage, and nothing else about it changes.
LEMMA FsStepFacts ==
    ASSUME op \in Seq(FsOp), NEW n \in DOMAIN op, NEW at \in FsAt, Step(n, at)
    PROVE  /\ op' \in Seq(FsOp) /\ Len(op') = Len(op) /\ DOMAIN op' = DOMAIN op
           /\ op'[n].at = at
           /\ \A k \in DOMAIN op : /\ k # n => op'[k] = op[k]
                                   /\ op'[k].irp = op[k].irp /\ op'[k].obj = op[k].obj
                                   /\ op'[k].key = op[k].key /\ op'[k].tid = op[k].tid
<1>1. op[n] \in FsOp
  OBVIOUS
<1>2. op' = [op EXCEPT ![n] = [op[n] EXCEPT !.at = at]]
  BY DEF Step
<1>3. [op[n] EXCEPT !.at = at] \in FsOp
  BY <1>1 DEF FsOp
<1>4. op' \in Seq(FsOp) /\ Len(op') = Len(op) /\ DOMAIN op' = DOMAIN op
  BY <1>2, <1>3
<1>5. op'[n] = [op[n] EXCEPT !.at = at] /\ \A k \in DOMAIN op : k # n => op'[k] = op[k]
  BY <1>2
<1>6. /\ op'[n].at = at /\ op'[n].irp = op[n].irp /\ op'[n].obj = op[n].obj
      /\ op'[n].key = op[n].key /\ op'[n].tid = op[n].tid
  BY <1>1, <1>5 DEF FsOp
<1> QED BY <1>4, <1>5, <1>6

\* What CreateFile does to the operations.
LEMMA FsCreateFacts ==
    ASSUME FsTyped, NEW i \in FsIrp, NEW o \in FsObject, NEW a \in FsObject, NEW t \in FsThread,
                 CreateFile(i, o, a, t)
    PROVE  /\ op' \in Seq(FsOp) /\ Len(op') <= FsOps
           /\ DOMAIN op' = DOMAIN op \cup {Len(op) + 1} /\ Len(op) + 1 \notin DOMAIN op
           /\ \A k \in DOMAIN op : op'[k] = op[k]
           /\ op'[Len(op) + 1] = [at |-> "create", irp |-> i, obj |-> o, key |-> a, tid |-> t]
<1>1. op \in Seq(FsOp) /\ Len(op) < FsOps
      /\ op' = Append(op, [at |-> "create", irp |-> i, obj |-> o, key |-> a, tid |-> t])
  BY DEF FsTyped, CreateFile
<1>2. [at |-> "create", irp |-> i, obj |-> o, key |-> a, tid |-> t] \in FsOp
  BY DEF FsOp, FsAt
<1>3. Len(op') = Len(op) + 1
  BY <1>1, <1>2
<1> QED
  BY <1>1, <1>2, <1>3, AppendAt, FsAssumption

\* The operations, and what is known of them, only grow.
FsGrown ==
    /\ DOMAIN op \subseteq DOMAIN op'
    /\ \A k \in DOMAIN op : /\ op'[k].irp = op[k].irp /\ op'[k].obj = op[k].obj
                            /\ op'[k].key = op[k].key /\ op'[k].tid = op[k].tid
                            /\ op[k].at = "failed" => op'[k].at = "failed"
                            /\ op'[k].at \in {"create", "end"} => InFlight(k)
                            /\ op'[k].at \in {"create", "end", "open"} => HasObject(k)
    /\ lost \subseteq lost' /\ buried \subseteq buried' /\ rejected \subseteq rejected'
    /\ named \subseteq named' /\ deleted \subseteq deleted'
    /\ DOMAIN sent \subseteq DOMAIN sent'
    /\ \A k \in DOMAIN sent : sent'[k] = sent[k]

\* What FileOpEnd of n does when a CreateFile event ev waits for its packet.
FsEnds(n, ev) ==
    /\ op[n].irp \in DOMAIN irps /\ ev = irps[op[n].irp]
    /\ irps' = Without(irps, op[n].irp)
    /\ files' = IF op[ev].obj \in DOMAIN files THEN files ELSE With(files, op[ev].obj, ev)
    /\ sent' = With(sent, ev, [end |-> n, stack |-> TopStack(buckets[op[ev].tid])])
    /\ buckets' = [buckets EXCEPT ![op[ev].tid] = Popped(@)]
    /\ UNCHANGED <<path, lost, rejected, others, buried, named, deleted>>

LEMMA FsEndCases ==
    ASSUME NEW n \in DOMAIN op, FileOpEnd(n)
    PROVE  /\ op[n].at = "end" /\ \E at \in {"open", "failed"} : Step(n, at)
           /\ path' = path /\ UNCHANGED <<buried, named, deleted>>
           /\ \/ FsEnds(n, irps[op[n].irp])
              \/ /\ UNCHANGED fsState
                 /\ \/ op[n].irp \notin DOMAIN irps /\ UNCHANGED <<lost, rejected>>
                    \/ rejected' = rejected \cup {n} /\ UNCHANGED lost
                    \/ lost' = lost \cup {<<"end", n>>} /\ UNCHANGED rejected
<1>1. ASSUME EndOperation(n), UNCHANGED <<lost, rejected>>
      PROVE  \/ FsEnds(n, irps[op[n].irp])
             \/ UNCHANGED fsState /\ op[n].irp \notin DOMAIN irps /\ UNCHANGED <<lost, rejected>>
  BY <1>1 DEF EndOperation, FsEnds, TakePending, FileOpEnd
<1>2. op[n].at = "end" /\ (\E at \in {"open", "failed"} : Step(n, at))
      /\ UNCHANGED <<buried, named, deleted>>
  BY DEF FileOpEnd
<1>3. \/ EndOperation(n) /\ UNCHANGED <<lost, rejected>>
      \/ rejected' = rejected \cup {n} /\ UNCHANGED <<fsState, lost>>
      \/ lost' = lost \cup {<<"end", n>>} /\ UNCHANGED <<fsState, rejected>>
  BY DEF FileOpEnd, Drop
<1> QED
  BY <1>1, <1>2, <1>3 DEF fsState, FsEnds

LEMMA FsGrowth ==
    ASSUME FsTyped, FsWaiting, [FsNext]_fsVars
    PROVE  FsGrown
<1>0. op \in Seq(FsOp)
  BY DEF FsTyped
<1>1. CASE /\ op' = op /\ sent' = sent /\ lost' = lost /\ rejected' = rejected
          /\ buried \subseteq buried' /\ named \subseteq named' /\ deleted \subseteq deleted'
  BY <1>1 DEF FsGrown, InFlight, HasObject
<1>2. ASSUME NEW i \in FsIrp, NEW o \in FsObject, NEW a \in FsObject, NEW t \in FsThread,
                 CreateFile(i, o, a, t)
      PROVE  FsGrown
  <2>1. sent' = sent /\ lost \subseteq lost' /\ rejected' = rejected /\ buried' = buried
        /\ named' = named /\ deleted' = deleted
    BY <1>2 DEF CreateFile, Drop
  <2> QED BY <1>2, <2>1, FsCreateFacts DEF FsGrown, InFlight, HasObject
<1>3. ASSUME NEW n \in DOMAIN op, StackWalk(n) \/ ReleaseFile(n)
      PROVE  FsGrown
  <2>1. sent' = sent /\ lost \subseteq lost' /\ rejected' = rejected /\ buried' = buried
        /\ named' = named /\ deleted' = deleted
    BY <1>3 DEF StackWalk, ReleaseFile, Drop
  <2>2. PICK at \in FsAt : Step(n, at) /\ <<op[n].at, at>> \in
                            {<<"create", "end">>, <<"open", "released">>}
    BY <1>3 DEF StackWalk, ReleaseFile, FsAt
  <2> QED BY <1>0, <2>1, <2>2, FsStepFacts DEF FsGrown, InFlight, HasObject
<1>4. ASSUME NEW n \in DOMAIN op, FileOpEnd(n)
      PROVE  FsGrown
  <2>1. PICK at \in FsAt : Step(n, at) /\ at \in {"open", "failed"} /\ op[n].at = "end"
    BY <1>4, FsEndCases DEF FsAt
  <2>2. lost \subseteq lost' /\ rejected \subseteq rejected' /\ buried' = buried
        /\ named' = named /\ deleted' = deleted
    BY <1>4, FsEndCases DEF FsEnds
  <2>3. DOMAIN sent \subseteq DOMAIN sent' /\ \A k \in DOMAIN sent : sent'[k] = sent[k]
    <3>1. CASE sent' = sent
      BY <3>1
    <3>2. CASE FsEnds(n, irps[op[n].irp])
      <4>1. PICK ev, v : ev \notin DOMAIN sent /\ sent' = With(sent, ev, v)
        BY <3>2 DEF FsEnds, FsWaiting
      <4>2. DOMAIN sent' = DOMAIN sent \cup {ev}
        BY <4>1 DEF With
      <4>3. ASSUME NEW k \in DOMAIN sent PROVE sent'[k] = sent[k]
        <5>1. k # ev
          BY <4>1
        <5> QED BY <4>1, <5>1 DEF With
      <4> QED BY <4>2, <4>3
    <3> QED BY <1>4, <3>1, <3>2, FsEndCases DEF fsState
  <2> QED BY <1>0, <2>1, <2>2, <2>3, FsStepFacts DEF FsGrown, InFlight, HasObject
<1>5. ASSUME NEW n \in DOMAIN op, FileEvent(n) \/ FileRundown(n) \/ DeleteFile(n)
      PROVE  /\ op' = op /\ sent' = sent /\ lost' = lost /\ rejected' = rejected
             /\ buried \subseteq buried' /\ named \subseteq named' /\ deleted \subseteq deleted'
  BY <1>5 DEF FileEvent, FileRundown, DeleteFile, fsHistory
<1>6. ASSUME NEW t \in FsThread, OtherWalk(t) \/ \E m \in DOMAIN buckets[t] : FsAge(t, m)
      PROVE  /\ op' = op /\ sent' = sent /\ lost' = lost /\ rejected' = rejected
             /\ buried \subseteq buried' /\ named \subseteq named' /\ deleted \subseteq deleted'
  BY <1>6 DEF OtherWalk, FsAge, fsHistory
<1>7. ASSUME Purge
      PROVE  /\ op' = op /\ sent' = sent /\ lost' = lost /\ rejected' = rejected
             /\ buried \subseteq buried' /\ named \subseteq named' /\ deleted \subseteq deleted'
  BY <1>7 DEF Purge
<1>8. ASSUME UNCHANGED fsVars
      PROVE  /\ op' = op /\ sent' = sent /\ lost' = lost /\ rejected' = rejected
             /\ buried \subseteq buried' /\ named \subseteq named' /\ deleted \subseteq deleted'
  BY <1>8 DEF fsVars, fsState, fsHistory
<1> QED
  BY <1>1, <1>2, <1>3, <1>4, <1>5, <1>6, <1>7, <1>8 DEF FsNext

\* The callstacks of a bucket after a pop, after time has passed and after a
\* purge; the purger keeps the latest one if it is young.
LEMMA PoppedIn ==
    ASSUME NEW q \in Seq(FsWalk)
    PROVE  Popped(q) \in Seq(FsWalk)
BY DEF Popped

LEMMA FunctionIn ==
    ASSUME NEW S, NEW n \in Nat, NEW f \in [1 .. n -> S]
    PROVE  f \in Seq(S) /\ Len(f) = n
OBVIOUS

LEMMA RestOf ==
    ASSUME NEW S, NEW q \in Seq(S), NEW k \in Nat, k <= Len(q)
    PROVE  LET r == SubSeq(q, k + 1, Len(q)) IN
           /\ r \in Seq(S) /\ Len(r) = Len(q) - k
           /\ k < Len(q) => r # <<>> /\ r[Len(r)] = q[Len(q)]
<1> DEFINE r == SubSeq(q, k + 1, Len(q))
<1>1. Len(q) \in Nat /\ \A i \in 1 .. Len(q) : q[i] \in S
  OBVIOUS
<1>2. r = [i \in 1 .. (Len(q) - k) |-> q[k + i]]
  BY <1>1
<1>3. Len(q) - k \in Nat /\ \A i \in 1 .. (Len(q) - k) : k + i \in 1 .. Len(q)
  BY <1>1
<1> HIDE DEF r
<1>4. r \in [1 .. (Len(q) - k) -> S]
  BY <1>1, <1>2, <1>3
<1>5. r \in Seq(S) /\ Len(r) = Len(q) - k
  BY <1>3, <1>4, FunctionIn
<1>6. ASSUME k < Len(q) PROVE r # <<>> /\ r[Len(r)] = q[Len(q)]
  <2>1. Len(q) - k \in 1 .. (Len(q) - k) /\ k + (Len(q) - k) = Len(q)
    BY <1>1, <1>6
  <2>2. r[Len(q) - k] = q[k + (Len(q) - k)]
    BY <1>2, <2>1
  <2>3. r # <<>>
    BY <1>1, <1>5, <1>6
  <2> QED BY <1>5, <2>1, <2>2, <2>3
<1> QED BY <1>5, <1>6 DEF r

LEMMA AgedAt ==
    ASSUME NEW q \in Seq(FsWalk), NEW m \in DOMAIN q
    PROVE  Aged(q, m) \in Seq(FsWalk) /\ TopStack(Aged(q, m)) = TopStack(q)
<1> DEFINE r == [j \in DOMAIN q |-> [q[j] EXCEPT !.old = @ \/ j <= m]]
<1>1. \A j \in DOMAIN q : q[j] \in FsWalk
  OBVIOUS
<1>2. ASSUME NEW j \in DOMAIN q PROVE r[j] \in FsWalk /\ r[j].of = q[j].of
  <2>1. q[j] \in FsWalk /\ j \in Nat
    BY <1>1
  <2>2. PICK b \in BOOLEAN : b = (q[j].old \/ j <= m)
    OBVIOUS
  <2>3. r[j] = [q[j] EXCEPT !.old = b]
    BY <2>2
  <2> HIDE DEF r
  <2> QED BY <2>1, <2>3 DEF FsWalk
<1>3. Len(q) \in Nat /\ DOMAIN q = 1 .. Len(q) /\ DOMAIN r = DOMAIN q
  OBVIOUS
<1>5. q # <<>> /\ Len(q) \in DOMAIN q
  BY <1>3
<1>8. r \in [1 .. Len(q) -> FsWalk]
  BY <1>2, <1>3
<1> HIDE DEF r
<1>4. r \in Seq(FsWalk) /\ Len(r) = Len(q)
  BY <1>3, <1>8, FunctionIn
<1>6. r # <<>>
  BY <1>3, <1>4, <1>5
<1>7. TopStack(r) = TopStack(q)
  BY <1>2, <1>4, <1>5, <1>6 DEF TopStack
<1> QED BY <1>4, <1>7 DEF r, Aged

LEMMA YoungAt ==
    ASSUME NEW q \in Seq(FsWalk)
    PROVE  /\ Young(q) \in Seq(FsWalk)
           /\ q # <<>> /\ ~q[Len(q)].old => TopStack(Young(q)) = TopStack(q)
<1> DEFINE S == {j \in DOMAIN q : q[j].old}
<1>1. Len(q) \in Nat /\ DOMAIN q = 1 .. Len(q) /\ S \subseteq 1 .. Len(q)
  OBVIOUS
<1>2. IsFiniteSet(1 .. Len(q)) /\ Cardinality(1 .. Len(q)) = Len(q)
  BY <1>1, FS_Interval
<1>3. IsFiniteSet(S) /\ Cardinality(S) \in Nat /\ Cardinality(S) <= Len(q)
  BY <1>1, <1>2, FS_Subset, FS_CardinalityType
<1>4. PICK k \in Nat : k = Cardinality(S) /\ k <= Len(q)
  BY <1>3
<1>5. Young(q) = SubSeq(q, k + 1, Len(q))
  BY <1>4 DEF Young
<1>6. Young(q) \in Seq(FsWalk)
  BY <1>4, <1>5, RestOf
<1>7. ASSUME q # <<>>, ~q[Len(q)].old PROVE TopStack(Young(q)) = TopStack(q)
  <2>1. Len(q) \in 1 .. Len(q) /\ Len(q) \notin S
    BY <1>1, <1>7
  <2>2. S # 1 .. Len(q)
    BY <2>1
  <2>3. k < Len(q)
    <3>1. Cardinality(S) = Len(q) => S = 1 .. Len(q)
      BY <1>1, <1>2, FS_Subset
    <3> QED BY <1>1, <1>4, <2>2, <3>1
  <2>4. Young(q) # <<>> /\ Young(q)[Len(Young(q))] = q[Len(q)]
    BY <1>4, <1>5, <2>3, RestOf
  <2> QED BY <1>7, <2>4 DEF TopStack
<1> QED BY <1>6, <1>7

LEMMA FsBucketsTyped ==
    ASSUME FsTyped, [FsNext]_fsVars
    PROVE  buckets' \in [FsThread -> Seq(FsWalk)]
<1>0. buckets \in [FsThread -> Seq(FsWalk)] /\ op \in Seq(FsOp)
  BY DEF FsTyped
<1>1. ASSUME NEW t \in FsThread, NEW q \in Seq(FsWalk), buckets' = [buckets EXCEPT ![t] = q]
      PROVE  buckets' \in [FsThread -> Seq(FsWalk)]
  BY <1>0, <1>1
<1>2. ASSUME NEW t \in FsThread, NEW n \in Nat,
             buckets' = [buckets EXCEPT ![t] = Append(@, [of |-> n, old |-> FALSE])]
      PROVE  buckets' \in [FsThread -> Seq(FsWalk)]
  <2>1. [of |-> n, old |-> FALSE] \in FsWalk
    BY DEF FsWalk
  <2>2. Append(buckets[t], [of |-> n, old |-> FALSE]) \in Seq(FsWalk)
    BY <1>0, <2>1, AppendAt
  <2> QED BY <1>1, <1>2, <2>2
<1>3. ASSUME NEW n \in DOMAIN op, StackWalk(n), buckets' # buckets
      PROVE  buckets' \in [FsThread -> Seq(FsWalk)]
  <2>1. op[n].tid \in FsThread /\ n \in Nat
    BY <1>0, FsFields
  <2> QED BY <1>2, <1>3, <2>1 DEF StackWalk
<1>4. ASSUME NEW n \in DOMAIN op, FileOpEnd(n), buckets' # buckets
      PROVE  buckets' \in [FsThread -> Seq(FsWalk)]
  <2>1. FsEnds(n, irps[op[n].irp])
    BY <1>4, FsEndCases DEF fsState
  <2>2. irps[op[n].irp] \in DOMAIN op
    BY <2>1 DEF FsEnds, FsTyped
  <2>3. PICK t \in FsThread : t = op[irps[op[n].irp]].tid
    BY <1>0, <2>2, FsFields
  <2>4. PICK q \in Seq(FsWalk) : q = Popped(buckets[t])
    BY <1>0, <2>3, PoppedIn
  <2>5. buckets' = [buckets EXCEPT ![t] = q]
    BY <2>1, <2>3, <2>4 DEF FsEnds
  <2> QED BY <1>1, <2>5
<1>5. ASSUME NEW t \in FsThread, OtherWalk(t)
      PROVE  buckets' \in [FsThread -> Seq(FsWalk)]
  BY <1>2, <1>5 DEF OtherWalk
<1>6. ASSUME NEW t \in FsThread, NEW m \in DOMAIN buckets[t], FsAge(t, m)
      PROVE  buckets' \in [FsThread -> Seq(FsWalk)]
  <2>1. PICK q \in Seq(FsWalk) : q = buckets[t]
    BY <1>0
  <2>2. buckets' = [buckets EXCEPT ![t] = Aged(buckets[t], m)]
    BY <1>6 DEF FsAge
  <2>3. Aged(buckets[t], m) \in Seq(FsWalk)
    BY <2>1, AgedAt
  <2> QED BY <1>1, <2>2, <2>3
<1>7. ASSUME Purge
      PROVE  buckets' \in [FsThread -> Seq(FsWalk)]
  <2>1. \A t \in FsThread : Young(buckets[t]) \in Seq(FsWalk)
    BY <1>0, YoungAt
  <2> QED BY <1>7, <2>1 DEF Purge
<1>8. CASE buckets' = buckets
  BY <1>0, <1>8
<1>9. ASSUME \/ \E i \in FsIrp, o, a \in FsObject, t \in FsThread : CreateFile(i, o, a, t)
             \/ \E n \in DOMAIN op : FileEvent(n) \/ FileRundown(n) \/ DeleteFile(n) \/ ReleaseFile(n)
             \/ UNCHANGED fsVars
      PROVE  buckets' = buckets
  BY <1>9 DEF CreateFile, FileEvent, FileRundown, DeleteFile, ReleaseFile, fsVars, fsState
<1> QED
  BY <1>3, <1>4, <1>5, <1>6, <1>7, <1>8, <1>9 DEF FsNext

\* The steps that change what waits for a packet, what was sent on and what the
\* file objects are called.
LEMMA FsIrpsCases ==
    ASSUME FsTyped, [FsNext]_fsVars
    PROVE  \/ irps' = irps
           \/ \E i \in FsIrp, o, a \in FsObject, t \in FsThread :
                 CreateFile(i, o, a, t) /\ irps' = With(irps, i, Len(op) + 1)
           \/ \E n, ev \in DOMAIN op : FileOpEnd(n) /\ FsEnds(n, ev)
<1>1. ASSUME NEW n \in DOMAIN op, FileOpEnd(n), irps' # irps
      PROVE  \E ev \in DOMAIN op : FsEnds(n, ev)
  <2>1. FsEnds(n, irps[op[n].irp])
    BY <1>1, FsEndCases DEF fsState
  <2>2. irps[op[n].irp] \in DOMAIN op
    BY <2>1 DEF FsEnds, FsTyped
  <2> QED BY <2>1, <2>2
<1>2. ASSUME NEW i \in FsIrp, NEW o \in FsObject, NEW a \in FsObject, NEW t \in FsThread,
                 CreateFile(i, o, a, t)
      PROVE  irps' = irps \/ irps' = With(irps, i, Len(op) + 1)
  BY <1>2 DEF CreateFile
<1>3. ASSUME \/ \E n \in DOMAIN op : StackWalk(n) \/ FileEvent(n) \/ FileRundown(n)
                                     \/ DeleteFile(n) \/ ReleaseFile(n)
             \/ \E t \in FsThread : OtherWalk(t) \/ \E m \in DOMAIN buckets[t] : FsAge(t, m)
             \/ Purge \/ UNCHANGED fsVars
      PROVE  irps' = irps
  BY <1>3 DEF StackWalk, FileEvent, FileRundown, DeleteFile, ReleaseFile, OtherWalk, FsAge,
        Purge, fsVars, fsState
<1> QED BY <1>1, <1>2, <1>3 DEF FsNext

LEMMA FsSentCases ==
    ASSUME FsTyped, [FsNext]_fsVars
    PROVE  sent' = sent \/ \E n, ev \in DOMAIN op : FileOpEnd(n) /\ FsEnds(n, ev)
<1>1. ASSUME NEW n \in DOMAIN op, FileOpEnd(n), sent' # sent
      PROVE  \E ev \in DOMAIN op : FsEnds(n, ev)
  <2>1. FsEnds(n, irps[op[n].irp])
    BY <1>1, FsEndCases DEF fsState
  <2>2. irps[op[n].irp] \in DOMAIN op
    BY <2>1 DEF FsEnds, FsTyped
  <2> QED BY <2>1, <2>2
<1>2. ASSUME \/ \E i \in FsIrp, o, a \in FsObject, t \in FsThread : CreateFile(i, o, a, t)
             \/ \E n \in DOMAIN op : StackWalk(n) \/ FileEvent(n) \/ FileRundown(n)
                                     \/ DeleteFile(n) \/ ReleaseFile(n)
             \/ \E t \in FsThread : OtherWalk(t) \/ \E m \in DOMAIN buckets[t] : FsAge(t, m)
             \/ Purge \/ UNCHANGED fsVars
      PROVE  sent' = sent
  BY <1>2 DEF CreateFile, StackWalk, FileEvent, FileRundown, DeleteFile, ReleaseFile, OtherWalk,
        FsAge, Purge, fsVars, fsState
<1> QED BY <1>1, <1>2 DEF FsNext

LEMMA FsFilesCases ==
    ASSUME FsTyped, [FsNext]_fsVars
    PROVE  \/ files' = files
           \/ \E n \in DOMAIN op : /\ DeleteFile(n) \/ ReleaseFile(n)
                                   /\ files' = Without(files, op[n].obj)
           \/ \E m \in DOMAIN op :
                 \/ FileRundown(m) /\ files' = With(files, op[m].key, m)
                 \/ /\ files' = With(files, op[m].obj, m)
                    /\ \E n \in DOMAIN op : FileOpEnd(n) /\ FsEnds(n, m)
<1>1. ASSUME NEW n \in DOMAIN op, FileOpEnd(n), files' # files
      PROVE  \E m \in DOMAIN op : files' = With(files, op[m].obj, m) /\ FsEnds(n, m)
  <2>1. FsEnds(n, irps[op[n].irp])
    BY <1>1, FsEndCases DEF fsState
  <2>2. irps[op[n].irp] \in DOMAIN op
    BY <2>1 DEF FsEnds, FsTyped
  <2>3. PICK m \in DOMAIN op : FsEnds(n, m)
    BY <2>1, <2>2
  <2> QED BY <1>1, <2>3 DEF FsEnds
<1>2. ASSUME NEW n \in DOMAIN op, FileRundown(n)
      PROVE  files' = With(files, op[n].key, n)
  BY <1>2 DEF FileRundown
<1>3. ASSUME NEW n \in DOMAIN op, DeleteFile(n) \/ ReleaseFile(n)
      PROVE  files' = files \/ files' = Without(files, op[n].obj)
  BY <1>3 DEF DeleteFile, ReleaseFile, ForgetFile
<1>4. ASSUME \/ \E i \in FsIrp, o, a \in FsObject, t \in FsThread : CreateFile(i, o, a, t)
             \/ \E n \in DOMAIN op : StackWalk(n) \/ FileEvent(n)
             \/ \E t \in FsThread : OtherWalk(t) \/ \E m \in DOMAIN buckets[t] : FsAge(t, m)
             \/ Purge \/ UNCHANGED fsVars
      PROVE  files' = files
  BY <1>4 DEF CreateFile, StackWalk, FileEvent, OtherWalk, FsAge, Purge, fsVars, fsState
<1> QED BY <1>1, <1>2, <1>3, <1>4 DEF FsNext

LEMMA FsPathCases ==
    ASSUME [FsNext]_fsVars
    PROVE  \/ path' = path
           \/ \E n \in DOMAIN op : \E m \in FindFile(n) \cup FindMapped(n) :
                 op[n].at = "open" /\ Given(n, m)
<1>1. ASSUME NEW n \in DOMAIN op, FileOpEnd(n) PROVE path' = path
  BY <1>1, FsEndCases
<1>2. ASSUME NEW n \in DOMAIN op, FileEvent(n) \/ DeleteFile(n)
      PROVE  \/ path' = path
             \/ \E m \in FindFile(n) \cup FindMapped(n) : op[n].at = "open" /\ Given(n, m)
  BY <1>2 DEF FileEvent, DeleteFile
<1> QED
  BY <1>1, <1>2 DEF FsNext, CreateFile, StackWalk, FileRundown, ReleaseFile, OtherWalk,
        FsAge, Purge, fsVars, fsState

\* The path that an event of an open file gets is that of its key or its object,
\* that of an earlier handle of its object, or its own.
LEMMA FsFound ==
    ASSUME NEW n \in DOMAIN op, NEW m \in FindFile(n) \cup FindMapped(n)
    PROVE  \/ op[n].key \in DOMAIN files /\ m = files[op[n].key]
           \/ op[n].obj \in DOMAIN files /\ m = files[op[n].obj]
           \/ op[n].obj \notin DOMAIN files /\ m \in DOMAIN op /\ op[m].obj = op[n].obj
           \/ m = n
<1>1. CASE m \in FindFile(n)
  BY <1>1 DEF FindFile
<1>2. CASE m \in FindMapped(n)
  BY <1>2 DEF FindMapped
<1> QED BY <1>1, <1>2

LEMMA FsTypedStep ==
    ASSUME FsTyped, FsWaiting, [FsNext]_fsVars
    PROVE  FsTyped'
<1>0. FsGrown /\ op \in Seq(FsOp)
  BY FsGrowth DEF FsTyped
<1>1. op' \in Seq(FsOp) /\ Len(op') <= FsOps
  <2>1. CASE op' = op
    BY <2>1 DEF FsTyped
  <2>2. CASE \E i \in FsIrp, o, a \in FsObject, t \in FsThread : CreateFile(i, o, a, t)
    BY <2>2, FsCreateFacts
  <2>3. ASSUME NEW n \in DOMAIN op, StackWalk(n) \/ FileOpEnd(n) \/ ReleaseFile(n)
        PROVE  op' \in Seq(FsOp) /\ Len(op') <= FsOps
    <3>1. PICK at \in FsAt : Step(n, at)
      BY <2>3, FsEndCases DEF StackWalk, ReleaseFile, FsAt
    <3> QED BY <1>0, <3>1, FsStepFacts DEF FsTyped
  <2>4. ASSUME \/ \E n \in DOMAIN op : FileEvent(n) \/ FileRundown(n) \/ DeleteFile(n)
               \/ \E t \in FsThread : OtherWalk(t) \/ \E m \in DOMAIN buckets[t] : FsAge(t, m)
               \/ Purge \/ UNCHANGED fsVars
        PROVE  op' = op
    BY <2>4 DEF FileEvent, FileRundown, DeleteFile, OtherWalk, FsAge, Purge, fsVars
  <2> QED BY <2>1, <2>2, <2>3, <2>4 DEF FsNext
<1>2. /\ path' \in [1 .. FsOps -> SUBSET DOMAIN op']
      /\ \A n \in 1 .. FsOps : n \notin DOMAIN op' => path'[n] = {}
  <2>0. /\ path \in [1 .. FsOps -> SUBSET DOMAIN op] /\ DOMAIN op \subseteq DOMAIN op'
        /\ \A n \in 1 .. FsOps : n \notin DOMAIN op => path[n] = {}
    BY <1>0 DEF FsTyped, FsGrown
  <2>1. CASE path' = path
    BY <2>0, <2>1
  <2>2. ASSUME NEW n \in DOMAIN op, NEW m \in FindFile(n) \cup FindMapped(n), Given(n, m)
        PROVE  /\ path' \in [1 .. FsOps -> SUBSET DOMAIN op']
               /\ \A k \in 1 .. FsOps : k \notin DOMAIN op' => path'[k] = {}
    <3>1. m \in DOMAIN op /\ path' = [path EXCEPT ![n] = @ \cup {m}]
      BY <2>2, FsFound DEF Given, FsTyped
    <3>2. m \in DOMAIN op'
      BY <2>0, <3>1
    <3> QED BY <2>0, <3>1, <3>2
  <2> QED BY <2>1, <2>2, FsPathCases
<1>3. /\ \A o \in DOMAIN files' : o \in FsObject /\ files'[o] \in DOMAIN op'
      /\ \A i \in DOMAIN irps' : i \in FsIrp /\ irps'[i] \in DOMAIN op'
      /\ DOMAIN sent' \subseteq DOMAIN op'
  <2>0. /\ \A o \in DOMAIN files : o \in FsObject /\ files[o] \in DOMAIN op
        /\ \A i \in DOMAIN irps : i \in FsIrp /\ irps[i] \in DOMAIN op
        /\ DOMAIN sent \subseteq DOMAIN op /\ DOMAIN op \subseteq DOMAIN op'
        /\ \A m \in DOMAIN op : op[m].obj \in FsObject /\ op[m].key \in FsObject
    BY <1>0, FsFields DEF FsTyped, FsGrown
  <2>1. \A o \in DOMAIN files' : o \in FsObject /\ files'[o] \in DOMAIN op'
    <3>1. CASE files' = files
      BY <2>0, <3>1
    <3>2. ASSUME NEW o, files' = Without(files, o)
          PROVE  \A x \in DOMAIN files' : x \in FsObject /\ files'[x] \in DOMAIN op'
      BY <2>0, <3>2 DEF Without
    <3>3. ASSUME NEW m \in DOMAIN op, NEW o \in FsObject, files' = With(files, o, m)
          PROVE  \A x \in DOMAIN files' : x \in FsObject /\ files'[x] \in DOMAIN op'
      BY <2>0, <3>3 DEF With
    <3> QED BY <2>0, <3>1, <3>2, <3>3, FsFilesCases
  <2>2. \A i \in DOMAIN irps' : i \in FsIrp /\ irps'[i] \in DOMAIN op'
    <3>1. CASE irps' = irps
      BY <2>0, <3>1
    <3>2. ASSUME NEW i \in FsIrp, NEW o \in FsObject, NEW a \in FsObject, NEW t \in FsThread,
                 CreateFile(i, o, a, t),
                 irps' = With(irps, i, Len(op) + 1)
          PROVE  \A x \in DOMAIN irps' : x \in FsIrp /\ irps'[x] \in DOMAIN op'
      <4>1. Len(op) + 1 \in DOMAIN op'
        BY <3>2, FsCreateFacts
      <4> QED BY <2>0, <3>2, <4>1 DEF With
    <3>3. ASSUME NEW i, irps' = Without(irps, i)
          PROVE  \A x \in DOMAIN irps' : x \in FsIrp /\ irps'[x] \in DOMAIN op'
      BY <2>0, <3>3 DEF Without
    <3> QED BY <3>1, <3>2, <3>3, FsIrpsCases DEF FsEnds
  <2>3. DOMAIN sent' \subseteq DOMAIN op'
    <3>1. CASE sent' = sent
      BY <2>0, <3>1
    <3>2. ASSUME NEW n \in DOMAIN op, NEW ev \in DOMAIN op, FsEnds(n, ev)
          PROVE  DOMAIN sent' \subseteq DOMAIN op'
      BY <2>0, <3>2 DEF FsEnds, With
    <3> QED BY <3>1, <3>2, FsSentCases
  <2> QED BY <2>1, <2>2, <2>3
<1> QED
  BY <1>1, <1>2, <1>3, FsBucketsTyped DEF FsTyped

\* An operation that is new comes from CreateFile.
LEMMA FsNewCases ==
    ASSUME FsTyped, [FsNext]_fsVars, NEW n \in DOMAIN op', n \notin DOMAIN op
    PROVE  \E i \in FsIrp, o, a \in FsObject, t \in FsThread :
              /\ CreateFile(i, o, a, t) /\ n = Len(op) + 1
              /\ op'[n].at = "create" /\ op'[n].irp = i /\ op'[n].obj = o /\ op'[n].key = a
              /\ op'[n].tid = t
<1>0. op \in Seq(FsOp)
  BY DEF FsTyped
<1>1. ASSUME NEW k \in DOMAIN op, StackWalk(k) \/ FileOpEnd(k) \/ ReleaseFile(k)
      PROVE  DOMAIN op' = DOMAIN op
  <2>1. PICK at \in FsAt : Step(k, at)
    BY <1>1, FsEndCases DEF StackWalk, ReleaseFile, FsAt
  <2> QED BY <1>0, <2>1, FsStepFacts
<1>2. ASSUME \/ \E k \in DOMAIN op : FileEvent(k) \/ FileRundown(k) \/ DeleteFile(k)
             \/ \E t \in FsThread : OtherWalk(t) \/ \E m \in DOMAIN buckets[t] : FsAge(t, m)
             \/ Purge \/ UNCHANGED fsVars
      PROVE  op' = op
  BY <1>2 DEF FileEvent, FileRundown, DeleteFile, OtherWalk, FsAge, Purge, fsVars
<1>3. PICK i \in FsIrp, o \in FsObject, a \in FsObject, t \in FsThread : CreateFile(i, o, a, t)
  BY <1>1, <1>2 DEF FsNext
<1>4. n = Len(op) + 1 /\ op'[n] = [at |-> "create", irp |-> i, obj |-> o, key |-> a, tid |-> t]
  BY <1>3, FsCreateFacts
<1>5. /\ op'[n].at = "create" /\ op'[n].irp = i /\ op'[n].obj = o /\ op'[n].key = a
      /\ op'[n].tid = t
  BY <1>4
<1> QED BY <1>3, <1>4, <1>5

LEMMA FsUniqueStep ==
    ASSUME FsTyped, FsWaiting, FsUnique, [FsNext]_fsVars
    PROVE  FsUnique'
<1>0. FsGrown
  BY FsGrowth
<1> DEFINE Apart(n, m) ==
      /\ op'[n].at \in {"create", "end"} /\ op'[m].at \in {"create", "end"} =>
            op'[n].irp # op'[m].irp /\ op'[n].tid # op'[m].tid
      /\ op'[n].at \in {"create", "end", "open"} /\ op'[m].at \in {"create", "end", "open"} =>
            {op'[n].obj, op'[n].key} \cap {op'[m].obj, op'[m].key} = {}
<1>1. ASSUME NEW n \in DOMAIN op, NEW m \in DOMAIN op, n # m PROVE Apart(n, m)
  BY <1>0, <1>1 DEF FsGrown, FsUnique
<1>2. ASSUME NEW n \in DOMAIN op', NEW m \in DOMAIN op, n \notin DOMAIN op PROVE Apart(n, m)
  <2>1. PICK i \in FsIrp, o \in FsObject, a \in FsObject, t \in FsThread :
              /\ CreateFile(i, o, a, t)
              /\ op'[n].irp = i /\ op'[n].obj = o /\ op'[n].key = a /\ op'[n].tid = t
    BY <1>2, FsNewCases
  <2>2. /\ InFlight(m) => op[m].irp # i /\ op[m].tid # t
        /\ HasObject(m) => {op[m].obj, op[m].key} \cap {o, a} = {}
    BY <2>1 DEF CreateFile
  <2> QED BY <1>0, <2>1, <2>2 DEF FsGrown
<1>3. ASSUME NEW n \in DOMAIN op', NEW m \in DOMAIN op', n \notin DOMAIN op, m \notin DOMAIN op
      PROVE  n = m
  BY <1>3, FsNewCases
<1>4. ASSUME NEW n \in DOMAIN op', NEW m \in DOMAIN op', n # m PROVE Apart(n, m)
  BY <1>1, <1>2, <1>3, <1>4
<1> QED BY <1>4 DEF FsUnique, InFlight, HasObject

LEMMA FsWaitingStep ==
    ASSUME FsTyped, FsWaiting, FsUnique, [FsNext]_fsVars
    PROVE  FsWaiting'
<1>0. FsGrown /\ op \in Seq(FsOp)
  BY FsGrowth DEF FsTyped
\* An operation in flight stays so unless its end comes, which is lost or has
\* its packet looked up.
<1>1. ASSUME NEW x \in DOMAIN op, InFlight(x), op[x].irp \in DOMAIN irps,
             ~\E ev \in DOMAIN op : FsEnds(x, ev)
      PROVE  op'[x].at \in {"create", "end"} \/ <<"end", x>> \in lost' \/ x \in rejected'
  <2>1. CASE op' = op
    BY <1>1, <2>1 DEF InFlight
  <2>2. CASE \E i \in FsIrp, o, a \in FsObject, t \in FsThread : CreateFile(i, o, a, t)
    BY <1>1, <2>2, FsCreateFacts DEF InFlight
  <2>3. ASSUME NEW n \in DOMAIN op, StackWalk(n)
        PROVE  op'[x].at \in {"create", "end"}
    <3>1. Step(n, "end") /\ "end" \in FsAt
      BY <2>3 DEF StackWalk, FsAt
    <3> QED BY <1>0, <1>1, <3>1, FsStepFacts DEF InFlight
  <2>4. ASSUME NEW n \in DOMAIN op, ReleaseFile(n)
        PROVE  op'[x].at \in {"create", "end"}
    <3>1. Step(n, "released") /\ "released" \in FsAt /\ op[n].at = "open"
      BY <2>4 DEF ReleaseFile, FsAt
    <3>2. n # x
      BY <1>1, <3>1 DEF InFlight
    <3> QED BY <1>0, <1>1, <3>1, <3>2, FsStepFacts DEF InFlight
  <2>5. ASSUME NEW n \in DOMAIN op, FileOpEnd(n), n # x
        PROVE  op'[x].at \in {"create", "end"}
    <3>1. PICK at \in FsAt : Step(n, at)
      BY <2>5, FsEndCases DEF FsAt
    <3> QED BY <1>0, <1>1, <2>5, <3>1, FsStepFacts DEF InFlight
  <2>6. ASSUME FileOpEnd(x)
        PROVE  <<"end", x>> \in lost' \/ x \in rejected'
    <3>1. ~FsEnds(x, irps[op[x].irp])
      BY <1>1 DEF FsTyped
    <3> QED BY <1>1, <2>6, <3>1, FsEndCases
  <2>7. ASSUME \/ \E k \in DOMAIN op : FileEvent(k) \/ FileRundown(k) \/ DeleteFile(k)
               \/ \E t \in FsThread : OtherWalk(t) \/ \E m \in DOMAIN buckets[t] : FsAge(t, m)
               \/ Purge \/ UNCHANGED fsVars
        PROVE  op' = op
    BY <2>7 DEF FileEvent, FileRundown, DeleteFile, OtherWalk, FsAge, Purge, fsVars
  <2> QED BY <2>1, <2>2, <2>3, <2>4, <2>5, <2>6, <2>7 DEF FsNext
<1> DEFINE WaitsFor(i, x) ==
      /\ op'[x].irp = i /\ x \notin DOMAIN sent'
      /\ op'[x].at \in {"create", "end"} \/ <<"end", x>> \in lost' \/ x \in rejected'
<1>2. ASSUME NEW i \in DOMAIN irps, ~\E n, ev \in DOMAIN op : FsEnds(n, ev)
      PROVE  WaitsFor(i, irps[i])
  <2>1. PICK x \in DOMAIN op : x = irps[i] /\ op[x].irp = i /\ x \notin DOMAIN sent
    BY DEF FsTyped, FsWaiting
  <2>2. InFlight(x) \/ <<"end", x>> \in lost \/ x \in rejected
    BY <2>1 DEF FsWaiting, Lost
  <2>3. sent' = sent
    BY <1>2, FsSentCases
  <2>4. op'[x].at \in {"create", "end"} \/ <<"end", x>> \in lost' \/ x \in rejected'
    BY <1>0, <1>1, <1>2, <2>1, <2>2 DEF FsGrown
  <2> QED BY <1>0, <2>1, <2>3, <2>4 DEF FsGrown
<1>3. ASSUME NEW n \in DOMAIN op, NEW ev \in DOMAIN op, FsEnds(n, ev), FileOpEnd(n),
             NEW i \in DOMAIN irps, i # op[n].irp
      PROVE  WaitsFor(i, irps[i])
  <2>1. PICK x \in DOMAIN op : x = irps[i] /\ op[x].irp = i /\ x \notin DOMAIN sent
    BY DEF FsTyped, FsWaiting
  <2>2. InFlight(x) \/ <<"end", x>> \in lost \/ x \in rejected
    BY <2>1 DEF FsWaiting, Lost
  <2>3. op[ev].irp = op[n].irp
    BY <1>3 DEF FsEnds, FsWaiting
  <2>4. x # ev /\ x # n
    BY <1>3, <2>1, <2>3
  <2>5. DOMAIN sent' = DOMAIN sent \cup {ev}
    BY <1>3 DEF FsEnds, With
  <2>6. PICK at \in FsAt : Step(n, at)
    BY <1>3, FsEndCases DEF FsAt
  <2>7. op'[x] = op[x]
    BY <1>0, <2>4, <2>6, FsStepFacts
  <2> QED BY <1>0, <2>1, <2>2, <2>4, <2>5, <2>7 DEF FsGrown, InFlight
<1>4. \A i \in DOMAIN irps' : WaitsFor(i, irps'[i])
  <2>1. CASE irps' = irps
    <3>1. ASSUME NEW n \in DOMAIN op, NEW ev \in DOMAIN op, FsEnds(n, ev) PROVE FALSE
      <4>1. op[n].irp \in DOMAIN irps /\ DOMAIN irps' = DOMAIN irps \ {op[n].irp}
        BY <3>1 DEF FsEnds, Without
      <4> QED BY <2>1, <4>1
    <3> QED BY <1>2, <2>1, <3>1
  <2>2. ASSUME NEW i \in FsIrp, NEW o \in FsObject, NEW a \in FsObject, NEW t \in FsThread,
                 CreateFile(i, o, a, t),
               irps' = With(irps, i, Len(op) + 1), NEW j \in DOMAIN irps'
        PROVE  WaitsFor(j, irps'[j])
    <3>1. sent' = sent /\ DOMAIN sent \subseteq DOMAIN op
      BY <2>2 DEF CreateFile, FsTyped
    <3>2. CASE j = i
      <4>1. irps'[j] = Len(op) + 1
        BY <2>2, <3>2 DEF With
      <4>2. /\ Len(op) + 1 \notin DOMAIN op
            /\ op'[Len(op) + 1] = [at |-> "create", irp |-> i, obj |-> o, key |-> a, tid |-> t]
        BY <2>2, FsCreateFacts
      <4>3. op'[Len(op) + 1].at = "create" /\ op'[Len(op) + 1].irp = i
        BY <4>2
      <4> QED BY <3>1, <3>2, <4>1, <4>2, <4>3
    <3>3. CASE j # i
      <4>1. j \in DOMAIN irps /\ irps'[j] = irps[j]
        BY <2>2, <3>3 DEF With
      <4>2. ~\E n, ev \in DOMAIN op : FsEnds(n, ev)
        <5>1. i \in DOMAIN irps'
          BY <2>2 DEF With
        <5>2. ASSUME NEW n \in DOMAIN op, NEW ev \in DOMAIN op, FsEnds(n, ev) PROVE FALSE
          <6>1. DOMAIN irps' = DOMAIN irps \ {op[n].irp} /\ op[n].irp \in DOMAIN irps
            BY <5>2 DEF FsEnds, Without
          <6> QED BY <2>2, <6>1 DEF With
        <5> QED BY <5>2
      <4> QED BY <1>2, <4>1, <4>2
    <3> QED BY <3>2, <3>3
  <2>3. ASSUME NEW n \in DOMAIN op, NEW ev \in DOMAIN op, FsEnds(n, ev), FileOpEnd(n),
               NEW j \in DOMAIN irps'
        PROVE  WaitsFor(j, irps'[j])
    <3>1. j \in DOMAIN irps /\ j # op[n].irp /\ irps'[j] = irps[j]
      BY <2>3 DEF FsEnds, Without
    <3> QED BY <1>3, <2>3, <3>1
  <2> HIDE DEF WaitsFor
  <2> QED BY <2>1, <2>2, <2>3, FsIrpsCases
<1>5. ASSUME NEW n \in DOMAIN op', op'[n].at \in {"create", "end"}
      PROVE  <<"create", n>> \in lost' \/ (op'[n].irp \in DOMAIN irps' /\ irps'[op'[n].irp] = n)
  <2>1. CASE n \notin DOMAIN op
    <3>1. PICK i \in FsIrp, o \in FsObject, a \in FsObject, t \in FsThread :
              CreateFile(i, o, a, t) /\ n = Len(op) + 1 /\ op'[n].irp = i
      BY <2>1, FsNewCases
    <3>2. irps' = With(irps, i, n) \/ lost' = lost \cup {<<"create", n>>}
      BY <3>1 DEF CreateFile, Drop
    <3> QED BY <3>1, <3>2 DEF With
  <2>2. ASSUME n \in DOMAIN op, <<"create", n>> \notin lost
        PROVE  op'[n].irp \in DOMAIN irps' /\ irps'[op'[n].irp] = n
    <3>0. InFlight(n) /\ op'[n].irp = op[n].irp
      BY <1>0, <1>5, <2>2 DEF FsGrown
    <3>1. op[n].irp \in DOMAIN irps /\ irps[op[n].irp] = n
      BY <2>2, <3>0 DEF FsWaiting, Lost
    <3>2. CASE irps' = irps
      BY <3>0, <3>1, <3>2
    <3>3. ASSUME NEW i \in FsIrp, NEW o \in FsObject, NEW a \in FsObject, NEW t \in FsThread,
                 CreateFile(i, o, a, t),
                 irps' = With(irps, i, Len(op) + 1)
          PROVE  op[n].irp \in DOMAIN irps' /\ irps'[op[n].irp] = n
      <4>1. op[n].irp # i
        BY <2>2, <3>0, <3>3 DEF CreateFile
      <4> QED BY <3>1, <3>3, <4>1 DEF With
    <3>4. ASSUME NEW k \in DOMAIN op, NEW ev \in DOMAIN op, FsEnds(k, ev), FileOpEnd(k)
          PROVE  op[n].irp \in DOMAIN irps' /\ irps'[op[n].irp] = n
      <4>1. PICK at \in FsAt : op[k].at = "end" /\ Step(k, at) /\ at \in {"open", "failed"}
        BY <3>4, FsEndCases DEF FsAt
      <4>2. op'[k].at \in {"open", "failed"} /\ InFlight(k)
        BY <1>0, <4>1, FsStepFacts DEF InFlight
      <4>3. op[n].irp # op[k].irp
        BY <1>5, <2>2, <3>0, <4>2 DEF FsUnique
      <4> QED BY <3>1, <3>4, <4>3 DEF FsEnds, Without
    <3> QED BY <3>0, <3>2, <3>3, <3>4, FsIrpsCases
  <2> QED BY <1>0, <2>1, <2>2 DEF FsGrown
<1> QED
  BY <1>4, <1>5 DEF FsWaiting, InFlight, Lost

LEMMA FsLatestStep ==
    ASSUME FsTyped, FsWaiting, FsUnique, FsLatest, [FsNext]_fsVars
    PROVE  FsLatest'
<1>0. FsGrown /\ op \in Seq(FsOp) /\ buckets \in [FsThread -> Seq(FsWalk)]
  BY FsGrowth DEF FsTyped
<1> DEFINE Excused(n) ==
      \/ <<"walk", n>> \in lost' \/ n \in buried'
      \/ \E m \in DOMAIN sent' : sent'[m].end # m /\ sent'[m].stack = n
<1>1. ASSUME NEW n \in DOMAIN op, Lost("walk", n) \/ n \in buried \/ StackTaken(n)
      PROVE  Excused(n)
  BY <1>0, <1>1 DEF FsGrown, Lost, StackTaken, Astray
<1>2. ASSUME NEW n \in DOMAIN op, StackWalk(n)
      PROVE  Excused(n) \/ TopStack(buckets'[op[n].tid]) = n
  <2>1. op[n].tid \in FsThread /\ n \in Nat
    BY <1>0, FsFields
  <2>2. CASE lost' = lost \cup {<<"walk", n>>}
    BY <2>2
  <2>3. CASE buckets' = [buckets EXCEPT ![op[n].tid] = Append(@, [of |-> n, old |-> FALSE])]
    <3>1. PICK q \in Seq(FsWalk) : q = buckets[op[n].tid]
      BY <1>0, <2>1
    <3>2. PICK w : w = [of |-> n, old |-> FALSE]
      OBVIOUS
    <3>3. w \in FsWalk /\ w.of = n
      BY <2>1, <3>2 DEF FsWalk
    <3>4. buckets'[op[n].tid] = Append(q, w)
      BY <1>0, <2>1, <2>3, <3>1, <3>2
    <3>5. Append(q, w) # <<>> /\ Append(q, w)[Len(Append(q, w))] = w
      BY <3>3
    <3> QED BY <3>3, <3>4, <3>5 DEF TopStack
  <2> QED BY <1>2, <2>2, <2>3 DEF StackWalk, Drop
<1>3. ASSUME NEW n \in DOMAIN op, op[n].at = "end", op'[n].at = "end",
             TopStack(buckets[op[n].tid]) = n
      PROVE  Excused(n) \/ TopStack(buckets'[op[n].tid]) = n
  <2>0. InFlight(n) /\ n # 0
    BY <1>0, <1>3, FsFields DEF InFlight
  <2>1. PICK t \in FsThread : t = op[n].tid
    BY <1>0, FsFields
  <2>2. PICK q \in Seq(FsWalk) : q = buckets[t] /\ TopStack(q) = n
    BY <1>0, <1>3, <2>1
  <2>3. SUFFICES ASSUME ~Excused(n) PROVE TopStack(buckets'[t]) = n
    BY <2>1
  <2>4. CASE buckets'[t] = q
    BY <2>2, <2>4
  <2>5. ASSUME NEW k \in DOMAIN op, StackWalk(k) PROVE buckets'[t] = q
    <3>1. op[k].tid # t
      <4>1. InFlight(k) /\ k # n
        BY <1>3, <2>5 DEF StackWalk, InFlight
      <4> QED BY <2>0, <2>1, <4>1 DEF FsUnique
    <3>2. \/ buckets' = [buckets EXCEPT ![op[k].tid] = Append(@, [of |-> k, old |-> FALSE])]
          \/ buckets' = buckets
      BY <2>5 DEF StackWalk
    <3> QED BY <1>0, <2>2, <3>1, <3>2
  <2>6. ASSUME NEW k \in DOMAIN op, FileOpEnd(k) PROVE buckets'[t] = q
    <3>1. PICK at \in FsAt : op[k].at = "end" /\ Step(k, at) /\ at \in {"open", "failed"}
      BY <2>6, FsEndCases DEF FsAt
    <3>2. op'[k].at \in {"open", "failed"} /\ InFlight(k)
      BY <1>0, <3>1, FsStepFacts DEF InFlight
    <3>3. k # n /\ op[k].tid # t
      BY <1>3, <2>0, <2>1, <3>2 DEF FsUnique
    <3>4. ASSUME FsEnds(k, irps[op[k].irp]) PROVE op[irps[op[k].irp]].tid # t
      <4>1. PICK ev \in DOMAIN op : ev = irps[op[k].irp]
        BY <3>4 DEF FsEnds, FsTyped
      <4>2. SUFFICES ASSUME op[ev].tid = t PROVE FALSE
        BY <4>1
      <4>3. ev # k
        BY <3>3, <4>2
      <4>4. sent' = With(sent, ev, [end |-> k, stack |-> n])
        BY <2>2, <3>4, <4>1, <4>2 DEF FsEnds
      <4>5. ev \in DOMAIN sent' /\ sent'[ev] = [end |-> k, stack |-> n]
        BY <4>4 DEF With
      <4> QED BY <2>3, <4>3, <4>5
    <3>5. CASE FsEnds(k, irps[op[k].irp])
      <4>1. PICK u : u = op[irps[op[k].irp]].tid
        OBVIOUS
      <4>2. buckets' = [buckets EXCEPT ![u] = Popped(@)]
        BY <3>5, <4>1 DEF FsEnds
      <4> QED BY <1>0, <2>2, <3>4, <3>5, <4>1, <4>2
    <3>6. CASE buckets' = buckets
      BY <2>2, <3>6
    <3> QED BY <2>6, <3>5, <3>6, FsEndCases DEF fsState
  <2>7. ASSUME NEW u \in FsThread, OtherWalk(u) PROVE buckets'[t] = q
    <3>1. u # t
      BY <1>3, <2>1, <2>3, <2>7 DEF OtherWalk
    <3> QED BY <1>0, <2>2, <2>7, <3>1 DEF OtherWalk
  <2>8. ASSUME NEW u \in FsThread, NEW m \in DOMAIN buckets[u], FsAge(u, m)
        PROVE  TopStack(buckets'[t]) = n
    <3>1. CASE u # t
      BY <1>0, <2>2, <2>8, <3>1 DEF FsAge
    <3>2. CASE u = t
      <4>1. buckets'[t] = Aged(q, m) /\ m \in DOMAIN q
        BY <1>0, <2>2, <2>8, <3>2 DEF FsAge
      <4> QED BY <2>2, <4>1, AgedAt
    <3> QED BY <3>1, <3>2
  <2>9. ASSUME Purge PROVE TopStack(buckets'[t]) = n
    <3>1. q # <<>> /\ q[Len(q)].of = n
      BY <2>0, <2>2 DEF TopStack
    <3>2. Len(q) \in DOMAIN q /\ q[Len(q)] \in FsWalk
      BY <3>1
    <3>3. ~q[Len(q)].old
      <4>1. SUFFICES ASSUME q[Len(q)].old PROVE FALSE
        OBVIOUS
      <4>2. q[Len(q)] \in [of : {n}, old : {TRUE}]
        BY <3>1, <3>2, <4>1 DEF FsWalk
      <4>3. \E w \in [of : {n}, old : {TRUE}] : \E j \in DOMAIN buckets[t] : buckets[t][j] = w
        BY <2>2, <3>2, <4>2
      <4>4. n \in buried'
        BY <2>9, <4>3 DEF Purge
      <4> QED BY <2>3, <4>4
    <3>4. buckets'[t] = Young(q)
      BY <2>2, <2>9 DEF Purge
    <3> QED BY <2>2, <3>1, <3>3, <3>4, YoungAt
  <2>10. ASSUME \/ \E i \in FsIrp, o, a \in FsObject, u \in FsThread : CreateFile(i, o, a, u)
                \/ \E k \in DOMAIN op : FileEvent(k) \/ FileRundown(k) \/ DeleteFile(k) \/ ReleaseFile(k)
                \/ UNCHANGED fsVars
         PROVE  buckets'[t] = q
    BY <2>2, <2>10 DEF CreateFile, FileEvent, FileRundown, DeleteFile, ReleaseFile, fsVars, fsState
  <2> HIDE DEF Excused
  <2> QED BY <2>4, <2>5, <2>6, <2>7, <2>8, <2>9, <2>10 DEF FsNext
<1>4. ASSUME NEW n \in DOMAIN op', op'[n].at = "end"
      PROVE  Excused(n) \/ TopStack(buckets'[op'[n].tid]) = n
  <2>1. n \in DOMAIN op
    BY <1>4, FsNewCases
  <2>2. op'[n].tid = op[n].tid
    BY <1>0, <2>1 DEF FsGrown
  <2>3. op[n].at = "end" \/ StackWalk(n)
    <3>1. CASE op' = op
      BY <1>4, <3>1
    <3>2. ASSUME NEW i \in FsIrp, NEW o \in FsObject, NEW a \in FsObject, NEW t \in FsThread,
                 CreateFile(i, o, a, t)
          PROVE  op[n].at = "end"
      BY <1>4, <2>1, <3>2, FsCreateFacts
    <3>3. ASSUME NEW k \in DOMAIN op, k # n, StackWalk(k) \/ FileOpEnd(k) \/ ReleaseFile(k)
          PROVE  op[n].at = "end"
      <4>1. PICK at \in FsAt : Step(k, at)
        BY <3>3, FsEndCases DEF StackWalk, ReleaseFile, FsAt
      <4> QED BY <1>0, <1>4, <2>1, <3>3, <4>1, FsStepFacts
    <3>4. ASSUME FileOpEnd(n) PROVE op[n].at = "end"
      BY <2>1, <3>4, FsEndCases
    <3>5. ASSUME ReleaseFile(n) PROVE FALSE
      <4>1. Step(n, "released") /\ "released" \in FsAt
        BY <3>5 DEF ReleaseFile, FsAt
      <4> QED BY <1>0, <1>4, <2>1, <4>1, FsStepFacts
    <3>6. ASSUME \/ \E k \in DOMAIN op : FileEvent(k) \/ FileRundown(k) \/ DeleteFile(k)
                 \/ \E t \in FsThread : OtherWalk(t) \/ \E m \in DOMAIN buckets[t] : FsAge(t, m)
                 \/ Purge \/ UNCHANGED fsVars
          PROVE  op' = op
      BY <3>6 DEF FileEvent, FileRundown, DeleteFile, OtherWalk, FsAge, Purge, fsVars
    <3> QED BY <3>1, <3>2, <3>3, <3>4, <3>5, <3>6 DEF FsNext
  <2> HIDE DEF Excused
  <2> QED BY <1>1, <1>2, <1>3, <1>4, <2>1, <2>2, <2>3 DEF FsLatest
<1> QED
  BY <1>4 DEF FsLatest, Lost, StackTaken, Astray

LEMMA FsNamedStep ==
    ASSUME FsTyped, FsWaiting, FsNamed, [FsNext]_fsVars
    PROVE  FsNamed'
<1>0. FsGrown /\ op \in Seq(FsOp)
  BY FsGrowth DEF FsTyped
<1> DEFINE Names(o, m) ==
      /\ op'[m].obj = o \/ (op'[m].key = o /\ m \in named')
      /\ \/ op'[m].at \in {"create", "end", "open", "failed"} \/ <<"release", m>> \in lost'
         \/ m \in DOMAIN sent' /\ sent'[m].end # m
         \/ m \in named'
\* A file object gives up its path only when its operation releases it.
<1>1. ASSUME NEW o \in DOMAIN files, \A n \in DOMAIN op : ReleaseFile(n) => files[o] # n \/ n \in named
      PROVE  Names(o, files[o])
  <2>1. PICK m \in DOMAIN op : m = files[o] /\ (op[m].obj = o \/ (op[m].key = o /\ m \in named))
    BY DEF FsTyped, FsNamed
  <2>2. \/ op[m].at \in {"create", "end", "open", "failed"} \/ <<"release", m>> \in lost
        \/ m \in DOMAIN sent /\ sent[m].end # m
        \/ m \in named
    BY <2>1 DEF FsNamed, HasObject, FsOutlived, Lost, Astray
  <2>3. op[m].at \in {"create", "end", "open", "failed"} /\ m \notin named =>
           op'[m].at \in {"create", "end", "open", "failed"}
    <3>1. CASE op' = op
      BY <3>1
    <3>2. ASSUME NEW i \in FsIrp, NEW x \in FsObject, NEW a \in FsObject, NEW t \in FsThread,
                 CreateFile(i, x, a, t)
          PROVE  op'[m] = op[m]
      BY <3>2, FsCreateFacts
    <3>3. ASSUME NEW n \in DOMAIN op, StackWalk(n) \/ FileOpEnd(n) \/ (ReleaseFile(n) /\ n # m)
          PROVE  op'[m] = op[m] \/ op'[m].at \in {"create", "end", "open", "failed"}
      <4>1. PICK at \in FsAt : Step(n, at) /\ (n # m \/ at \in {"end", "open", "failed"})
        BY <3>3, FsEndCases DEF StackWalk, ReleaseFile, FsAt
      <4> QED BY <1>0, <4>1, FsStepFacts
    <3>4. ASSUME \/ \E n \in DOMAIN op : FileEvent(n) \/ FileRundown(n) \/ DeleteFile(n)
                 \/ \E t \in FsThread : OtherWalk(t) \/ \E k \in DOMAIN buckets[t] : FsAge(t, k)
                 \/ Purge \/ UNCHANGED fsVars
          PROVE  op' = op
      BY <3>4 DEF FileEvent, FileRundown, DeleteFile, OtherWalk, FsAge, Purge, fsVars
    <3> QED BY <1>1, <2>1, <3>1, <3>2, <3>3, <3>4 DEF FsNext
  <2> QED BY <1>0, <2>1, <2>2, <2>3 DEF FsGrown
<1>2. ASSUME NEW o \in DOMAIN files, NEW n \in DOMAIN op, ReleaseFile(n), files[o] = n,
             n \notin named, files' = files
      PROVE  Names(o, n)
  <2>1. op[n].obj = o
    BY <1>2 DEF FsNamed
  <2>2. <<"release", n>> \in lost'
    <3>1. CASE lost' = lost \cup {<<"release", n>>}
      BY <3>1
    <3>2. CASE files' = Without(files, op[n].obj)
      <4>1. DOMAIN files' = DOMAIN files \ {op[n].obj}
        BY <3>2 DEF Without
      <4> QED BY <1>2, <2>1, <4>1
    <3> QED BY <1>2, <3>1, <3>2 DEF ReleaseFile, Drop, ForgetFile
  <2> QED BY <1>0, <2>1, <2>2 DEF FsGrown
<1>3. ASSUME NEW m \in DOMAIN op, FileRundown(m)
      PROVE  Names(op[m].key, m)
  BY <1>3 DEF FileRundown
<1>4. ASSUME NEW n \in DOMAIN op, NEW m \in DOMAIN op, FileOpEnd(n), FsEnds(n, m)
      PROVE  Names(op[m].obj, m)
  <2>1. op'[m].obj = op[m].obj
    BY <1>0 DEF FsGrown
  <2>2. CASE m = n
    <3>1. PICK at \in FsAt : Step(n, at) /\ at \in {"open", "failed"}
      BY <1>4, FsEndCases DEF FsAt
    <3>2. op'[m].at \in {"open", "failed"}
      BY <1>0, <2>2, <3>1, FsStepFacts
    <3> QED BY <2>1, <3>2
  <2>3. CASE m # n
    <3>1. m \in DOMAIN sent' /\ sent'[m].end = n
      BY <1>4 DEF FsEnds, With
    <3> QED BY <2>1, <2>3, <3>1
  <2> QED BY <2>2, <2>3
<1>5. ASSUME NEW o \in DOMAIN files'
      PROVE  Names(o, files'[o])
  <2>1. CASE files' = files
    <3>1. ASSUME NEW n \in DOMAIN op, ReleaseFile(n), files[o] = n, n \notin named
          PROVE  Names(o, files[o])
      BY <1>2, <2>1, <3>1
    <3> HIDE DEF Names
    <3> QED BY <1>1, <2>1, <3>1
  <2>2. ASSUME NEW n \in DOMAIN op, DeleteFile(n) \/ ReleaseFile(n),
               files' = Without(files, op[n].obj)
        PROVE  Names(o, files'[o])
    <3>1. o \in DOMAIN files /\ o # op[n].obj /\ files'[o] = files[o]
      BY <2>2 DEF Without
    <3>2. op[files[o]].obj = o \/ files[o] \in named
      BY <3>1 DEF FsNamed
    <3>3. ASSUME NEW k \in DOMAIN op, ReleaseFile(k), k \notin named PROVE files[o] # k
      <4>1. files' = files \/ files' = Without(files, op[k].obj)
        BY <3>3 DEF ReleaseFile, ForgetFile
      <4>2. ASSUME files[o] = k PROVE FALSE
        <5>1. op[k].obj = o
          BY <3>2, <3>3, <4>2
        <5>2. Step(k, "released") /\ op[k].at = "open"
          BY <3>3 DEF ReleaseFile
        <5>3. op'[k].at = "released"
          BY <1>0, <5>2, FsStepFacts DEF FsAt
        <5>4. CASE ReleaseFile(n)
          <6>1. Step(n, "released") /\ "released" \in FsAt
            BY <5>4 DEF ReleaseFile, FsAt
          <6>2. k = n
            BY <1>0, <5>2, <5>3, <6>1, FsStepFacts
          <6> QED BY <3>1, <5>1, <6>2
        <5>5. CASE DeleteFile(n)
          BY <5>2, <5>3, <5>5 DEF DeleteFile
        <5> QED BY <2>2, <5>4, <5>5
      <4> QED BY <4>2
    <3> HIDE DEF Names
    <3> QED BY <1>1, <3>1, <3>3
  <2>3. ASSUME NEW m \in DOMAIN op, NEW b, files' = With(files, b, m),
               \/ FileRundown(m) /\ b = op[m].key
               \/ b = op[m].obj /\ \E n \in DOMAIN op : FileOpEnd(n) /\ FsEnds(n, m)
        PROVE  Names(o, files'[o])
    <3>1. CASE o = b
      <4>1. files'[o] = m
        BY <2>3, <3>1 DEF With
      <4> HIDE DEF Names
      <4> QED BY <1>3, <1>4, <2>3, <3>1, <4>1
    <3>2. CASE o # b
      <4>1. o \in DOMAIN files /\ files'[o] = files[o]
        BY <2>3, <3>2 DEF With
      <4>2. ASSUME NEW k \in DOMAIN op, ReleaseFile(k) PROVE FALSE
        <5>1. op[k].at = "open" /\ Step(k, "released") /\ "released" \in FsAt
          BY <4>2 DEF ReleaseFile, FsAt
        <5>2. op'[k].at = "released"
          BY <1>0, <5>1, FsStepFacts
        <5>3. CASE FileRundown(m)
          BY <5>1, <5>2, <5>3 DEF FileRundown
        <5>4. ASSUME NEW n \in DOMAIN op, FileOpEnd(n) PROVE FALSE
          <6>1. PICK at \in FsAt : Step(n, at) /\ at \in {"open", "failed"}
            BY <5>4, FsEndCases DEF FsAt
          <6> QED BY <1>0, <5>1, <5>2, <6>1, FsStepFacts
        <5> QED BY <2>3, <5>3, <5>4
      <4> HIDE DEF Names
      <4> QED BY <1>1, <4>1, <4>2
    <3> QED BY <3>1, <3>2
  <2> HIDE DEF Names
  <2> QED BY <2>1, <2>2, <2>3, FsFilesCases
<1> QED
  BY <1>5 DEF FsNamed, HasObject, FsOutlived, Lost, Astray

LEMMA FsPresentStep ==
    ASSUME FsTyped, FsWaiting, FsUnique, FsPresent, [FsNext]_fsVars
    PROVE  FsPresent'
<1>0. FsGrown /\ op \in Seq(FsOp)
  BY FsGrowth DEF FsTyped
<1> DEFINE Unseen(n) ==
      \/ <<"create", n>> \in lost' \/ <<"end", n>> \in lost' \/ n \in rejected' \/ n \in deleted'
<1>1. ASSUME NEW n \in DOMAIN op, Unknown(n) PROVE Unseen(n)
  BY <1>0, <1>1 DEF FsGrown, Unknown, Lost
\* A file that opens with this step.
<1>2. ASSUME NEW n \in DOMAIN op, FileOpEnd(n) PROVE op[n].obj \in DOMAIN files' \/ Unseen(n)
  <2>1. InFlight(n)
    BY <1>2, FsEndCases DEF InFlight
  <2>2. CASE Lost("create", n)
    BY <1>1, <2>2 DEF Unknown
  <2>3. ASSUME op[n].irp \in DOMAIN irps, irps[op[n].irp] = n PROVE op[n].obj \in DOMAIN files' \/ Unseen(n)
    <3>1. CASE FsEnds(n, n)
      BY <3>1 DEF FsEnds, With
    <3>2. CASE ~FsEnds(n, n)
      BY <1>2, <2>3, <3>2, FsEndCases
    <3> QED BY <3>1, <3>2
  <2> HIDE DEF Unseen
  <2> QED BY <2>1, <2>2, <2>3 DEF FsWaiting
\* A file that is open already keeps the path of its object until it is deleted.
<1>3. ASSUME NEW n \in DOMAIN op, op[n].at = "open", op'[n].at = "open",
             op[n].obj \in DOMAIN files
      PROVE  op[n].obj \in DOMAIN files' \/ Unseen(n)
  <2>1. CASE files' = files
    BY <1>3, <2>1
  <2>2. ASSUME NEW m, NEW b, files' = With(files, b, m) PROVE op[n].obj \in DOMAIN files'
    BY <1>3, <2>2 DEF With
  <2>3. ASSUME NEW k \in DOMAIN op, DeleteFile(k) \/ ReleaseFile(k),
               files' = Without(files, op[k].obj)
        PROVE  op[n].obj \in DOMAIN files' \/ Unseen(n)
    <3>1. CASE op[k].obj # op[n].obj
      BY <1>3, <2>3, <3>1 DEF Without
    <3>2. CASE op[k].obj = op[n].obj
      <4>1. HasObject(k) /\ HasObject(n)
        BY <1>3, <2>3 DEF HasObject, DeleteFile, ReleaseFile
      <4>2. k = n
        BY <3>2, <4>1 DEF FsUnique
      <4>3. ~ReleaseFile(n)
        <5>1. ASSUME Step(n, "released") PROVE FALSE
          BY <1>0, <1>3, <5>1, FsStepFacts DEF FsAt
        <5> QED BY <5>1 DEF ReleaseFile
      <4> QED BY <2>3, <4>2, <4>3 DEF DeleteFile
    <3> QED BY <3>1, <3>2
  <2> HIDE DEF Unseen
  <2> QED BY <2>1, <2>2, <2>3, FsFilesCases
<1>4. ASSUME NEW n \in DOMAIN op, op'[n].at = "open" PROVE op[n].at = "open" \/ FileOpEnd(n)
  <2>1. CASE op' = op
    BY <1>4, <2>1
  <2>2. ASSUME NEW i \in FsIrp, NEW o \in FsObject, NEW a \in FsObject, NEW t \in FsThread,
               CreateFile(i, o, a, t)
        PROVE  op'[n] = op[n]
    BY <2>2, FsCreateFacts
  <2>3. ASSUME NEW k \in DOMAIN op, StackWalk(k) \/ ReleaseFile(k) \/ (FileOpEnd(k) /\ k # n)
        PROVE  op'[n] = op[n] \/ op'[n].at # "open"
    <3>1. PICK at \in FsAt : Step(k, at) /\ (k # n \/ at # "open")
      BY <2>3, FsEndCases DEF StackWalk, ReleaseFile, FsAt
    <3> QED BY <1>0, <3>1, FsStepFacts
  <2>4. ASSUME \/ \E k \in DOMAIN op : FileEvent(k) \/ FileRundown(k) \/ DeleteFile(k)
               \/ \E t \in FsThread : OtherWalk(t) \/ \E k \in DOMAIN buckets[t] : FsAge(t, k)
               \/ Purge \/ UNCHANGED fsVars
        PROVE  op' = op
    BY <2>4 DEF FileEvent, FileRundown, DeleteFile, OtherWalk, FsAge, Purge, fsVars
  <2> QED BY <1>4, <2>1, <2>2, <2>3, <2>4 DEF FsNext
<1>5. ASSUME NEW n \in DOMAIN op', op'[n].at = "open"
      PROVE  op'[n].obj \in DOMAIN files' \/ Unseen(n)
  <2>1. n \in DOMAIN op
    BY <1>5, FsNewCases
  <2>2. op'[n].obj = op[n].obj
    BY <1>0, <2>1 DEF FsGrown
  <2> HIDE DEF Unseen
  <2> QED BY <1>1, <1>2, <1>3, <1>4, <1>5, <2>1, <2>2 DEF FsPresent
<1> QED BY <1>5 DEF FsPresent, Unknown, Lost

LEMMA FsAttributedStep ==
    ASSUME FsInv, [FsNext]_fsVars
    PROVE  FsAttributed'
<1>0. FsGrown /\ FsTyped /\ FsUnique /\ FsWaiting /\ op \in Seq(FsOp)
  BY FsGrowth DEF FsInv, FsTyped
\* The end of n finds the event of its own operation, or that of one whose end
\* did not arrive.
<1>1. ASSUME NEW n \in DOMAIN op, NEW ev \in DOMAIN op, FsEnds(n, ev), FileOpEnd(n), ev # n
      PROVE  (Lost("end", ev) \/ ev \in rejected) /\ Lost("create", n)
  <2>1. InFlight(n)
    BY <1>1, FsEndCases DEF InFlight
  <2>2. Lost("create", n)
    BY <1>0, <1>1, <2>1 DEF FsEnds, FsWaiting
  <2>3. op[ev].irp = op[n].irp
    BY <1>0, <1>1 DEF FsEnds, FsWaiting
  <2>4. ~InFlight(ev)
    BY <1>0, <1>1, <2>1, <2>3 DEF FsUnique
  <2> QED BY <1>0, <1>1, <2>2, <2>4 DEF FsEnds, FsWaiting
<1>2. FsPaired'
  <2>1. ASSUME NEW n \in DOMAIN sent', sent'[n].end # n
        PROVE  /\ <<"end", n>> \in lost' \/ n \in rejected'
               /\ <<"create", sent'[n].end>> \in lost'
    <3>1. CASE n \in DOMAIN sent
      <4>1. sent'[n] = sent[n]
        BY <1>0, <3>1 DEF FsGrown
      <4>2. (<<"end", n>> \in lost \/ n \in rejected) /\ <<"create", sent[n].end>> \in lost
        BY <2>1, <3>1, <4>1 DEF FsInv, FsAttributed, FsPaired, Lost
      <4> QED BY <1>0, <4>1, <4>2 DEF FsGrown
    <3>2. CASE n \notin DOMAIN sent
      <4>1. PICK k \in DOMAIN op, ev \in DOMAIN op : FileOpEnd(k) /\ FsEnds(k, ev)
        BY <1>0, <3>2, FsSentCases
      <4>2. n = ev /\ sent'[n].end = k
        BY <3>2, <4>1 DEF FsEnds, With
      <4> QED BY <1>0, <1>1, <2>1, <4>1, <4>2 DEF FsGrown, Lost
    <3> QED BY <3>1, <3>2
  <2> QED BY <2>1 DEF FsPaired, Lost
<1>3. FsOwnStack'
  <2> DEFINE Excused(n) ==
        \/ <<"walk", n>> \in lost' \/ n \in buried' \/ sent'[n].end # n
        \/ \E m \in DOMAIN sent' : sent'[m].end # m /\ sent'[m].stack = n
  <2>1. ASSUME NEW n \in DOMAIN sent', sent'[n].stack # n
        PROVE  Excused(n)
    <3>1. CASE n \in DOMAIN sent
      <4>1. sent'[n] = sent[n]
        BY <1>0, <3>1 DEF FsGrown
      <4>2. \/ <<"walk", n>> \in lost \/ n \in buried \/ sent[n].end # n
            \/ \E m \in DOMAIN sent : sent[m].end # m /\ sent[m].stack = n
        BY <2>1, <3>1, <4>1 DEF FsInv, FsAttributed, FsOwnStack, Lost, Astray
      <4> QED BY <1>0, <4>1, <4>2 DEF FsGrown
    <3>2. CASE n \notin DOMAIN sent
      <4>1. PICK k \in DOMAIN op, ev \in DOMAIN op : FileOpEnd(k) /\ FsEnds(k, ev)
        BY <1>0, <3>2, FsSentCases
      <4>2. n = ev /\ sent'[n].end = k /\ sent'[n].stack = TopStack(buckets[op[n].tid])
        BY <3>2, <4>1 DEF FsEnds, With
      <4>3. CASE k = n
        <5>1. op[n].at = "end"
          BY <4>1, <4>3, FsEndCases
        <5>2. Lost("walk", n) \/ n \in buried \/ StackTaken(n)
          BY <2>1, <4>1, <4>2, <5>1 DEF FsInv, FsLatest
        <5> QED BY <1>0, <5>2 DEF FsGrown, Lost, StackTaken, Astray
      <4> QED BY <4>2, <4>3
    <3> QED BY <3>1, <3>2
  <2> QED BY <2>1 DEF FsOwnStack, Lost, Astray
<1>4. FsForwarded'
  <2>1. ASSUME NEW n \in DOMAIN op', op'[n].at \in {"open", "failed", "released"},
               n \notin DOMAIN sent'
        PROVE  <<"create", n>> \in lost' \/ <<"end", n>> \in lost' \/ n \in rejected'
    <3>0. n \in DOMAIN op /\ n \notin DOMAIN sent
      BY <1>0, <2>1, FsNewCases DEF FsGrown
    <3>1. CASE op[n].at \in {"open", "failed", "released"}
      <4>1. <<"create", n>> \in lost \/ <<"end", n>> \in lost \/ n \in rejected
        BY <3>0, <3>1 DEF FsInv, FsAttributed, FsForwarded, Lost
      <4> QED BY <1>0, <4>1 DEF FsGrown
    <3>2. CASE op[n].at \in {"create", "end"}
      <4>1. FileOpEnd(n)
        <5>1. CASE op' = op
          BY <2>1, <3>2, <5>1
        <5>2. ASSUME NEW i \in FsIrp, NEW x \in FsObject, NEW a \in FsObject, NEW t \in FsThread,
                 CreateFile(i, x, a, t)
              PROVE  FALSE
          BY <1>0, <2>1, <3>0, <3>2, <5>2, FsCreateFacts
        <5>3. ASSUME NEW k \in DOMAIN op, StackWalk(k) \/ ReleaseFile(k) PROVE FALSE
          <6>1. PICK at \in FsAt : Step(k, at) /\ (at = "end" \/ op[k].at = "open")
            BY <5>3 DEF StackWalk, ReleaseFile, FsAt
          <6> QED BY <1>0, <2>1, <3>0, <3>2, <6>1, FsStepFacts
        <5>4. ASSUME NEW k \in DOMAIN op, FileOpEnd(k), k # n PROVE FALSE
          <6>1. PICK at \in FsAt : Step(k, at)
            BY <5>4, FsEndCases DEF FsAt
          <6> QED BY <1>0, <2>1, <3>0, <3>2, <5>4, <6>1, FsStepFacts
        <5>5. ASSUME \/ \E k \in DOMAIN op : FileEvent(k) \/ FileRundown(k) \/ DeleteFile(k)
                     \/ \E t \in FsThread : OtherWalk(t) \/ \E m \in DOMAIN buckets[t] : FsAge(t, m)
                     \/ Purge \/ UNCHANGED fsVars
              PROVE  op' = op
          BY <5>5 DEF FileEvent, FileRundown, DeleteFile, OtherWalk, FsAge, Purge, fsVars
        <5> QED BY <5>1, <5>2, <5>3, <5>4, <5>5 DEF FsNext
      <4>2. SUFFICES ASSUME ~Lost("create", n) PROVE <<"end", n>> \in lost' \/ n \in rejected'
        BY <1>0 DEF FsGrown, Lost
      <4>3. op[n].irp \in DOMAIN irps /\ irps[op[n].irp] = n
        BY <1>0, <3>0, <3>2, <4>2 DEF FsWaiting, InFlight
      <4>4. ~FsEnds(n, irps[op[n].irp])
        <5>1. ASSUME FsEnds(n, n) PROVE n \in DOMAIN sent'
          BY <5>1 DEF FsEnds, With
        <5> QED BY <2>1, <4>3, <5>1
      <4> QED BY <3>0, <4>1, <4>3, <4>4, FsEndCases
    <3> QED BY <1>0, <3>0, <3>1, <3>2, FsFields DEF FsAt
  <2> QED BY <2>1 DEF FsForwarded, Lost
<1>5. FsOwnPath'
  <2> DEFINE Outlived(m) ==
        \/ op'[m].at = "failed" \/ <<"release", m>> \in lost'
        \/ m \in DOMAIN sent' /\ sent'[m].end # m
        \/ m \in named'
  <2> DEFINE Unseen(n) ==
        \/ <<"create", n>> \in lost' \/ <<"end", n>> \in lost' \/ n \in rejected' \/ n \in deleted'
  <2> DEFINE Explained(n, m) == Outlived(m) \/ (Unseen(n) /\ op'[m].obj = op'[n].obj)
  <2>0. path \in [1 .. FsOps -> SUBSET DOMAIN op]
    BY <1>0 DEF FsTyped
  <2>1. ASSUME NEW m \in DOMAIN op, FsOutlived(m) PROVE Outlived(m)
    BY <1>0, <2>1 DEF FsGrown, FsOutlived, Lost, Astray
  <2>u. ASSUME NEW n \in DOMAIN op, NEW m \in DOMAIN op, Unknown(n), op[m].obj = op[n].obj
        PROVE  Unseen(n) /\ op'[m].obj = op'[n].obj
    BY <1>0, <2>u DEF FsGrown, Unknown, Lost
  <2>2. ASSUME NEW n \in DOMAIN op, NEW m \in path[n], m # n, n \in 1 .. FsOps
        PROVE  Explained(n, m)
    <3>1. m \in DOMAIN op
      BY <2>0, <2>2
    <3>2. FsOutlived(m) \/ (Unknown(n) /\ op[m].obj = op[n].obj)
      BY <2>2 DEF FsInv, FsAttributed, FsOwnPath, FsOutlived
    <3> QED BY <2>1, <2>u, <3>1, <3>2
  \* A path found under the object or the key of a file that has them.
  <2>f. ASSUME NEW n \in DOMAIN op, op[n].at = "open", NEW o \in DOMAIN files,
               o \in {op[n].obj, op[n].key}, files[o] # n
        PROVE  Outlived(files[o])
    <3>2. PICK m \in DOMAIN op : m = files[o]
      BY <1>0 DEF FsTyped
    <3>3. o \in {op[m].obj, op[m].key} /\ (HasObject(m) \/ FsOutlived(m))
      BY <3>2 DEF FsInv, FsNamed
    <3>4. ~HasObject(m)
      BY <1>0, <2>f, <3>2, <3>3 DEF FsUnique, HasObject
    <3> QED BY <2>1, <3>2, <3>3, <3>4
  <2>3. ASSUME NEW n \in DOMAIN op, op[n].at = "open",
               NEW m \in FindFile(n) \cup FindMapped(n), m # n
        PROVE  Explained(n, m)
    <3>1. CASE op[n].key \in DOMAIN files /\ m = files[op[n].key]
      BY <2>3, <2>f, <3>1
    <3>2. CASE op[n].obj \in DOMAIN files /\ m = files[op[n].obj]
      BY <2>3, <2>f, <3>2
    <3>3. CASE op[n].obj \notin DOMAIN files /\ m \in DOMAIN op /\ op[m].obj = op[n].obj
      <4>1. Unknown(n)
        BY <2>3, <3>3 DEF FsInv, FsPresent
      <4> QED BY <2>u, <3>3, <4>1
    <3> QED BY <2>3, <3>1, <3>2, <3>3, FsFound
  <2>4. ASSUME NEW n \in DOMAIN op', NEW m \in path'[n], m # n PROVE Explained(n, m)
    <3>0. n \in 1 .. FsOps
      <4>1. op' \in Seq(FsOp) /\ Len(op') <= FsOps
        BY <1>0, FsTypedStep DEF FsTyped
      <4> QED BY <4>1, FsAssumption
    <3>1. ASSUME m \in path[n] PROVE Explained(n, m)
      <4>1. n \in DOMAIN op
        BY <1>0, <3>0, <3>1 DEF FsTyped
      <4> QED BY <2>2, <2>4, <3>0, <3>1, <4>1
    <3>2. ASSUME NEW k \in DOMAIN op, NEW x, Given(k, x), m \notin path[n]
          PROVE  k = n /\ m = x
      BY <2>0, <2>4, <3>0, <3>2 DEF Given
    <3>3. ASSUME m \notin path[n]
          PROVE  \E k \in DOMAIN op : \E x \in FindFile(k) \cup FindMapped(k) :
                    op[k].at = "open" /\ Given(k, x)
      BY <1>0, <2>4, <3>3, FsPathCases
    <3> HIDE DEF Explained
    <3> QED BY <2>3, <2>4, <3>1, <3>2, <3>3
  <2> QED BY <2>4 DEF FsOwnPath, Lost, Astray, Unknown
<1> QED
  BY <1>2, <1>3, <1>4, <1>5 DEF FsAttributed

\* For any operations, packets, file objects and threads, and any number of
\* dropped events and other callstacks, with the purger at any time: every
\* CreateFile event that arrived goes on once its operation ended, with its own
\* result, callstack and path, but for the faults the property names
\* (fsProcessor.processEvent, purge).
THEOREM FilesAttributed == FsSpec => [](FsTypeOK /\ FsAttributed)
<1>1. FsInit => FsInv
  BY FsInitInv
<1>2. FsInv /\ [FsNext]_fsVars => FsInv'
  <2> SUFFICES ASSUME FsInv, [FsNext]_fsVars PROVE FsInv'
    OBVIOUS
  <2>1. FsTyped' /\ FsUnique' /\ FsWaiting' /\ FsLatest' /\ FsNamed' /\ FsPresent'
    BY FsTypedStep, FsUniqueStep, FsWaitingStep, FsLatestStep, FsNamedStep, FsPresentStep DEF FsInv
  <2> QED BY <2>1, FsAttributedStep DEF FsInv
<1>3. FsInv => FsTypeOK /\ FsAttributed
  BY DEF FsInv, FsTyped, FsTypeOK, FsOp, FsAt
<1> QED
  BY <1>1, <1>2, <1>3, PTL DEF FsSpec
-----------------------------------------------------------------------------
(* The YARA scanner *)

YsProcess == [pid : YsPid, runs : BOOLEAN]
YsEvent == [type : Kind \cup {"terminate"}, n : Nat]
YsScanned == [kind : Kind, n : Nat]

YsTyped ==
    /\ ysProcs \in Seq(YsProcess) /\ Len(ysProcs) <= YsProcs
    /\ trace \in Seq(YsEvent) /\ \A j \in DOMAIN trace : trace[j].n \in DOMAIN ysProcs
    /\ held \in [1 .. YsProcs -> Nat]
    /\ alerts \in [1 .. YsProcs -> [Kind -> Nat]]
    /\ matched \in [Kind -> [YsPid -> Nat]]
    /\ \A k \in Kind, p \in YsPid : matched[k][p] # 0 =>
          matched[k][p] \in DOMAIN ysProcs /\ ysProcs[matched[k][p]].pid = p
    /\ DOMAIN ysScan = Actor
    /\ \A a \in Actor : ysScan[a] # <<>> =>
          \E k \in Kind, n \in DOMAIN ysProcs : ysScan[a] = <<[kind |-> k, n |-> n]>>
    /\ ended \subseteq DOMAIN ysProcs /\ ysLost \subseteq DOMAIN ysProcs
    /\ spared \subseteq [kind : Kind, n : DOMAIN ysProcs, by : DOMAIN ysProcs]
    /\ \A n \in 1 .. YsProcs : n \notin DOMAIN ysProcs =>
          held[n] = 0 /\ \A k \in Kind : alerts[n][k] = 0

\* b had the pid of n before n.
Predecessor(b, n) == b \in DOMAIN ysProcs /\ b < n /\ ysProcs[b].pid = ysProcs[n].pid
Terminates(j, n) == trace[j].type = "terminate" /\ trace[j].n = n
ScansFor(a, k, n) == ysScan[a] = <<[kind |-> k, n |-> n]>>

\* Only the latest process with a pid runs; the termination of one that does not
\* was dropped, is on its way or was handled, and it is its last event.
YsEnds ==
    /\ \A n \in DOMAIN ysProcs : \A b \in DOMAIN ysProcs : Predecessor(b, n) => ~ysProcs[b].runs
    /\ \A n \in DOMAIN ysProcs :
          IF ysProcs[n].runs
          THEN n \notin ended \cup ysLost /\ \A j \in DOMAIN trace : ~Terminates(j, n)
          ELSE n \in ended \cup ysLost \/ \E j \in DOMAIN trace : Terminates(j, n)
    /\ \A j \in DOMAIN trace :
          /\ trace[j].n \notin ended
          /\ trace[j].type = "terminate" => trace[j].n \notin ysLost
    /\ \A i, j \in DOMAIN trace : i < j => ~Terminates(i, trace[j].n)

\* An event follows the termination of those that had the pid before, and the
\* events of a pid come in the order of its processes.
YsOrdered ==
    \A j \in DOMAIN trace :
        /\ \A b \in DOMAIN ysProcs : Predecessor(b, trace[j].n) =>
              b \in ended \cup ysLost \/ \E i \in DOMAIN trace : i < j /\ Terminates(i, b)
        /\ \A i \in DOMAIN trace : Predecessor(trace[i].n, trace[j].n) => i < j

\* What the scanner has seen of n comes after the end of its predecessors.
Seen(n) ==
    \/ held[n] > 0 \/ \E k \in Kind : alerts[n][k] > 0 \/ matched[k][ysProcs[n].pid] = n
    \/ \E a \in Actor, k \in Kind : ScansFor(a, k, n)
YsSeen ==
    \A n \in DOMAIN ysProcs : Seen(n) =>
        \A b \in DOMAIN ysProcs : Predecessor(b, n) => b \in ended \cup ysLost

\* Allocations: an entry of a process that ended is late; while a process that
\* was alerted has not ended, an entry has its pid, and it is scanned by two.
Scans(a, n) == IF ScansFor(a, "rwx", n) THEN 1 ELSE 0
YsRwx ==
    /\ \A p \in YsPid : matched["rwx"][p] \in ended => matched["rwx"][p] \in ysLate
    /\ \A n \in DOMAIN ysProcs : n \notin ended \cup ysLost =>
          /\ alerts[n]["rwx"] > 0 => matched["rwx"][ysProcs[n].pid] # 0
          /\ alerts[n]["rwx"] + Scans("consumer", n) + Scans("flusher", n) <= 2

\* Mappings: only the consumer scans for them.
MapsOver(n) ==
    /\ ~ysProcs[n].runs /\ \A j \in DOMAIN trace : trace[j].n # n
    /\ ~ScansFor("consumer", "mmap", n)
YsMmap ==
    /\ \A n \in DOMAIN ysProcs :
          /\ ~ScansFor("flusher", "mmap", n)
          /\ ScansFor("consumer", "mmap", n) =>
                n \notin ended /\ matched["mmap"][ysProcs[n].pid] = 0
          /\ ScansFor("consumer", "mmap", n) \/ matched["mmap"][ysProcs[n].pid] = n =>
                \A j \in DOMAIN trace : ~Predecessor(trace[j].n, n)
          /\ alerts[n]["mmap"] > 0 => matched["mmap"][ysProcs[n].pid] = n \/ MapsOver(n)
    /\ \A p \in YsPid : matched["mmap"][p] \notin ended

YsInv == YsTyped /\ YsEnds /\ YsOrdered /\ YsSeen /\ YsRwx /\ YsMmap /\ YsMatches

LEMMA YsFields ==
    ASSUME ysProcs \in Seq(YsProcess), NEW n \in DOMAIN ysProcs
    PROVE  n \in Nat /\ n # 0 /\ ysProcs[n].pid \in YsPid /\ ysProcs[n].runs \in BOOLEAN
<1>1. ysProcs[n] \in YsProcess /\ n \in 1 .. Len(ysProcs) /\ Len(ysProcs) \in Nat
  OBVIOUS
<1>2. n \in Nat /\ n # 0
  BY <1>1
<1>3. ysProcs[n].pid \in YsPid /\ ysProcs[n].runs \in BOOLEAN
  BY <1>1 DEF YsProcess
<1> QED BY <1>2, <1>3

LEMMA YsScanIs ==
    ASSUME NEW k, NEW n
    PROVE  LET s == <<[kind |-> k, n |-> n]>> IN
           /\ s # <<>> /\ s[1].kind = k /\ s[1].n = n
           /\ \A l, m : s = <<[kind |-> l, n |-> m]>> => l = k /\ m = n
OBVIOUS

LEMMA YsInitInv == YsInit => YsInv
<1> SUFFICES ASSUME YsInit PROVE YsInv
  OBVIOUS
<1>1. DOMAIN ysProcs = {} /\ ysProcs \in Seq(YsProcess) /\ Len(ysProcs) = 0
  BY DEF YsInit
<1>2. DOMAIN trace = {} /\ trace \in Seq(YsEvent)
  BY DEF YsInit
<1>3. /\ held \in [1 .. YsProcs -> Nat] /\ \A n \in 1 .. YsProcs : held[n] = 0
      /\ alerts \in [1 .. YsProcs -> [Kind -> Nat]]
      /\ \A n \in 1 .. YsProcs : \A k \in Kind : alerts[n][k] = 0
  BY DEF YsInit
<1>4. matched \in [Kind -> [YsPid -> Nat]] /\ \A k \in Kind, p \in YsPid : matched[k][p] = 0
  BY DEF YsInit
<1>5. DOMAIN ysScan = Actor /\ \A a \in Actor : ysScan[a] = <<>>
  BY DEF YsInit
<1>6. ended = {} /\ ysLost = {} /\ spared = {}
  BY DEF YsInit
<1>7. YsTyped
  BY <1>1, <1>2, <1>3, <1>4, <1>5, <1>6, YsAssumption DEF YsTyped
<1>8. YsEnds /\ YsOrdered /\ YsSeen
  BY <1>1, <1>2 DEF YsEnds, YsOrdered, YsSeen
<1>9. YsRwx /\ YsMmap
  BY <1>1, <1>4, <1>6 DEF YsRwx, YsMmap, Kind
<1>10. YsMatches
  BY <1>1, <1>6 DEF YsMatches, YsSpared, YsAlerted
<1> QED BY <1>7, <1>8, <1>9, <1>10 DEF YsInv

\* The processes and what is known of them only grow.
YsGrown ==
    /\ ysProcs' \in Seq(YsProcess) /\ Len(ysProcs') <= YsProcs
    /\ DOMAIN ysProcs \subseteq DOMAIN ysProcs'
    /\ \A n \in DOMAIN ysProcs : /\ ysProcs'[n].pid = ysProcs[n].pid
                                 /\ ~ysProcs[n].runs => ~ysProcs'[n].runs
    /\ ended \subseteq ended' /\ ysLost \subseteq ysLost' /\ ysLate \subseteq ysLate'

LEMMA YsLaunchFacts ==
    ASSUME YsTyped, NEW p \in YsPid, Launch(p)
    PROVE  /\ ysProcs' \in Seq(YsProcess) /\ Len(ysProcs') <= YsProcs
           /\ DOMAIN ysProcs' = DOMAIN ysProcs \cup {Len(ysProcs) + 1}
           /\ Len(ysProcs) + 1 \notin DOMAIN ysProcs
           /\ \A n \in DOMAIN ysProcs : ysProcs'[n] = ysProcs[n] /\ n < Len(ysProcs) + 1
           /\ ysProcs'[Len(ysProcs) + 1].pid = p /\ ysProcs'[Len(ysProcs) + 1].runs
<1>1. PICK x : x = [pid |-> p, runs |-> TRUE]
  OBVIOUS
<1>2. x \in YsProcess /\ x.pid = p
  BY <1>1 DEF YsProcess
<1>3. x.runs
  BY <1>1
<1>4. ysProcs \in Seq(YsProcess) /\ Len(ysProcs) < YsProcs /\ ysProcs' = Append(ysProcs, x)
  BY <1>1 DEF YsTyped, Launch
<1>5. Len(ysProcs') = Len(ysProcs) + 1 /\ \A n \in DOMAIN ysProcs : n < Len(ysProcs) + 1
  BY <1>2, <1>4
<1>6. Len(ysProcs') <= YsProcs
  BY <1>4, <1>5, YsAssumption
<1> HIDE <1>1
<1>7. /\ ysProcs' \in Seq(YsProcess) /\ DOMAIN ysProcs' = DOMAIN ysProcs \cup {Len(ysProcs) + 1}
      /\ Len(ysProcs) + 1 \notin DOMAIN ysProcs /\ ysProcs'[Len(ysProcs) + 1] = x
      /\ \A n \in DOMAIN ysProcs : ysProcs'[n] = ysProcs[n]
  BY <1>2, <1>4, AppendAt
<1>8. ysProcs'[Len(ysProcs) + 1].pid = p
  BY <1>2, <1>7
<1>9. ysProcs'[Len(ysProcs) + 1].runs
  BY <1>3, <1>7, Zenon
<1> QED BY <1>5, <1>6, <1>7, <1>8, <1>9

LEMMA YsFinishFacts ==
    ASSUME YsTyped, NEW n \in DOMAIN ysProcs, Finish(n)
    PROVE  /\ ysProcs' \in Seq(YsProcess) /\ Len(ysProcs') = Len(ysProcs)
           /\ DOMAIN ysProcs' = DOMAIN ysProcs
           /\ ysProcs[n].runs /\ ~ysProcs'[n].runs /\ ysProcs'[n].pid = ysProcs[n].pid
           /\ \A m \in DOMAIN ysProcs : m # n => ysProcs'[m] = ysProcs[m]
<1>1. PICK b \in BOOLEAN : b = FALSE
  OBVIOUS
<1>2. ysProcs[n] \in YsProcess /\ ysProcs \in Seq(YsProcess)
  BY DEF YsTyped
<1>3. ysProcs' = [ysProcs EXCEPT ![n] = [ysProcs[n] EXCEPT !.runs = b]]
  BY <1>1 DEF Finish
<1>4. ~b
  BY <1>1
<1> HIDE <1>1
<1>5. [ysProcs[n] EXCEPT !.runs = b] \in YsProcess
  BY <1>2 DEF YsProcess
<1>6. /\ ysProcs' \in Seq(YsProcess) /\ Len(ysProcs') = Len(ysProcs)
      /\ DOMAIN ysProcs' = DOMAIN ysProcs
      /\ \A m \in DOMAIN ysProcs : m # n => ysProcs'[m] = ysProcs[m]
      /\ ysProcs'[n] = [ysProcs[n] EXCEPT !.runs = b]
  BY <1>2, <1>3, <1>5
<1>7. ysProcs'[n].pid = ysProcs[n].pid /\ ysProcs'[n].runs = b
  BY <1>2, <1>6 DEF YsProcess
<1>8. ~ysProcs'[n].runs
  BY <1>4, <1>7, Zenon
<1>9. ysProcs[n].runs
  BY Zenon DEF Finish
<1> QED BY <1>6, <1>7, <1>8, <1>9

LEMMA YsGrowth ==
    ASSUME YsTyped, [YsNext]_ysVars
    PROVE  YsGrown
<1>1. ASSUME NEW p \in YsPid, Launch(p) PROVE YsGrown
  <2>1. ended' = ended /\ ysLost' = ysLost /\ ysLate' = ysLate
    BY <1>1 DEF Launch, YsHistory
  <2>2. \A n \in DOMAIN ysProcs : ysProcs'[n] = ysProcs[n]
    BY <1>1, YsLaunchFacts
  <2>3. \A n \in DOMAIN ysProcs : ~ysProcs[n].runs => ~ysProcs'[n].runs
    BY <2>2, Zenon
  <2> QED BY <1>1, <2>1, <2>2, <2>3, YsLaunchFacts DEF YsGrown
<1>2. ASSUME NEW n \in DOMAIN ysProcs, Finish(n) PROVE YsGrown
  <2>1. ended' = ended /\ ysLost \subseteq ysLost' /\ ysLate' = ysLate
    BY <1>2 DEF Finish
  <2>2. ASSUME NEW m \in DOMAIN ysProcs, ~ysProcs[m].runs PROVE ~ysProcs'[m].runs
    BY <1>2, <2>2, YsFinishFacts, Zenon
  <2> QED BY <1>2, <2>1, <2>2, YsFinishFacts DEF YsGrown, YsTyped
<1>3. ASSUME ysProcs' = ysProcs, ended \subseteq ended', ysLost' = ysLost, ysLate \subseteq ysLate'
      PROVE  YsGrown
  <2>1. \A n \in DOMAIN ysProcs : ~ysProcs[n].runs => ~ysProcs'[n].runs
    BY <1>3, Zenon
  <2> QED BY <1>3, <2>1 DEF YsGrown, YsTyped
<1>4. ASSUME \/ \E n \in DOMAIN ysProcs, k \in Kind : Touch(n, k)
             \/ Terminated \/ Hold \/ MapView
             \/ \E a \in Actor : (\E n \in DOMAIN ysProcs : Allocated(a, n)) \/ ScanEmpty(a)
             \/ UNCHANGED ysVars
      PROVE  /\ ysProcs' = ysProcs /\ ended \subseteq ended' /\ ysLost' = ysLost
             /\ ysLate \subseteq ysLate'
  BY <1>4 DEF Touch, Terminated, Hold, MapView, Allocated, ScanEmpty, ysVars, YsHistory
<1>5. ASSUME NEW a \in Actor, ScanMatches(a)
      PROVE  /\ ysProcs' = ysProcs /\ ended' = ended /\ ysLost' = ysLost
             /\ ysLate \subseteq ysLate'
  BY <1>5 DEF ScanMatches
<1> QED
  BY <1>1, <1>2, <1>3, <1>4, <1>5 DEF YsNext

\* A process that is new was launched, and nothing is known of it.
LEMMA YsNewCases ==
    ASSUME YsTyped, [YsNext]_ysVars, NEW n \in DOMAIN ysProcs', n \notin DOMAIN ysProcs
    PROVE  \E p \in YsPid : /\ Launch(p) /\ n = Len(ysProcs) + 1 /\ ysProcs'[n].pid = p
                            /\ ysProcs'[n].runs /\ \A m \in DOMAIN ysProcs : m < n
<1>1. ASSUME NEW m \in DOMAIN ysProcs, Finish(m) PROVE DOMAIN ysProcs' = DOMAIN ysProcs
  BY <1>1, YsFinishFacts
<1>2. ASSUME \/ \E m \in DOMAIN ysProcs, k \in Kind : Touch(m, k)
             \/ Terminated \/ Hold \/ MapView
             \/ \E a \in Actor : \/ \E m \in DOMAIN ysProcs : Allocated(a, m)
                                 \/ ScanEmpty(a) \/ ScanMatches(a)
             \/ UNCHANGED ysVars
      PROVE  ysProcs' = ysProcs
  BY <1>2 DEF Touch, Terminated, Hold, MapView, Allocated, ScanEmpty, ScanMatches, ysVars
<1>3. PICK p \in YsPid : Launch(p)
  BY <1>1, <1>2 DEF YsNext
<1>4. n = Len(ysProcs) + 1
  BY <1>3, YsLaunchFacts
<1>5. ysProcs'[n].runs /\ ysProcs'[n].pid = p /\ \A m \in DOMAIN ysProcs : m < n
  BY <1>3, <1>4, YsLaunchFacts
<1> QED BY <1>3, <1>4, <1>5

\* The trace gets an event of a process that runs, or loses its first one.
Adds(n, y) ==
    /\ ysProcs[n].runs /\ trace' = Append(trace, [type |-> y, n |-> n])
    /\ ysLost' = ysLost /\ ended' = ended
    /\ IF y = "terminate" THEN Finish(n) ELSE Touch(n, y)
Consumes ==
    /\ trace # <<>> /\ trace' = Tail(trace) /\ ysProcs' = ysProcs /\ ysLost' = ysLost
    /\ \/ Terminated /\ Head(trace).type = "terminate" /\ ended' = ended \cup {Head(trace).n}
       \/ (Hold \/ MapView) /\ Head(trace).type \in Kind /\ ended' = ended

LEMMA YsTraceCases ==
    ASSUME [YsNext]_ysVars
    PROVE  \/ trace' = trace /\ ended' = ended
           \/ \E n \in DOMAIN ysProcs, y \in Kind \cup {"terminate"} : Adds(n, y)
           \/ Consumes
<1>1. ASSUME NEW n \in DOMAIN ysProcs, Finish(n)
      PROVE  (trace' = trace /\ ended' = ended) \/ Adds(n, "terminate")
  BY <1>1 DEF Finish, Adds
<1>2. ASSUME NEW n \in DOMAIN ysProcs, NEW k \in Kind, Touch(n, k)
      PROVE  Adds(n, k)
  BY <1>2 DEF Touch, Adds, Kind
<1>3. ASSUME Terminated PROVE Consumes
  BY <1>3 DEF Terminated, Consumes
<1>4. ASSUME Hold \/ MapView PROVE Consumes
  BY <1>4 DEF Hold, MapView, Consumes, Kind, YsHistory
<1>5. ASSUME \/ \E p \in YsPid : Launch(p)
             \/ \E a \in Actor : \/ \E m \in DOMAIN ysProcs : Allocated(a, m)
                                 \/ ScanEmpty(a) \/ ScanMatches(a)
             \/ UNCHANGED ysVars
      PROVE  trace' = trace /\ ended' = ended
  BY <1>5 DEF Launch, Allocated, ScanEmpty, ScanMatches, ysVars, YsHistory
<1> QED
  BY <1>1, <1>2, <1>3, <1>4, <1>5 DEF YsNext

LEMMA YsAddsFacts ==
    ASSUME YsTyped, NEW n \in DOMAIN ysProcs, NEW y \in Kind \cup {"terminate"}, Adds(n, y)
    PROVE  /\ trace' \in Seq(YsEvent)
           /\ DOMAIN trace' = DOMAIN trace \cup {Len(trace) + 1} /\ Len(trace) + 1 \notin DOMAIN trace
           /\ \A j \in DOMAIN trace : j < Len(trace) + 1 /\ trace'[j] = trace[j]
           /\ trace'[Len(trace) + 1].type = y /\ trace'[Len(trace) + 1].n = n
           /\ DOMAIN ysProcs' = DOMAIN ysProcs
           /\ ysProcs[n].runs
<1>1. PICK e : e = [type |-> y, n |-> n]
  OBVIOUS
<1>2. trace \in Seq(YsEvent) /\ n \in Nat
  BY YsFields DEF YsTyped
<1>3. e \in YsEvent /\ e.type = y /\ e.n = n
  BY <1>1, <1>2 DEF YsEvent
<1>4. trace' = Append(trace, e)
  BY <1>1 DEF Adds
<1>5. \A j \in DOMAIN trace : j < Len(trace) + 1
  BY <1>2
<1>6. DOMAIN ysProcs' = DOMAIN ysProcs
  BY YsFinishFacts DEF Adds, Touch
<1>7. ysProcs[n].runs
  BY Zenon DEF Adds
<1> QED
  BY <1>2, <1>3, <1>4, <1>5, <1>6, <1>7, AppendAt

LEMMA YsTailFacts ==
    ASSUME YsTyped, Consumes
    PROVE  /\ trace' \in Seq(YsEvent) /\ 1 \in DOMAIN trace /\ Head(trace) = trace[1]
           /\ \A i \in DOMAIN trace' : /\ i \in Nat \ {0} /\ i + 1 \in DOMAIN trace
                                        /\ trace'[i] = trace[i + 1]
           /\ \A i \in DOMAIN trace : i # 1 => i - 1 \in DOMAIN trace' /\ trace'[i - 1] = trace[i]
<1>1. trace \in Seq(YsEvent) /\ trace # <<>> /\ trace' = Tail(trace)
  BY DEF YsTyped, Consumes
<1> QED BY <1>1, TailAt

LEMMA YsEndsStep ==
    ASSUME YsTyped, YsEnds, [YsNext]_ysVars
    PROVE  YsEnds'
<1>0. /\ YsGrown /\ ysProcs \in Seq(YsProcess) /\ trace \in Seq(YsEvent)
      /\ \A j \in DOMAIN trace : trace[j].n \in DOMAIN ysProcs
      /\ ended \subseteq DOMAIN ysProcs /\ ysLost \subseteq DOMAIN ysProcs
  BY YsGrowth DEF YsTyped
<1>1. ASSUME NEW n \in DOMAIN ysProcs', NEW b \in DOMAIN ysProcs', b < n,
             ysProcs'[b].pid = ysProcs'[n].pid
      PROVE  ~ysProcs'[b].runs
  <2>1. CASE n \in DOMAIN ysProcs
    <3>1. b \in DOMAIN ysProcs
      <4>1. ASSUME b \notin DOMAIN ysProcs PROVE FALSE
        <5>1. n < b /\ b \in Nat /\ n \in Nat
          BY <1>0, <2>1, <4>1, YsNewCases DEF YsGrown
        <5> QED BY <1>1, <5>1
      <4> QED BY <4>1
    <3>2. ~ysProcs[b].runs
      BY <1>0, <1>1, <2>1, <3>1 DEF YsGrown, YsEnds, Predecessor
    <3> QED BY <1>0, <3>1, <3>2 DEF YsGrown
  <2>2. CASE n \notin DOMAIN ysProcs
    <3>1. PICK p \in YsPid : Launch(p) /\ n = Len(ysProcs) + 1 /\ ysProcs'[n].pid = p
      BY <2>2, YsNewCases
    <3>2. b \in DOMAIN ysProcs /\ ysProcs'[b] = ysProcs[b]
      <4>1. b # n
        BY <1>0, <1>1 DEF YsGrown
      <4> QED BY <3>1, <4>1, YsLaunchFacts
    <3>3. ysProcs[b].pid = p
      BY <1>1, <3>1, <3>2
    <3>4. ~ysProcs[b].runs
      BY <3>1, <3>2, <3>3 DEF Launch
    <3> QED BY <1>0, <3>2, <3>4 DEF YsGrown
  <2> QED BY <2>1, <2>2
\* The other three parts, for each way in which the trace may change.
<1> DEFINE Over(n) == n \in ended' \/ n \in ysLost'
           Comes(j, n) == trace'[j].type = "terminate" /\ trace'[j].n = n
<1>2. ASSUME NEW n \in DOMAIN ysProcs', ysProcs'[n].runs
      PROVE  ~Over(n) /\ \A j \in DOMAIN trace' : ~Comes(j, n)
  <2>1. CASE n \notin DOMAIN ysProcs
    <3>1. PICK p \in YsPid : Launch(p)
      BY <2>1, YsNewCases
    <3>2. trace' = trace /\ ended' = ended /\ ysLost' = ysLost
      BY <3>1 DEF Launch, YsHistory
    <3> QED BY <1>0, <2>1, <3>2
  <2>2. CASE n \in DOMAIN ysProcs
    <3>1. ysProcs[n].runs
      BY <1>0, <1>2, <2>2 DEF YsGrown
    <3>2. n \notin ended /\ n \notin ysLost /\ \A j \in DOMAIN trace : ~Terminates(j, n)
      BY <2>2, <3>1 DEF YsEnds
    <3>3. ~Finish(n)
      BY <1>2, <2>2, YsFinishFacts
    <3>4. n \notin ysLost'
      <4>1. ASSUME NEW m \in DOMAIN ysProcs, Finish(m) PROVE n \notin ysLost'
        <5>1. m # n
          BY <3>3, <4>1
        <5> QED BY <3>2, <4>1, <5>1 DEF Finish
      <4>2. ASSUME ~\E m \in DOMAIN ysProcs : Finish(m) PROVE ysLost' = ysLost
        BY <4>2 DEF YsNext, Launch, Touch, Terminated, Hold, MapView, Allocated, ScanEmpty,
              ScanMatches, ysVars, YsHistory
      <4> QED BY <3>2, <4>1, <4>2
    <3>5. CASE trace' = trace /\ ended' = ended
      BY <3>2, <3>4, <3>5 DEF Terminates
    <3>6. ASSUME NEW m \in DOMAIN ysProcs, NEW y \in Kind \cup {"terminate"}, Adds(m, y)
          PROVE  ~Over(n) /\ \A j \in DOMAIN trace' : ~Comes(j, n)
      <4>1. y = "terminate" => m # n
        BY <3>3, <3>6 DEF Adds
      <4>2. ended' = ended
        BY <3>6 DEF Adds
      <4> QED BY <3>2, <3>4, <3>6, <4>1, <4>2, YsAddsFacts DEF Terminates
    <3>7. CASE Consumes
      <4>1. \A j \in DOMAIN trace' : ~Comes(j, n)
        BY <1>0, <3>2, <3>7, TailAt DEF Consumes, Terminates
      <4>2. 1 \in DOMAIN trace /\ Head(trace) = trace[1]
        BY <1>0, <3>7, TailAt DEF Consumes
      <4>3. n \notin ended'
        BY <3>2, <3>7, <4>2 DEF Consumes, Terminates
      <4> QED BY <3>4, <4>1, <4>3
    <3> QED BY <3>5, <3>6, <3>7, YsTraceCases
  <2> QED BY <2>1, <2>2
<1>3. ASSUME NEW n \in DOMAIN ysProcs', ~ysProcs'[n].runs
      PROVE  Over(n) \/ \E j \in DOMAIN trace' : Comes(j, n)
  <2>0. n \in DOMAIN ysProcs
    BY <1>3, YsNewCases
  <2>1. CASE ysProcs[n].runs
    <3>1. Finish(n)
      <4>1. ASSUME NEW p \in YsPid, Launch(p) PROVE FALSE
        <5>1. ysProcs'[n] = ysProcs[n]
          BY <2>0, <4>1, YsLaunchFacts
        <5> QED BY <1>3, <2>1, <5>1, Zenon
      <4>2. ASSUME NEW m \in DOMAIN ysProcs, Finish(m), m # n PROVE FALSE
        <5>1. ysProcs'[n] = ysProcs[n]
          BY <2>0, <4>2, YsFinishFacts
        <5> QED BY <1>3, <2>1, <5>1, Zenon
      <4>3. ASSUME ysProcs' = ysProcs PROVE FALSE
        BY <1>3, <2>1, <4>3, Zenon
      <4>4. ASSUME \/ \E m \in DOMAIN ysProcs, k \in Kind : Touch(m, k)
                   \/ Terminated \/ Hold \/ MapView
                   \/ \E a \in Actor : \/ \E m \in DOMAIN ysProcs : Allocated(a, m)
                                       \/ ScanEmpty(a) \/ ScanMatches(a)
                   \/ UNCHANGED ysVars
            PROVE  ysProcs' = ysProcs
        BY <4>4 DEF Touch, Terminated, Hold, MapView, Allocated, ScanEmpty, ScanMatches, ysVars
      <4> QED BY <4>1, <4>2, <4>3, <4>4 DEF YsNext
    <3>2. CASE ysLost' = ysLost \cup {n}
      BY <3>2
    <3>3. CASE trace' = Append(trace, [type |-> "terminate", n |-> n])
      <4>1. n \in Nat
        BY <1>0, <2>0, YsFields
      <4>2. PICK e \in YsEvent : e = [type |-> "terminate", n |-> n]
        BY <4>1 DEF YsEvent
      <4>3. Len(trace) + 1 \in DOMAIN trace' /\ trace'[Len(trace) + 1] = e
        BY <1>0, <3>3, <4>2, AppendAt
      <4> QED BY <4>2, <4>3
    <3> QED BY <3>1, <3>2, <3>3 DEF Finish
  <2>2. CASE ~ysProcs[n].runs
    <3>1. n \in ended \/ n \in ysLost \/ \E j \in DOMAIN trace : Terminates(j, n)
      BY <2>0, <2>2 DEF YsEnds
    <3>2. SUFFICES ASSUME NEW j \in DOMAIN trace, Terminates(j, n)
                   PROVE  Over(n) \/ \E i \in DOMAIN trace' : Comes(i, n)
      BY <1>0, <3>1 DEF YsGrown
    <3>3. CASE trace' = trace
      BY <3>2, <3>3 DEF Terminates
    <3>4. ASSUME NEW m \in DOMAIN ysProcs, NEW y \in Kind \cup {"terminate"}, Adds(m, y)
          PROVE  \E i \in DOMAIN trace' : Comes(i, n)
      BY <3>2, <3>4, YsAddsFacts DEF Terminates
    <3>5. CASE Consumes
      <4>1. CASE j # 1
        <5>1. j - 1 \in DOMAIN trace' /\ trace'[j - 1] = trace[j]
          BY <1>0, <3>5, <4>1, TailAt DEF Consumes
        <5> QED BY <3>2, <5>1 DEF Terminates
      <4>2. CASE j = 1
        <5>1. Head(trace) = trace[1]
          BY <1>0, <3>5, TailAt DEF Consumes
        <5> QED BY <3>2, <3>5, <4>2, <5>1 DEF Consumes, Terminates, Kind
      <4> QED BY <4>1, <4>2
    <3> QED BY <3>3, <3>4, <3>5, YsTraceCases
  <2> QED BY <2>1, <2>2
<1>4. ASSUME NEW j \in DOMAIN trace'
      PROVE  /\ trace'[j].n \notin ended'
             /\ trace'[j].type = "terminate" => trace'[j].n \notin ysLost'
             /\ \A i \in DOMAIN trace' : i < j => ~Comes(i, trace'[j].n)
  <2> DEFINE Fine(x) == /\ trace'[x].n \notin ended'
                        /\ trace'[x].type = "terminate" => trace'[x].n \notin ysLost'
                        /\ \A i \in DOMAIN trace' : i < x => ~Comes(i, trace'[x].n)
  <2>1. CASE trace' = trace /\ ended' = ended
    <3>1. trace[j].n \notin ended /\ \A i \in DOMAIN trace : i < j => ~Terminates(i, trace[j].n)
      BY <2>1 DEF YsEnds
    <3>2. ASSUME trace[j].type = "terminate", trace[j].n \in ysLost' PROVE FALSE
      <4>1. trace[j].n \in DOMAIN ysProcs /\ trace[j].n \notin ysLost /\ ~ysProcs[trace[j].n].runs
        BY <1>0, <2>1, <3>2 DEF YsEnds, Terminates
      <4>2. PICK m \in DOMAIN ysProcs : Finish(m)
        <5>1. ysLost' # ysLost
          BY <3>2, <4>1
        <5> QED BY <5>1 DEF YsNext, Launch, Touch, Terminated, Hold, MapView, Allocated,
                  ScanEmpty, ScanMatches, ysVars, YsHistory
      <4>3. trace[j].n = m
        BY <3>2, <4>1, <4>2 DEF Finish
      <4> QED BY <4>1, <4>2, <4>3 DEF Finish
    <3> QED BY <2>1, <3>1, <3>2 DEF Terminates
  <2>2. ASSUME NEW m \in DOMAIN ysProcs, NEW y \in Kind \cup {"terminate"}, Adds(m, y)
        PROVE  Fine(j)
    <3>1. m \notin ended /\ m \notin ysLost /\ \A i \in DOMAIN trace : ~Terminates(i, m)
      BY <2>2, YsAddsFacts DEF YsEnds
    <3>2. ended' = ended /\ ysLost' = ysLost
      BY <2>2 DEF Adds
    <3>3. CASE j \in DOMAIN trace
      <4>1. \A i \in DOMAIN trace' : i < j => i \in DOMAIN trace
        BY <1>0, <2>2, <3>3, YsAddsFacts
      <4> QED BY <2>2, <3>2, <3>3, <4>1, YsAddsFacts DEF YsEnds, Terminates
    <3>4. CASE j = Len(trace) + 1
      <4>1. trace'[j].n = m /\ \A i \in DOMAIN trace' : i < j => i \in DOMAIN trace
        BY <1>0, <2>2, <3>4, YsAddsFacts
      <4> QED BY <2>2, <3>1, <3>2, <4>1, YsAddsFacts DEF Terminates
    <3> QED BY <2>2, <3>3, <3>4, YsAddsFacts
  <2>3. CASE Consumes
    <3>1. /\ j + 1 \in DOMAIN trace /\ trace'[j] = trace[j + 1] /\ 1 \in DOMAIN trace
          /\ Head(trace) = trace[1] /\ j \in Nat \ {0}
          /\ \A i \in DOMAIN trace' : i + 1 \in DOMAIN trace /\ trace'[i] = trace[i + 1] /\ i \in Nat
      BY <2>3, YsTailFacts
    <3>2. 1 < j + 1
      BY <3>1
    <3>3. trace'[j].n \notin ended'
      <4>1. trace[j + 1].n \notin ended /\ ~Terminates(1, trace[j + 1].n)
        BY <3>1, <3>2 DEF YsEnds
      <4> QED BY <2>3, <3>1, <4>1 DEF Consumes, Terminates
    <3>4. ysLost' = ysLost
      BY <2>3 DEF Consumes
    <3>5. ASSUME NEW i \in DOMAIN trace', i < j PROVE ~Comes(i, trace'[j].n)
      <4>1. i + 1 < j + 1 /\ i + 1 \in DOMAIN trace /\ trace'[i] = trace[i + 1]
        BY <3>1, <3>5
      <4>2. ~Terminates(i + 1, trace[j + 1].n)
        BY <3>1, <4>1 DEF YsEnds
      <4> QED BY <3>1, <4>1, <4>2 DEF Terminates
    <3> QED BY <3>1, <3>3, <3>4, <3>5 DEF YsEnds
  <2> HIDE DEF Fine
  <2>4. Fine(j)
    BY <2>1, <2>2, <2>3, YsTraceCases DEF Fine
  <2> QED BY <2>4 DEF Fine
<1>5. \A n \in DOMAIN ysProcs' : \A b \in DOMAIN ysProcs' : Predecessor(b, n)' => ~ysProcs'[b].runs
  BY <1>1 DEF Predecessor
<1>6. ASSUME NEW n \in DOMAIN ysProcs'
      PROVE  (IF ysProcs[n].runs
              THEN n \notin ended \cup ysLost /\ \A j \in DOMAIN trace : ~Terminates(j, n)
              ELSE n \in ended \cup ysLost \/ \E j \in DOMAIN trace : Terminates(j, n))'
  BY <1>2, <1>3 DEF Terminates
<1> QED
  BY <1>4, <1>5, <1>6 DEF YsEnds, Terminates

LEMMA YsOrderedStep ==
    ASSUME YsTyped, YsEnds, YsOrdered, [YsNext]_ysVars
    PROVE  YsOrdered'
<1>0. /\ YsGrown /\ ysProcs \in Seq(YsProcess) /\ trace \in Seq(YsEvent)
      /\ \A j \in DOMAIN trace : trace[j].n \in DOMAIN ysProcs
  BY YsGrowth DEF YsTyped
<1>1. ASSUME NEW n \in DOMAIN ysProcs, NEW b \in DOMAIN ysProcs', b < n,
             ysProcs'[b].pid = ysProcs'[n].pid
      PROVE  Predecessor(b, n)
  <2>1. b \in DOMAIN ysProcs
    <3>1. ASSUME b \notin DOMAIN ysProcs PROVE FALSE
      <4>1. n < b /\ b \in Nat /\ n \in Nat
        BY <1>0, <3>1, YsNewCases DEF YsGrown
      <4> QED BY <1>1, <4>1
    <3> QED BY <3>1
  <2> QED BY <1>0, <1>1, <2>1 DEF YsGrown, Predecessor
<1> DEFINE Passed(b, j) ==
      \/ b \in ended' \/ b \in ysLost'
      \/ \E i \in DOMAIN trace' : i < j /\ trace'[i].type = "terminate" /\ trace'[i].n = b
<1>2. ASSUME NEW j \in DOMAIN trace', trace'[j].n \in DOMAIN ysProcs,
             NEW b \in DOMAIN ysProcs, Predecessor(b, trace'[j].n)
      PROVE  Passed(b, j)
  <2>1. CASE trace' = trace
    <3>1. b \in ended \/ b \in ysLost \/ \E i \in DOMAIN trace : i < j /\ Terminates(i, b)
      BY <1>2, <2>1 DEF YsOrdered
    <3> QED BY <1>0, <2>1, <3>1 DEF YsGrown, Terminates
  <2>2. ASSUME NEW m \in DOMAIN ysProcs, NEW y \in Kind \cup {"terminate"}, Adds(m, y)
        PROVE  Passed(b, j)
    <3>1. CASE j \in DOMAIN trace
      <4>1. trace'[j] = trace[j]
        BY <2>2, <3>1, YsAddsFacts
      <4>2. b \in ended \/ b \in ysLost \/ \E i \in DOMAIN trace : i < j /\ Terminates(i, b)
        BY <1>2, <3>1, <4>1 DEF YsOrdered
      <4> QED BY <1>0, <2>2, <4>2, YsAddsFacts DEF YsGrown, Terminates
    <3>2. CASE j = Len(trace) + 1
      <4>1. trace'[j].n = m
        BY <2>2, <3>2, YsAddsFacts
      <4>2. ~ysProcs[b].runs
        BY <1>2, <4>1 DEF YsEnds
      <4>3. b \in ended \/ b \in ysLost \/ \E i \in DOMAIN trace : Terminates(i, b)
        BY <4>2 DEF YsEnds
      <4> QED BY <1>0, <2>2, <3>2, <4>3, YsAddsFacts DEF YsGrown, Terminates
    <3> QED BY <2>2, <3>1, <3>2, YsAddsFacts
  <2>3. CASE Consumes
    <3>1. j + 1 \in DOMAIN trace /\ trace'[j] = trace[j + 1] /\ j \in Nat
      BY <2>3, YsTailFacts
    <3>2. b \in ended \/ b \in ysLost \/ \E i \in DOMAIN trace : i < j + 1 /\ Terminates(i, b)
      BY <1>2, <3>1 DEF YsOrdered
    <3>3. ASSUME NEW i \in DOMAIN trace, i < j + 1, Terminates(i, b) PROVE Passed(b, j)
      <4>1. CASE i = 1
        BY <2>3, <3>3, <4>1, YsTailFacts DEF Consumes, Terminates, Kind
      <4>2. CASE i # 1
        <5>1. i - 1 \in DOMAIN trace' /\ trace'[i - 1] = trace[i]
          BY <2>3, <4>2, YsTailFacts
        <5>2. i - 1 < j
          BY <1>0, <3>1, <3>3
        <5> QED BY <3>3, <5>1, <5>2 DEF Terminates
      <4> QED BY <4>1, <4>2
    <3> QED BY <1>0, <3>2, <3>3 DEF YsGrown
  <2> QED BY <2>1, <2>2, <2>3, YsTraceCases
<1>3. ASSUME NEW j \in DOMAIN trace', NEW i \in DOMAIN trace', trace'[j].n \in DOMAIN ysProcs,
             Predecessor(trace'[i].n, trace'[j].n)
      PROVE  i < j
  <2>1. CASE trace' = trace
    BY <1>3, <2>1 DEF YsOrdered
  <2>2. ASSUME NEW m \in DOMAIN ysProcs, NEW y \in Kind \cup {"terminate"}, Adds(m, y)
        PROVE  i < j
    <3>1. CASE i \in DOMAIN trace /\ j \in DOMAIN trace
      BY <1>3, <2>2, <3>1, YsAddsFacts DEF YsOrdered
    <3>2. CASE j = Len(trace) + 1 /\ i \in DOMAIN trace
      BY <2>2, <3>2, YsAddsFacts
    <3>3. CASE i = Len(trace) + 1
      <4>1. trace'[i].n = m /\ ysProcs[m].runs
        BY <2>2, <3>3, YsAddsFacts
      <4>2. ~ysProcs[m].runs
        BY <1>3, <4>1 DEF YsEnds
      <4> QED BY <4>1, <4>2
    <3> QED BY <2>2, <3>1, <3>2, <3>3, YsAddsFacts
  <2>3. CASE Consumes
    <3>1. /\ j + 1 \in DOMAIN trace /\ trace'[j] = trace[j + 1] /\ j \in Nat
          /\ i + 1 \in DOMAIN trace /\ trace'[i] = trace[i + 1] /\ i \in Nat
      BY <2>3, YsTailFacts
    <3>2. i + 1 < j + 1
      BY <1>3, <3>1 DEF YsOrdered
    <3> QED BY <3>1, <3>2
  <2> QED BY <2>1, <2>2, <2>3, YsTraceCases
<1>4. ASSUME NEW j \in DOMAIN trace' PROVE trace'[j].n \in DOMAIN ysProcs
  <2>1. CASE trace' = trace
    BY <1>0, <2>1
  <2>2. ASSUME NEW m \in DOMAIN ysProcs, NEW y \in Kind \cup {"terminate"}, Adds(m, y)
        PROVE  trace'[j].n \in DOMAIN ysProcs
    BY <1>0, <2>2, YsAddsFacts
  <2>3. CASE Consumes
    BY <1>0, <2>3, YsTailFacts
  <2> QED BY <2>1, <2>2, <2>3, YsTraceCases
<1>5. ASSUME NEW j \in DOMAIN trace', NEW b \in DOMAIN ysProcs', b < trace'[j].n,
             ysProcs'[b].pid = ysProcs'[trace'[j].n].pid
      PROVE  Passed(b, j) /\ \A i \in DOMAIN trace' : trace'[i].n = b => i < j
  <2>1. Predecessor(b, trace'[j].n) /\ b \in DOMAIN ysProcs
    BY <1>1, <1>4, <1>5 DEF Predecessor
  <2> HIDE DEF Passed
  <2> QED BY <1>2, <1>3, <1>4, <2>1
<1>6. \A j \in DOMAIN trace' : trace'[j].n \in DOMAIN ysProcs'
  BY <1>0, <1>4 DEF YsGrown
<1> QED
  BY <1>5, <1>6 DEF YsOrdered, Predecessor, Terminates

\* A scan that is new comes from an event of a process without an entry.
LEMMA YsScanCases ==
    ASSUME YsTyped, [YsNext]_ysVars, NEW b \in Actor, NEW k, NEW n,
           ysScan'[b] = <<[kind |-> k, n |-> n]>>
    PROVE  \/ ScansFor(b, k, n)
           \/ /\ MapView /\ b = "consumer" /\ k = "mmap" /\ n = trace[1].n
              /\ matched["mmap"][ysProcs[n].pid] = 0
           \/ /\ n \in DOMAIN ysProcs /\ Allocated(b, n) /\ k = "rwx"
              /\ matched["rwx"][ysProcs[n].pid] = 0
<1>0. DOMAIN ysScan = Actor /\ trace \in Seq(YsEvent)
  BY DEF YsTyped
<1>1. CASE ysScan'[b] = ysScan[b]
  BY <1>1 DEF ScansFor
<1>2. ASSUME NEW a \in Actor, NEW l, NEW m, Begin(a, l, m), ysScan'[b] # ysScan[b]
      PROVE  a = b /\ k = l /\ n = m /\ matched[l][ysProcs[m].pid] = 0
  <2>1. ysScan' = [ysScan EXCEPT ![a] = <<[kind |-> l, n |-> m]>>] /\ matched[l][ysProcs[m].pid] = 0
    BY <1>2 DEF Begin, Matched
  <2>2. a = b /\ ysScan'[b] = <<[kind |-> l, n |-> m]>>
    BY <1>0, <1>2, <2>1
  <2> QED BY <2>1, <2>2, YsScanIs
<1>3. CASE MapView
  <2>1. Begin("consumer", "mmap", Head(trace).n) /\ trace # <<>>
    BY <1>3 DEF MapView
  <2>2. Head(trace) = trace[1]
    BY <1>0, <2>1, TailAt
  <2> QED BY <1>1, <1>2, <1>3, <2>1, <2>2 DEF Actor
<1>4. ASSUME NEW a \in Actor, NEW m \in DOMAIN ysProcs, Allocated(a, m), ysScan'[b] # ysScan[b]
      PROVE  a = b /\ m = n /\ k = "rwx" /\ matched["rwx"][ysProcs[n].pid] = 0
  <2>1. Begin(a, "rwx", m)
    BY <1>4 DEF Allocated
  <2> QED BY <1>2, <1>4, <2>1
<1>5. ASSUME NEW a \in Actor, ScanEmpty(a) \/ ScanMatches(a), ysScan'[b] # ysScan[b]
      PROVE  FALSE
  <2>1. ysScan' = [ysScan EXCEPT ![a] = <<>>]
    BY <1>5 DEF ScanEmpty, ScanMatches
  <2>2. ysScan'[b] = <<>>
    BY <1>0, <1>5, <2>1
  <2> QED BY <2>2, YsScanIs
<1>6. ASSUME \/ \E p \in YsPid : Launch(p)
             \/ \E m \in DOMAIN ysProcs : Finish(m) \/ \E l \in Kind : Touch(m, l)
             \/ Terminated \/ Hold \/ UNCHANGED ysVars
      PROVE  ysScan' = ysScan
  BY <1>6 DEF Launch, Finish, Touch, Terminated, Hold, ysVars
<1> QED
  BY <1>1, <1>3, <1>4, <1>5, <1>6 DEF YsNext

\* What a match changes.
LEMMA YsScanMatchesFacts ==
    ASSUME YsTyped, NEW a \in Actor, ScanMatches(a)
    PROVE  \E k \in Kind, n \in DOMAIN ysProcs :
              /\ ScansFor(a, k, n)
              /\ matched' = [matched EXCEPT ![k][ysProcs[n].pid] = n]
              /\ alerts' = alerts \/ alerts' = [alerts EXCEPT ![n][k] = @ + 1]
              /\ n \in ended => n \in ysLate'
              /\ ysScan'[a] = <<>>
<1>1. PICK k \in Kind, n \in DOMAIN ysProcs : ysScan[a] = <<[kind |-> k, n |-> n]>>
  BY DEF YsTyped, ScanMatches
<1>2. ysScan[a][1].kind = k /\ ysScan[a][1].n = n
  BY <1>1, YsScanIs
<1>3. /\ matched' = [matched EXCEPT ![k][ysProcs[n].pid] = n]
      /\ n \in ended => n \in ysLate'
      /\ alerts' = alerts \/ alerts' = [alerts EXCEPT ![n][k] = @ + 1]
  BY <1>2 DEF ScanMatches
<1>4. ysScan'[a] = <<>>
  BY DEF ScanMatches, YsTyped
<1> QED BY <1>1, <1>3, <1>4 DEF ScansFor

LEMMA YsMatchedCases ==
    ASSUME YsTyped, [YsNext]_ysVars
    PROVE  /\ matched' \in [Kind -> [YsPid -> Nat]]
           /\ \A k \in Kind, p \in YsPid :
                 \/ /\ matched'[k][p] = matched[k][p]
                    /\ Terminated => p # ysProcs[trace[1].n].pid
                 \/ Terminated /\ p = ysProcs[trace[1].n].pid /\ matched'[k][p] = 0
                 \/ \E a \in Actor, n \in DOMAIN ysProcs :
                       /\ ScanMatches(a) /\ ScansFor(a, k, n) /\ p = ysProcs[n].pid
                       /\ matched'[k][p] = n
<1>0. /\ matched \in [Kind -> [YsPid -> Nat]] /\ trace \in Seq(YsEvent) /\ ysProcs \in Seq(YsProcess)
      /\ \A j \in DOMAIN trace : trace[j].n \in DOMAIN ysProcs
  BY DEF YsTyped
<1> DEFINE Fine ==
      /\ matched' \in [Kind -> [YsPid -> Nat]]
      /\ \A k \in Kind, p \in YsPid :
            \/ /\ matched'[k][p] = matched[k][p]
               /\ Terminated => p # ysProcs[trace[1].n].pid
            \/ Terminated /\ p = ysProcs[trace[1].n].pid /\ matched'[k][p] = 0
            \/ \E a \in Actor, n \in DOMAIN ysProcs :
                  /\ ScanMatches(a) /\ ScansFor(a, k, n) /\ p = ysProcs[n].pid
                  /\ matched'[k][p] = n
<1>1. CASE Terminated
  <2>1. trace # <<>> /\ matched' = CleanMatches(matched, ysProcs[Head(trace).n].pid)
    BY <1>1 DEF Terminated
  <2>2. Head(trace) = trace[1] /\ 1 \in DOMAIN trace
    BY <1>0, <2>1, TailAt
  <2>3. PICK q \in YsPid : q = ysProcs[trace[1].n].pid
    BY <1>0, <2>2, YsFields
  <2>4. matched' = [k \in Kind |-> [matched[k] EXCEPT ![q] = 0]]
    BY <2>1, <2>2, <2>3 DEF CleanMatches
  <2>5. \A k \in Kind : matched'[k] = [matched[k] EXCEPT ![q] = 0]
    BY <2>4
  <2>6. \A k \in Kind : matched[k] \in [YsPid -> Nat]
    BY <1>0
  <2>7. ASSUME NEW k \in Kind PROVE matched'[k] \in [YsPid -> Nat]
    <3>1. matched'[k] = [matched[k] EXCEPT ![q] = 0] /\ matched[k] \in [YsPid -> Nat] /\ 0 \in Nat
      BY <2>5, <2>6
    <3> QED BY <3>1
  <2>8. \A k \in Kind, p \in YsPid : matched'[k][p] = IF p = q THEN 0 ELSE matched[k][p]
    BY <2>5, <2>6
  <2> QED BY <1>1, <2>3, <2>4, <2>7, <2>8
<1>2. ASSUME NEW a \in Actor, ScanMatches(a) PROVE Fine
  <2>1. PICK l \in Kind, n \in DOMAIN ysProcs :
              ScansFor(a, l, n) /\ matched' = [matched EXCEPT ![l][ysProcs[n].pid] = n]
    BY <1>2, YsScanMatchesFacts
  <2>2. PICK q \in YsPid : q = ysProcs[n].pid
    BY <1>0, YsFields
  <2>3. n \in Nat
    BY <1>0, YsFields
  <2>4. \A k \in Kind : matched[k] \in [YsPid -> Nat]
    BY <1>0
  <2>5. matched' = [matched EXCEPT ![l] = [matched[l] EXCEPT ![q] = n]]
    BY <2>1, <2>2
  <2>6. [matched[l] EXCEPT ![q] = n] \in [YsPid -> Nat]
    BY <2>3, <2>4
  <2>7. matched' \in [Kind -> [YsPid -> Nat]]
    BY <1>0, <2>5, <2>6
  <2>8. \A k \in Kind, p \in YsPid :
           matched'[k][p] = IF k = l /\ p = q THEN n ELSE matched[k][p]
    BY <1>0, <2>4, <2>5
  <2>9. ~Terminated
    <3>1. ASSUME Terminated PROVE FALSE
      <4>1. ysScan[a] # <<>> /\ ysScan' = [ysScan EXCEPT ![a] = <<>>] /\ ysScan' = ysScan
        BY <1>2, <3>1 DEF ScanMatches, Terminated
      <4>2. ysScan'[a] = <<>>
        BY <4>1 DEF YsTyped
      <4> QED BY <4>1, <4>2
    <3> QED BY <3>1
  <2> QED BY <1>2, <2>1, <2>2, <2>7, <2>8, <2>9
<1>3. ASSUME matched' = matched, ~Terminated PROVE Fine
  BY <1>0, <1>3
<1>4. ASSUME \/ \E p \in YsPid : Launch(p)
             \/ \E m \in DOMAIN ysProcs : Finish(m) \/ \E l \in Kind : Touch(m, l)
             \/ Hold \/ MapView
             \/ \E a \in Actor : (\E m \in DOMAIN ysProcs : Allocated(a, m)) \/ ScanEmpty(a)
             \/ UNCHANGED ysVars
      PROVE  matched' = matched
  BY <1>4 DEF Launch, Finish, Touch, Hold, MapView, Allocated, ScanEmpty, ysVars
<1> HIDE DEF Fine
<1>5. Fine
  BY <1>1, <1>2, <1>3, <1>4 DEF YsNext, Fine
<1> QED BY <1>5 DEF Fine

LEMMA YsAlertsCases ==
    ASSUME YsTyped, [YsNext]_ysVars
    PROVE  /\ alerts' \in [1 .. YsProcs -> [Kind -> Nat]]
           /\ \A n \in 1 .. YsProcs, k \in Kind :
                 \/ alerts'[n][k] = alerts[n][k]
                 \/ \E a \in Actor : /\ ScanMatches(a) /\ ScansFor(a, k, n) /\ n \in DOMAIN ysProcs
                                     /\ alerts'[n][k] = alerts[n][k] + 1
<1>0. /\ alerts \in [1 .. YsProcs -> [Kind -> Nat]] /\ DOMAIN ysProcs \subseteq 1 .. YsProcs
  <2>1. ysProcs \in Seq(YsProcess) /\ Len(ysProcs) <= YsProcs
    BY DEF YsTyped
  <2> QED BY <2>1, YsAssumption DEF YsTyped
<1> DEFINE Fine ==
      /\ alerts' \in [1 .. YsProcs -> [Kind -> Nat]]
      /\ \A n \in 1 .. YsProcs, k \in Kind :
            \/ alerts'[n][k] = alerts[n][k]
            \/ \E a \in Actor : /\ ScanMatches(a) /\ ScansFor(a, k, n) /\ n \in DOMAIN ysProcs
                                /\ alerts'[n][k] = alerts[n][k] + 1
<1>1. ASSUME alerts' = alerts PROVE Fine
  BY <1>0, <1>1
<1>2. ASSUME NEW a \in Actor, ScanMatches(a), alerts' # alerts PROVE Fine
  <2>1. PICK l \in Kind, m \in DOMAIN ysProcs :
              ScansFor(a, l, m) /\ alerts' = [alerts EXCEPT ![m][l] = @ + 1]
    BY <1>2, YsScanMatchesFacts
  <2>2. alerts[m] \in [Kind -> Nat] /\ alerts[m][l] \in Nat /\ m \in 1 .. YsProcs
    BY <1>0
  <2>3. alerts' = [alerts EXCEPT ![m] = [alerts[m] EXCEPT ![l] = alerts[m][l] + 1]]
    BY <2>1
  <2>4. [alerts[m] EXCEPT ![l] = alerts[m][l] + 1] \in [Kind -> Nat]
    BY <2>2
  <2>5. alerts' \in [1 .. YsProcs -> [Kind -> Nat]]
    BY <1>0, <2>3, <2>4
  <2>6. \A n \in 1 .. YsProcs, k \in Kind :
           alerts'[n][k] = IF n = m /\ k = l THEN alerts[n][k] + 1 ELSE alerts[n][k]
    BY <1>0, <2>2, <2>3
  <2> QED BY <1>2, <2>1, <2>5, <2>6
<1>3. ASSUME ~\E a \in Actor : ScanMatches(a) PROVE alerts' = alerts
  BY <1>3 DEF YsNext, Launch, Finish, Touch, Terminated, Hold, MapView, Allocated, ScanEmpty,
        ysVars, YsHistory
<1> HIDE DEF Fine
<1>4. Fine
  BY <1>1, <1>2, <1>3
<1> QED BY <1>4 DEF Fine

LEMMA YsHeldCases ==
    ASSUME YsTyped, [YsNext]_ysVars
    PROVE  /\ held' \in [1 .. YsProcs -> Nat]
           /\ \A n \in 1 .. YsProcs : held'[n] > 0 =>
                 held[n] > 0 \/ (Hold /\ n = trace[1].n /\ n \in DOMAIN ysProcs)
<1>0. /\ held \in [1 .. YsProcs -> Nat] /\ DOMAIN ysProcs \subseteq 1 .. YsProcs
      /\ trace \in Seq(YsEvent) /\ \A j \in DOMAIN trace : trace[j].n \in DOMAIN ysProcs
  <2>1. ysProcs \in Seq(YsProcess) /\ Len(ysProcs) <= YsProcs
    BY DEF YsTyped
  <2> QED BY <2>1, YsAssumption DEF YsTyped
<1>1. CASE held' = held
  BY <1>0, <1>1
<1>2. CASE Hold
  <2>1. trace # <<>> /\ held' = [held EXCEPT ![Head(trace).n] = @ + 1]
    BY <1>2 DEF Hold
  <2>2. Head(trace) = trace[1] /\ 1 \in DOMAIN trace
    BY <1>0, <2>1, TailAt
  <2>3. PICK m \in DOMAIN ysProcs : m = trace[1].n
    BY <1>0, <2>2
  <2>4. m \in 1 .. YsProcs /\ held[m] \in Nat /\ held' = [held EXCEPT ![m] = held[m] + 1]
    BY <1>0, <2>1, <2>2, <2>3
  <2>5. held' \in [1 .. YsProcs -> Nat] /\ \A n \in 1 .. YsProcs : n # m => held'[n] = held[n]
    BY <1>0, <2>4
  <2> QED BY <1>2, <2>3, <2>5
<1>3. ASSUME NEW a \in Actor, NEW m \in DOMAIN ysProcs, Allocated(a, m)
      PROVE  /\ held' \in [1 .. YsProcs -> Nat]
             /\ \A n \in 1 .. YsProcs : held'[n] > 0 => held[n] > 0
  <2>1. m \in 1 .. YsProcs /\ held[m] \in Nat /\ held[m] > 0 /\ held' = [held EXCEPT ![m] = held[m] - 1]
    BY <1>0, <1>3 DEF Allocated
  <2> QED BY <1>0, <2>1
<1>4. ASSUME ~Hold, ~\E a \in Actor, m \in DOMAIN ysProcs : Allocated(a, m) PROVE held' = held
  BY <1>4 DEF YsNext, Launch, Finish, Touch, Terminated, MapView, ScanEmpty, ScanMatches, ysVars
<1> QED
  BY <1>1, <1>2, <1>3, <1>4

\* An event that is spared, and why.
LEMMA YsSparedCases ==
    ASSUME YsTyped, [YsNext]_ysVars, NEW x \in spared', x \notin spared
    PROVE  \E k \in Kind, n \in DOMAIN ysProcs :
              /\ x = [kind |-> k, n |-> n, by |-> matched[k][ysProcs[n].pid]]
              /\ matched[k][ysProcs[n].pid] # 0 /\ ysProcs' = ysProcs
              /\ \/ k = "mmap" /\ MapView /\ n = trace[1].n /\ 1 \in DOMAIN trace
                 \/ k = "rwx" /\ held[n] > 0
<1>0. trace \in Seq(YsEvent) /\ \A j \in DOMAIN trace : trace[j].n \in DOMAIN ysProcs
  BY DEF YsTyped
<1>1. ASSUME NEW a, NEW k, NEW n, Begin(a, k, n)
      PROVE  /\ x = [kind |-> k, n |-> n, by |-> matched[k][ysProcs[n].pid]]
             /\ matched[k][ysProcs[n].pid] # 0
  BY <1>1 DEF Begin, Matched
<1>2. ASSUME MapView
      PROVE  /\ trace[1].n \in DOMAIN ysProcs /\ 1 \in DOMAIN trace /\ ysProcs' = ysProcs
             /\ Begin("consumer", "mmap", trace[1].n)
  <2>1. trace # <<>> /\ Begin("consumer", "mmap", Head(trace).n) /\ ysProcs' = ysProcs
    BY <1>2 DEF MapView
  <2>2. Head(trace) = trace[1] /\ 1 \in DOMAIN trace
    BY <1>0, <2>1, TailAt
  <2> QED BY <1>0, <2>1, <2>2
<1>3. ASSUME NEW a \in Actor, NEW n \in DOMAIN ysProcs, Allocated(a, n)
      PROVE  held[n] > 0 /\ Begin(a, "rwx", n) /\ ysProcs' = ysProcs
  BY <1>3 DEF Allocated
<1>4. ASSUME ~MapView, ~\E a \in Actor, n \in DOMAIN ysProcs : Allocated(a, n)
      PROVE  spared' = spared
  BY <1>4 DEF YsNext, Launch, Finish, Touch, Terminated, Hold, ScanEmpty, ScanMatches, ysVars,
        YsHistory
<1>5. "mmap" \in Kind /\ "rwx" \in Kind
  BY DEF Kind
<1>6. CASE MapView
  BY <1>1, <1>2, <1>5, <1>6
<1>7. ASSUME NEW a \in Actor, NEW n \in DOMAIN ysProcs, Allocated(a, n)
      PROVE  /\ x = [kind |-> "rwx", n |-> n, by |-> matched["rwx"][ysProcs[n].pid]]
             /\ matched["rwx"][ysProcs[n].pid] # 0 /\ ysProcs' = ysProcs /\ held[n] > 0
  BY <1>1, <1>3, <1>7
<1> QED
  BY <1>4, <1>5, <1>6, <1>7

LEMMA YsTypedStep ==
    ASSUME YsTyped, [YsNext]_ysVars
    PROVE  YsTyped'
<1>0. /\ YsGrown /\ ysProcs \in Seq(YsProcess) /\ trace \in Seq(YsEvent)
      /\ \A j \in DOMAIN trace : trace[j].n \in DOMAIN ysProcs
      /\ DOMAIN ysProcs \subseteq DOMAIN ysProcs'
  BY YsGrowth DEF YsTyped, YsGrown
<1>1. trace' \in Seq(YsEvent) /\ \A j \in DOMAIN trace' : trace'[j].n \in DOMAIN ysProcs'
  <2>1. CASE trace' = trace
    BY <1>0, <2>1
  <2>2. ASSUME NEW m \in DOMAIN ysProcs, NEW y \in Kind \cup {"terminate"}, Adds(m, y)
        PROVE  trace' \in Seq(YsEvent) /\ \A j \in DOMAIN trace' : trace'[j].n \in DOMAIN ysProcs'
    BY <1>0, <2>2, YsAddsFacts
  <2>3. CASE Consumes
    BY <1>0, <2>3, YsTailFacts
  <2> QED BY <2>1, <2>2, <2>3, YsTraceCases
<1>2. ASSUME NEW k \in Kind, NEW p \in YsPid, matched'[k][p] # 0
      PROVE  matched'[k][p] \in DOMAIN ysProcs' /\ ysProcs'[matched'[k][p]].pid = p
  <2>1. matched'[k][p] \in DOMAIN ysProcs /\ ysProcs[matched'[k][p]].pid = p
    <3>1. CASE matched'[k][p] = matched[k][p]
      BY <1>2, <3>1 DEF YsTyped
    <3>2. ASSUME NEW n \in DOMAIN ysProcs, p = ysProcs[n].pid, matched'[k][p] = n
          PROVE  matched'[k][p] \in DOMAIN ysProcs /\ ysProcs[matched'[k][p]].pid = p
      BY <3>2
    <3> QED BY <1>2, <3>1, <3>2, YsMatchedCases
  <2> QED BY <1>0, <2>1 DEF YsGrown
<1>3. DOMAIN ysScan' = Actor
  <2>1. DOMAIN ysScan = Actor
    BY DEF YsTyped
  <2> QED
    BY <2>1 DEF YsNext, Launch, Finish, Touch, Terminated, Hold, MapView, Allocated, Begin,
          ScanEmpty, ScanMatches, ysVars
<1>4. ASSUME NEW b \in Actor, ysScan'[b] # <<>>
      PROVE  \E k \in Kind, n \in DOMAIN ysProcs' : ysScan'[b] = <<[kind |-> k, n |-> n]>>
  <2>0. DOMAIN ysScan = Actor
    BY DEF YsTyped
  <2>1. ASSUME NEW a \in Actor, NEW k \in Kind, NEW n \in DOMAIN ysProcs, Begin(a, k, n),
               ysScan'[b] # ysScan[b]
        PROVE  ysScan'[b] = <<[kind |-> k, n |-> n]>>
    BY <2>0, <2>1 DEF Begin
  <2>2. CASE ysScan'[b] = ysScan[b]
    BY <1>0, <1>4, <2>2 DEF YsTyped
  <2>3. CASE MapView
    <3>1. trace # <<>> /\ Begin("consumer", "mmap", Head(trace).n)
      BY <2>3 DEF MapView
    <3>2. PICK n \in DOMAIN ysProcs : Begin("consumer", "mmap", n)
      BY <1>0, <3>1, TailAt
    <3> QED BY <1>0, <2>1, <2>2, <3>2 DEF Kind, Actor
  <2>4. ASSUME NEW a \in Actor, NEW n \in DOMAIN ysProcs, Allocated(a, n), ysScan'[b] # ysScan[b]
        PROVE  ysScan'[b] = <<[kind |-> "rwx", n |-> n]>>
    <3>1. Begin(a, "rwx", n) /\ "rwx" \in Kind
      BY <2>4 DEF Allocated, Kind
    <3> QED BY <2>1, <2>4, <3>1
  <2>5. ASSUME NEW a \in Actor, ScanEmpty(a) \/ ScanMatches(a) PROVE ysScan'[b] = ysScan[b]
    BY <1>4, <2>0, <2>5 DEF ScanEmpty, ScanMatches
  <2>6. ASSUME \/ \E p \in YsPid : Launch(p)
               \/ \E m \in DOMAIN ysProcs : Finish(m) \/ \E l \in Kind : Touch(m, l)
               \/ Terminated \/ Hold \/ UNCHANGED ysVars
        PROVE  ysScan' = ysScan
    BY <2>6 DEF Launch, Finish, Touch, Terminated, Hold, ysVars
  <2>7. "rwx" \in Kind
    BY DEF Kind
  <2> QED BY <1>0, <2>2, <2>3, <2>4, <2>5, <2>6, <2>7 DEF YsNext
<1>5. ended' \subseteq DOMAIN ysProcs' /\ ysLost' \subseteq DOMAIN ysProcs'
  <2>1. ended \subseteq DOMAIN ysProcs /\ ysLost \subseteq DOMAIN ysProcs
    BY DEF YsTyped
  <2>2. ended' \subseteq DOMAIN ysProcs
    <3>1. CASE Consumes
      BY <1>0, <2>1, <3>1, YsTailFacts DEF Consumes
    <3>2. CASE ended' = ended
      BY <2>1, <3>2
    <3>3. ASSUME NEW m \in DOMAIN ysProcs, NEW y \in Kind \cup {"terminate"}, Adds(m, y)
          PROVE  ended' = ended
      BY <3>3 DEF Adds
    <3> QED BY <3>1, <3>2, <3>3, YsTraceCases
  <2>3. ysLost' \subseteq DOMAIN ysProcs
    <3>1. ASSUME NEW m \in DOMAIN ysProcs, Finish(m) PROVE ysLost' \subseteq DOMAIN ysProcs
      BY <2>1, <3>1 DEF Finish
    <3>2. ASSUME ~\E m \in DOMAIN ysProcs : Finish(m) PROVE ysLost' = ysLost
      BY <3>2 DEF YsNext, Launch, Touch, Terminated, Hold, MapView, Allocated, ScanEmpty,
            ScanMatches, ysVars, YsHistory
    <3> QED BY <2>1, <3>1, <3>2
  <2> QED BY <1>0, <2>2, <2>3
<1>6. spared' \subseteq [kind : Kind, n : DOMAIN ysProcs', by : DOMAIN ysProcs']
  <2>1. SUFFICES ASSUME NEW x \in spared'
                 PROVE  x \in [kind : Kind, n : DOMAIN ysProcs', by : DOMAIN ysProcs']
    OBVIOUS
  <2>2. CASE x \in spared
    <3>1. x \in [kind : Kind, n : DOMAIN ysProcs, by : DOMAIN ysProcs]
      BY <2>2 DEF YsTyped
    <3> QED BY <1>0, <3>1
  <2>3. CASE x \notin spared
    <3>1. PICK k \in Kind, n \in DOMAIN ysProcs :
              /\ x = [kind |-> k, n |-> n, by |-> matched[k][ysProcs[n].pid]]
              /\ matched[k][ysProcs[n].pid] # 0
      BY <2>3, YsSparedCases
    <3>2. ysProcs[n].pid \in YsPid
      BY <1>0, YsFields
    <3>3. matched[k][ysProcs[n].pid] \in DOMAIN ysProcs
      BY <3>1, <3>2 DEF YsTyped
    <3> QED BY <1>0, <3>1, <3>3
  <2> QED BY <2>2, <2>3
<1>7. ASSUME NEW n \in 1 .. YsProcs, n \notin DOMAIN ysProcs'
      PROVE  held'[n] = 0 /\ \A k \in Kind : alerts'[n][k] = 0
  <2>1. n \notin DOMAIN ysProcs
    BY <1>0, <1>7
  <2>2. held[n] = 0 /\ \A k \in Kind : alerts[n][k] = 0
    BY <2>1 DEF YsTyped
  <2>3. held'[n] = 0
    <3>1. held' \in [1 .. YsProcs -> Nat]
      BY YsHeldCases
    <3>2. held'[n] \in Nat
      BY <3>1
    <3>3. held'[n] > 0 => held[n] > 0 \/ n \in DOMAIN ysProcs
      BY YsHeldCases
    <3> QED BY <2>1, <2>2, <3>2, <3>3
  <2> QED BY <2>1, <2>2, <2>3, YsAlertsCases
<1> QED
  BY <1>0, <1>1, <1>2, <1>3, <1>4, <1>5, <1>6, <1>7, YsMatchedCases, YsAlertsCases, YsHeldCases
     DEF YsTyped, YsGrown

LEMMA YsSeenStep ==
    ASSUME YsTyped, YsOrdered, YsSeen, [YsNext]_ysVars
    PROVE  YsSeen'
<1>0. /\ YsGrown /\ ysProcs \in Seq(YsProcess) /\ trace \in Seq(YsEvent)
      /\ \A j \in DOMAIN trace : trace[j].n \in DOMAIN ysProcs
      /\ DOMAIN ysProcs \subseteq DOMAIN ysProcs' /\ Len(ysProcs') <= YsProcs
      /\ ysProcs' \in Seq(YsProcess)
  BY YsGrowth DEF YsTyped, YsGrown
<1> DEFINE SeenNow(n) ==
      \/ held'[n] > 0 \/ \E k \in Kind : alerts'[n][k] > 0 \/ matched'[k][ysProcs'[n].pid] = n
      \/ \E a \in Actor, k \in Kind : ysScan'[a] = <<[kind |-> k, n |-> n]>>
\* What is seen first is at the head of the trace.
<1>1. ASSUME NEW n \in DOMAIN ysProcs', SeenNow(n)
      PROVE  /\ n \in DOMAIN ysProcs
             /\ Seen(n) \/ (1 \in DOMAIN trace /\ n = trace[1].n)
  <2>0. n \in 1 .. YsProcs /\ n # 0 /\ ysProcs'[n].pid \in YsPid
    <3>1. ysProcs'[n] \in YsProcess /\ n \in 1 .. Len(ysProcs') /\ Len(ysProcs') \in Nat
      BY <1>0
    <3>2. n \in 1 .. YsProcs /\ n # 0
      BY <1>0, <3>1, YsAssumption
    <3>3. ysProcs'[n].pid \in YsPid
      BY <3>1 DEF YsProcess
    <3> QED BY <3>2, <3>3
  <2>1. ASSUME held'[n] > 0
        PROVE  n \in DOMAIN ysProcs /\ (Seen(n) \/ (1 \in DOMAIN trace /\ n = trace[1].n))
    <3>1. held[n] > 0 => n \in DOMAIN ysProcs
      BY <2>0 DEF YsTyped
    <3>2. Hold => 1 \in DOMAIN trace
      BY <1>0, TailAt DEF Hold
    <3> QED BY <2>0, <2>1, <3>1, <3>2, YsHeldCases DEF Seen
  <2>2. ASSUME NEW k \in Kind, alerts'[n][k] > 0
        PROVE  n \in DOMAIN ysProcs /\ Seen(n)
    <3>1. alerts[n][k] > 0 => n \in DOMAIN ysProcs
      BY <2>0 DEF YsTyped
    <3>2. alerts[n][k] > 0 \/ (n \in DOMAIN ysProcs /\ \E a \in Actor : ScansFor(a, k, n))
      BY <2>0, <2>2, YsAlertsCases
    <3> QED BY <3>1, <3>2 DEF Seen
  <2>3. ASSUME NEW k \in Kind, matched'[k][ysProcs'[n].pid] = n
        PROVE  n \in DOMAIN ysProcs /\ Seen(n)
    <3>1. PICK p \in YsPid : p = ysProcs'[n].pid
      BY <2>0
    <3>2. matched[k][p] = n \/ \E a \in Actor : n \in DOMAIN ysProcs /\ ScansFor(a, k, n)
      BY <2>0, <2>3, <3>1, YsMatchedCases
    <3>3. matched[k][p] = n => n \in DOMAIN ysProcs /\ ysProcs[n].pid = p
      BY <2>0 DEF YsTyped
    <3> QED BY <3>2, <3>3 DEF Seen
  <2>4. ASSUME NEW a \in Actor, NEW k \in Kind, ysScan'[a] = <<[kind |-> k, n |-> n]>>
        PROVE  n \in DOMAIN ysProcs /\ (Seen(n) \/ (1 \in DOMAIN trace /\ n = trace[1].n))
    <3>1. CASE ScansFor(a, k, n)
      <4>1. PICK l \in Kind, m \in DOMAIN ysProcs : ysScan[a] = <<[kind |-> l, n |-> m]>>
        BY <3>1, YsScanIs DEF ScansFor, YsTyped
      <4>2. n = m
        BY <3>1, <4>1, YsScanIs DEF ScansFor
      <4> QED BY <3>1, <4>2 DEF Seen
    <3>2. CASE MapView /\ n = trace[1].n
      <4>1. 1 \in DOMAIN trace
        BY <1>0, <3>2, TailAt DEF MapView
      <4> QED BY <1>0, <3>2, <4>1
    <3>3. CASE n \in DOMAIN ysProcs /\ Allocated(a, n)
      BY <3>3 DEF Allocated, Seen
    <3> QED BY <2>4, <3>1, <3>2, <3>3, YsScanCases
  <2> QED BY <1>1, <2>1, <2>2, <2>3, <2>4
<1>2. ASSUME NEW n \in DOMAIN ysProcs', SeenNow(n), NEW b \in DOMAIN ysProcs', b < n,
             ysProcs'[b].pid = ysProcs'[n].pid
      PROVE  b \in ended' \/ b \in ysLost'
  <2>1. n \in DOMAIN ysProcs /\ (Seen(n) \/ (1 \in DOMAIN trace /\ n = trace[1].n))
    BY <1>1, <1>2
  <2>2. b \in DOMAIN ysProcs
    <3>1. ASSUME b \notin DOMAIN ysProcs PROVE FALSE
      <4>1. n < b /\ b \in Nat /\ n \in Nat
        BY <1>0, <2>1, <3>1, YsNewCases
      <4> QED BY <1>2, <4>1
    <3> QED BY <3>1
  <2>3. Predecessor(b, n)
    BY <1>0, <1>2, <2>1, <2>2 DEF YsGrown, Predecessor
  <2>4. b \in ended \/ b \in ysLost
    <3>1. CASE Seen(n)
      BY <2>1, <2>2, <2>3, <3>1 DEF YsSeen
    <3>2. CASE 1 \in DOMAIN trace /\ n = trace[1].n
      <4>1. ~\E i \in DOMAIN trace : i < 1
        BY <1>0
      <4> QED BY <2>2, <2>3, <3>2, <4>1 DEF YsOrdered
    <3> QED BY <2>1, <3>1, <3>2
  <2> QED BY <1>0, <2>4 DEF YsGrown
<1> QED
  BY <1>2 DEF YsSeen, Seen, Predecessor, ScansFor

\* A match is of the process that is scanned.
LEMMA YsMatchOf ==
    ASSUME YsTyped, NEW a \in Actor, ScanMatches(a), NEW k, NEW n, ScansFor(a, k, n)
    PROVE  /\ k \in Kind /\ n \in DOMAIN ysProcs /\ ysProcs' = ysProcs /\ ended' = ended
           /\ matched'[k][ysProcs[n].pid] = n
           /\ n \in ended => n \in ysLate'
           /\ ysScan'[a] = <<>> /\ \A b \in Actor : b # a => ysScan'[b] = ysScan[b]
<1>1. PICK l \in Kind, m \in DOMAIN ysProcs :
              /\ ScansFor(a, l, m)
              /\ matched' = [matched EXCEPT ![l][ysProcs[m].pid] = m]
              /\ m \in ended => m \in ysLate'
              /\ ysScan'[a] = <<>>
  BY YsScanMatchesFacts
<1>2. l = k /\ m = n
  BY <1>1, YsScanIs DEF ScansFor
<1>3. /\ matched \in [Kind -> [YsPid -> Nat]] /\ DOMAIN ysScan = Actor
      /\ ysProcs \in Seq(YsProcess)
  BY DEF YsTyped
<1>4. ysProcs[m].pid \in YsPid
  BY <1>3, YsFields
<1>5. matched'[k][ysProcs[n].pid] = n
  BY <1>1, <1>2, <1>3, <1>4
<1>6. ysProcs' = ysProcs /\ ended' = ended /\ ysScan' = [ysScan EXCEPT ![a] = <<>>]
  BY DEF ScanMatches
<1> QED BY <1>1, <1>2, <1>3, <1>5, <1>6

\* An event of the trace was there before, or is of a process that runs.
LEMMA YsTraceFrom ==
    ASSUME YsTyped, [YsNext]_ysVars, NEW j \in DOMAIN trace'
    PROVE  /\ trace'[j].n \in DOMAIN ysProcs
           /\ \/ \E i \in DOMAIN trace : trace[i] = trace'[j] /\ (Consumes => i > 1)
              \/ ysProcs[trace'[j].n].runs
<1>0. trace \in Seq(YsEvent) /\ \A i \in DOMAIN trace : trace[i].n \in DOMAIN ysProcs
  BY DEF YsTyped
<1>1. CASE Consumes
  <2>1. j \in Nat \ {0} /\ j + 1 \in DOMAIN trace /\ trace'[j] = trace[j + 1]
    BY <1>1, YsTailFacts
  <2>2. j + 1 > 1
    BY <2>1
  <2> QED BY <1>0, <2>1, <2>2
<1>2. CASE trace' = trace /\ ~Consumes
  BY <1>0, <1>2
<1>3. ASSUME NEW m \in DOMAIN ysProcs, NEW y \in Kind \cup {"terminate"}, Adds(m, y), ~Consumes
      PROVE  /\ trace'[j].n \in DOMAIN ysProcs
             /\ \/ \E i \in DOMAIN trace : trace[i] = trace'[j] /\ (Consumes => i > 1)
                \/ ysProcs[trace'[j].n].runs
  <2>1. CASE j \in DOMAIN trace
    BY <1>0, <1>3, <2>1, YsAddsFacts
  <2>2. CASE j = Len(trace) + 1
    <3>1. trace'[j].n = m /\ ysProcs[m].runs
      BY <1>3, <2>2, YsAddsFacts
    <3> QED BY <3>1, Zenon
  <2> QED BY <1>3, <2>1, <2>2, YsAddsFacts
<1> QED BY <1>1, <1>2, <1>3, YsTraceCases

\* A process that was seen and neither ended nor was lost keeps its entry.
LEMMA YsNotCleaned ==
    ASSUME YsTyped, YsEnds, YsOrdered, YsSeen, Terminated, NEW n \in DOMAIN ysProcs, Seen(n),
           n \notin ended', n \notin ysLost, ysProcs[trace[1].n].pid = ysProcs[n].pid
    PROVE  FALSE
<1>0. /\ trace \in Seq(YsEvent) /\ ysProcs \in Seq(YsProcess)
      /\ \A j \in DOMAIN trace : trace[j].n \in DOMAIN ysProcs
  BY DEF YsTyped
<1>1. trace # <<>> /\ Head(trace).type = "terminate" /\ ended' = ended \cup {Head(trace).n}
  BY DEF Terminated
<1>2. 1 \in DOMAIN trace /\ Head(trace) = trace[1]
  BY <1>0, <1>1, TailAt
<1>3. PICK h \in DOMAIN ysProcs : h = trace[1].n
  BY <1>0, <1>2
<1>4. h # n /\ n \notin ended
  BY <1>1, <1>2, <1>3
<1>5. h \notin ended /\ h \notin ysLost
  BY <1>1, <1>2, <1>3 DEF YsEnds
<1>6. ~(h < n)
  <2>1. ASSUME h < n PROVE FALSE
    <3>1. Predecessor(h, n)
      BY <1>3, <2>1 DEF Predecessor
    <3> QED BY <1>3, <1>5, <3>1 DEF YsSeen
  <2> QED BY <2>1
<1>7. ~(n < h)
  <2>1. ASSUME n < h PROVE FALSE
    <3>1. Predecessor(n, h)
      BY <1>3, <2>1 DEF Predecessor
    <3>2. \E i \in DOMAIN trace : i < 1
      BY <1>2, <1>3, <1>4, <3>1 DEF YsOrdered
    <3> QED BY <1>0, <3>2
  <2> QED BY <2>1
<1>8. n \in Nat /\ h \in Nat
  BY <1>0, YsFields
<1> QED BY <1>4, <1>6, <1>7, <1>8

LEMMA YsRwxStep ==
    ASSUME YsTyped, YsEnds, YsOrdered, YsSeen, YsRwx, [YsNext]_ysVars
    PROVE  YsRwx'
<1>0. /\ YsGrown /\ ysProcs \in Seq(YsProcess) /\ trace \in Seq(YsEvent)
      /\ DOMAIN ysProcs \subseteq 1 .. YsProcs /\ "rwx" \in Kind
      /\ ysProcs' \in Seq(YsProcess) /\ DOMAIN ysProcs' \subseteq 1 .. YsProcs
      /\ ended' \subseteq DOMAIN ysProcs'
  <2>1. YsGrown /\ ysProcs' \in Seq(YsProcess) /\ Len(ysProcs') <= YsProcs
    BY YsGrowth DEF YsGrown
  <2>2. ysProcs \in Seq(YsProcess) /\ trace \in Seq(YsEvent) /\ Len(ysProcs) <= YsProcs
    BY DEF YsTyped
  <2>3. ended' \subseteq DOMAIN ysProcs'
    BY YsTypedStep DEF YsTyped
  <2> QED BY <2>1, <2>2, <2>3, YsAssumption DEF Kind
<1>1. ASSUME NEW p \in YsPid, matched'["rwx"][p] \in ended'
      PROVE  matched'["rwx"][p] \in ysLate'
  <2>1. PICK m : m = matched'["rwx"][p]
    OBVIOUS
  <2>2. m \in DOMAIN ysProcs' /\ m # 0
    BY <1>0, <1>1, <2>1
  <2>3. CASE m = matched["rwx"][p] /\ (Terminated => p # ysProcs[trace[1].n].pid)
    <3>1. m \in DOMAIN ysProcs /\ ysProcs[m].pid = p
      BY <1>0, <2>2, <2>3 DEF YsTyped
    <3>2. m \in ended
      <4>1. CASE Consumes
        BY <1>1, <2>1, <2>3, <3>1, <4>1, YsTailFacts DEF Consumes
      <4>2. ASSUME NEW n \in DOMAIN ysProcs, NEW y \in Kind \cup {"terminate"}, Adds(n, y)
            PROVE  ended' = ended
        BY <4>2 DEF Adds
      <4> QED BY <1>1, <2>1, <4>1, <4>2, YsTraceCases
    <3> QED BY <1>0, <2>1, <2>3, <3>2 DEF YsRwx, YsGrown
  <2>4. ASSUME NEW a \in Actor, ScanMatches(a), ScansFor(a, "rwx", m)
        PROVE  m \in ysLate'
    BY <1>1, <2>1, <2>4, YsMatchOf
  <2> QED BY <1>0, <2>1, <2>2, <2>3, <2>4, YsMatchedCases
<1> DEFINE Scan(b, n) == IF ysScan'[b] = <<[kind |-> "rwx", n |-> n]>> THEN 1 ELSE 0
<1>2. ASSUME NEW n \in DOMAIN ysProcs', n \notin ended', n \notin ysLost'
      PROVE  /\ alerts'[n]["rwx"] > 0 => matched'["rwx"][ysProcs'[n].pid] # 0
             /\ alerts'[n]["rwx"] + Scan("consumer", n) + Scan("flusher", n) <= 2
  <2>0. "consumer" \in Actor /\ "flusher" \in Actor /\ n \in 1 .. YsProcs
    BY <1>0 DEF Actor
  <2>1. CASE n \notin DOMAIN ysProcs
    <3>1. PICK p \in YsPid : Launch(p)
      BY <2>1, YsNewCases
    <3>2. alerts' = alerts /\ ysScan' = ysScan
      BY <3>1 DEF Launch, YsHistory
    <3>3. alerts[n]["rwx"] = 0
      BY <1>0, <2>0, <2>1 DEF YsTyped
    <3>4. ASSUME NEW b \in Actor, ysScan[b] = <<[kind |-> "rwx", n |-> n]>> PROVE FALSE
      <4>1. ysScan[b] # <<>>
        BY <3>4, YsScanIs
      <4>2. PICK l \in Kind, m \in DOMAIN ysProcs : ysScan[b] = <<[kind |-> l, n |-> m]>>
        BY <4>1 DEF YsTyped
      <4>3. n = m
        BY <3>4, <4>2, YsScanIs
      <4> QED BY <2>1, <4>3
    <3>5. Scan("consumer", n) = 0 /\ Scan("flusher", n) = 0
      BY <2>0, <3>2, <3>4
    <3> HIDE DEF Scan
    <3> QED BY <3>2, <3>3, <3>5
  <2>2. CASE n \in DOMAIN ysProcs
    <3>1. n \notin ended /\ n \notin ysLost /\ ysProcs'[n].pid = ysProcs[n].pid /\ n # 0
      BY <1>0, <1>2, <2>2 DEF YsGrown
    <3>2. PICK q \in YsPid : q = ysProcs[n].pid
      BY <1>0, <2>2, YsFields
    <3>3. /\ alerts[n]["rwx"] > 0 => matched["rwx"][q] # 0
          /\ alerts[n]["rwx"] + Scans("consumer", n) + Scans("flusher", n) <= 2
      BY <2>2, <3>1, <3>2 DEF YsRwx
    <3>4. alerts[n]["rwx"] \in Nat
      BY <1>0, <2>0 DEF YsTyped
    <3>5. ASSUME NEW a \in Actor, ScanMatches(a), ScansFor(a, "rwx", n)
          PROVE  /\ matched'["rwx"][q] # 0 /\ Scan(a, n) = 0 /\ Scans(a, n) = 1
                 /\ \A b \in Actor : b # a => Scan(b, n) = Scans(b, n)
      <4>1. /\ matched'["rwx"][q] = n /\ ysScan'[a] = <<>>
            /\ \A b \in Actor : b # a => ysScan'[b] = ysScan[b]
        BY <3>2, <3>5, YsMatchOf
      <4> QED BY <3>1, <3>5, <4>1, YsScanIs DEF Scans, ScansFor
    <3>6. ASSUME alerts[n]["rwx"] > 0 PROVE matched'["rwx"][q] # 0
      <4>1. Seen(n)
        BY <1>0, <3>6 DEF Seen
      <4>2. ~(Terminated /\ q = ysProcs[trace[1].n].pid)
        BY <1>2, <2>2, <3>1, <3>2, <4>1, YsNotCleaned
      <4>3. \A m \in DOMAIN ysProcs : m # 0
        BY <1>0
      <4> QED BY <1>0, <3>3, <3>6, <4>2, <4>3, YsMatchedCases
    <3>7. \/ alerts'[n]["rwx"] = alerts[n]["rwx"]
          \/ \E a \in Actor : /\ ScanMatches(a) /\ ScansFor(a, "rwx", n)
                              /\ alerts'[n]["rwx"] = alerts[n]["rwx"] + 1
      BY <1>0, <2>0, YsAlertsCases
    <3>8. alerts'[n]["rwx"] > 0 => matched'["rwx"][q] # 0
      BY <3>5, <3>6, <3>7
    <3>9. CASE \E b \in Actor : Allocated(b, n) /\ matched["rwx"][q] = 0
      <4>1. alerts' = alerts
        BY <3>9 DEF Allocated
      <4>2. alerts[n]["rwx"] = 0
        BY <3>3, <3>4, <3>9
      <4>3. Scan("consumer", n) \in {0, 1} /\ Scan("flusher", n) \in {0, 1}
        OBVIOUS
      <4> HIDE DEF Scan
      <4> QED BY <3>1, <3>2, <3>8, <4>1, <4>2, <4>3
    <3>10. CASE ~\E b \in Actor : Allocated(b, n) /\ matched["rwx"][q] = 0
      <4>1. ASSUME NEW b \in Actor, ysScan'[b] = <<[kind |-> "rwx", n |-> n]>>
            PROVE  ScansFor(b, "rwx", n)
        BY <3>2, <3>10, <4>1, YsScanCases
      <4>2. \A b \in Actor : Scan(b, n) \in {0, 1} /\ Scans(b, n) \in {0, 1} /\ Scan(b, n) <= Scans(b, n)
        BY <4>1 DEF Scans
      <4> HIDE DEF Scan
      <4>3. CASE alerts'[n]["rwx"] = alerts[n]["rwx"]
        <5>1. alerts'[n]["rwx"] + Scan("consumer", n) + Scan("flusher", n) <= 2
          BY <2>0, <3>3, <3>4, <4>2, <4>3
        <5> QED BY <3>1, <3>2, <3>8, <5>1
      <4>4. ASSUME NEW a \in Actor, ScanMatches(a), ScansFor(a, "rwx", n),
                   alerts'[n]["rwx"] = alerts[n]["rwx"] + 1
            PROVE  alerts'[n]["rwx"] + Scan("consumer", n) + Scan("flusher", n) <= 2
        <5>1. /\ Scan(a, n) = 0 /\ Scans(a, n) = 1
              /\ \A b \in Actor : b # a => Scan(b, n) = Scans(b, n)
          BY <3>5, <4>4
        <5>2. CASE a = "consumer"
          BY <2>0, <3>3, <3>4, <4>2, <4>4, <5>1, <5>2
        <5>3. CASE a = "flusher"
          BY <2>0, <3>3, <3>4, <4>2, <4>4, <5>1, <5>3
        <5> QED BY <5>2, <5>3 DEF Actor
      <4> QED BY <3>1, <3>2, <3>7, <3>8, <4>3, <4>4
    <3> QED BY <3>9, <3>10
  <2> QED BY <2>1, <2>2
<1> QED BY <1>1, <1>2 DEF YsRwx, Scans, ScansFor

LEMMA YsMmapStep ==
    ASSUME YsTyped, YsEnds, YsOrdered, YsMmap, [YsNext]_ysVars
    PROVE  YsMmap'
<1>0. /\ YsGrown /\ ysProcs \in Seq(YsProcess) /\ trace \in Seq(YsEvent)
      /\ \A j \in DOMAIN trace : trace[j].n \in DOMAIN ysProcs
      /\ ysProcs' \in Seq(YsProcess) /\ DOMAIN ysProcs' \subseteq 1 .. YsProcs
      /\ ended' \subseteq DOMAIN ysProcs' /\ "mmap" \in Kind /\ "consumer" \in Actor
      /\ "flusher" \in Actor
  <2>1. YsGrown /\ ysProcs' \in Seq(YsProcess) /\ Len(ysProcs') <= YsProcs
    BY YsGrowth DEF YsGrown
  <2>2. /\ ysProcs \in Seq(YsProcess) /\ trace \in Seq(YsEvent)
        /\ \A j \in DOMAIN trace : trace[j].n \in DOMAIN ysProcs
    BY DEF YsTyped
  <2>3. ended' \subseteq DOMAIN ysProcs'
    BY YsTypedStep DEF YsTyped
  <2> QED BY <2>1, <2>2, <2>3, YsAssumption DEF Kind, Actor
<1>1. \A n \in DOMAIN ysProcs : n # 0 /\ n \in Nat /\ ysProcs[n].pid \in YsPid
  BY <1>0, YsFields
\* Only the consumer scans for mappings, and for a process without an entry.
<1>2. ASSUME NEW a \in Actor, NEW n, ScansFor(a, "mmap", n)
      PROVE  /\ n \in DOMAIN ysProcs /\ a = "consumer" /\ n \notin ended
             /\ matched["mmap"][ysProcs[n].pid] = 0
             /\ \A j \in DOMAIN trace : ~Predecessor(trace[j].n, n)
  <2>1. ysScan[a] # <<>>
    BY <1>2, YsScanIs DEF ScansFor
  <2>2. PICK l \in Kind, m \in DOMAIN ysProcs : ysScan[a] = <<[kind |-> l, n |-> m]>>
    BY <2>1 DEF YsTyped
  <2>3. n = m
    BY <1>2, <2>2, YsScanIs DEF ScansFor
  <2>4. a = "consumer"
    BY <1>2, <2>3 DEF YsMmap, Actor
  <2> QED BY <1>2, <2>3, <2>4 DEF YsMmap
<1>3. ASSUME Terminated
      PROVE  /\ Consumes /\ ysScan["consumer"] = <<>> /\ ysScan' = ysScan /\ 1 \in DOMAIN trace
             /\ trace[1].type = "terminate" /\ ended' = ended \cup {trace[1].n}
  <2>1. /\ ysScan["consumer"] = <<>> /\ ysScan' = ysScan /\ trace # <<>>
        /\ Head(trace).type = "terminate" /\ ended' = ended \cup {Head(trace).n} /\ Consumes
    BY <1>3 DEF Terminated, Consumes
  <2> QED BY <1>0, <2>1, TailAt
<1>4. ~Terminated => ended' = ended
  BY DEF YsNext, Launch, Finish, Touch, Hold, MapView, Allocated, ScanEmpty, ScanMatches,
         ysVars, YsHistory
<1>5. ASSUME MapView
      PROVE  Consumes /\ 1 \in DOMAIN trace /\ matched' = matched /\ ended' = ended
  <2>1. trace # <<>> /\ matched' = matched /\ ended' = ended
    BY <1>5 DEF MapView
  <2>2. Consumes
    BY <1>5 DEF MapView, Consumes, Kind
  <2> QED BY <1>0, <2>1, <2>2, TailAt
<1> DEFINE Scan(a, n) == ysScan'[a] = <<[kind |-> "mmap", n |-> n]>>
<1>6. ASSUME NEW a \in Actor, NEW n, Scan(a, n)
      PROVE  ScansFor(a, "mmap", n) \/ (MapView /\ a = "consumer" /\ n = trace[1].n
                                        /\ matched["mmap"][ysProcs[n].pid] = 0)
  BY <1>6, YsScanCases
<1> HIDE DEF Scan
<1>7. ASSUME NEW n PROVE ~Scan("flusher", n)
  <2>1. ~ScansFor("flusher", "mmap", n)
    BY <1>0, <1>2
  <2> QED BY <1>0, <1>6, <2>1
\* The processes of the entries and of the scans were there.
<1>8. ASSUME NEW n \in DOMAIN ysProcs', matched'["mmap"][ysProcs'[n].pid] = n
      PROVE  /\ n \in DOMAIN ysProcs
             /\ ScansFor("consumer", "mmap", n) \/ matched["mmap"][ysProcs[n].pid] = n
  <2>1. PICK p \in YsPid : p = ysProcs'[n].pid
    <3>1. ysProcs'[n] \in YsProcess
      BY <1>0
    <3> QED BY <3>1 DEF YsProcess
  <2>2. n # 0 /\ matched'["mmap"][p] = n
    BY <1>0, <1>8, <2>1
  <2>3. matched["mmap"][p] = n \/ \E a \in Actor : ScansFor(a, "mmap", n)
    BY <1>0, <2>2, YsMatchedCases
  <2>4. CASE matched["mmap"][p] = n
    <3>1. n \in DOMAIN ysProcs /\ ysProcs[n].pid = p
      BY <1>0, <2>2, <2>4 DEF YsTyped
    <3> QED BY <2>4, <3>1
  <2>5. CASE \E a \in Actor : ScansFor(a, "mmap", n)
    BY <1>2, <2>5
  <2> QED BY <2>3, <2>4, <2>5
<1>9. ASSUME NEW n, Scan("consumer", n)
      PROVE  /\ n \in DOMAIN ysProcs /\ n \notin ended' /\ matched'["mmap"][ysProcs[n].pid] = 0
             /\ ScansFor("consumer", "mmap", n) \/ (MapView /\ n = trace[1].n)
  <2>1. CASE ScansFor("consumer", "mmap", n)
    <3>1. n \in DOMAIN ysProcs /\ n \notin ended /\ matched["mmap"][ysProcs[n].pid] = 0
      BY <1>0, <1>2, <2>1
    <3>2. ysScan["consumer"] # <<>>
      BY <2>1, YsScanIs DEF ScansFor
    <3>3. ended' = ended
      BY <1>3, <1>4, <3>2
    <3>4. ASSUME NEW a \in Actor, NEW m, ScanMatches(a), ScansFor(a, "mmap", m) PROVE FALSE
      <4>1. a = "consumer"
        BY <1>2, <3>4
      <4>2. ysScan'["consumer"] = <<>>
        BY <3>4, <4>1, YsMatchOf
      <4> QED BY <1>9, <4>2, YsScanIs DEF Scan
    <3>5. matched'["mmap"][ysProcs[n].pid] = 0
      BY <1>0, <1>1, <3>1, <3>4, YsMatchedCases
    <3> QED BY <2>1, <3>1, <3>3, <3>5
  <2>2. CASE MapView /\ n = trace[1].n /\ matched["mmap"][ysProcs[n].pid] = 0
    BY <1>0, <1>5, <2>2 DEF YsEnds
  <2> QED BY <1>0, <1>6, <1>9, <2>1, <2>2
<1>10. ASSUME NEW n \in DOMAIN ysProcs', Scan("consumer", n) \/ matched'["mmap"][ysProcs'[n].pid] = n,
              NEW j \in DOMAIN trace', trace'[j].n < n,
              ysProcs'[trace'[j].n].pid = ysProcs'[n].pid
       PROVE  FALSE
  <2>1. PICK b : b = trace'[j].n
    OBVIOUS
  <2>2. b \in DOMAIN ysProcs /\ n \in DOMAIN ysProcs
    BY <1>8, <1>9, <1>10, <2>1, YsTraceFrom
  <2>3. Predecessor(b, n)
    BY <1>0, <1>10, <2>1, <2>2 DEF YsGrown, Predecessor
  <2>4. ~ysProcs[b].runs
    BY <2>2, <2>3 DEF YsEnds
  <2>5. PICK i \in DOMAIN trace : trace[i] = trace'[j] /\ (Consumes => i > 1)
    BY <2>1, <2>4, YsTraceFrom
  <2>6. CASE ScansFor("consumer", "mmap", n) \/ matched["mmap"][ysProcs[n].pid] = n
    <3>1. ~Predecessor(trace[i].n, n)
      BY <2>2, <2>6 DEF YsMmap
    <3> QED BY <2>1, <2>3, <2>5, <3>1
  <2>7. CASE MapView /\ n = trace[1].n
    <3>1. Consumes /\ 1 \in DOMAIN trace
      BY <1>5, <2>7
    <3>2. i < 1
      BY <2>1, <2>3, <2>5, <2>7, <3>1 DEF YsOrdered
    <3> QED BY <1>0, <2>5, <3>1, <3>2
  <2> QED BY <1>8, <1>9, <1>10, <2>6, <2>7
\* The mappings of n are over: it has ended, and no event of it is left.
<1>11. ASSUME NEW n \in DOMAIN ysProcs', alerts'[n]["mmap"] > 0
       PROVE  \/ matched'["mmap"][ysProcs'[n].pid] = n
              \/ /\ ~ysProcs'[n].runs /\ \A j \in DOMAIN trace' : trace'[j].n # n
                 /\ ~Scan("consumer", n)
  <2>1. \/ alerts'[n]["mmap"] = alerts[n]["mmap"]
        \/ \E a \in Actor : ScanMatches(a) /\ ScansFor(a, "mmap", n)
    BY <1>0, YsAlertsCases
  <2>2. ASSUME NEW a \in Actor, ScanMatches(a), ScansFor(a, "mmap", n)
        PROVE  matched'["mmap"][ysProcs'[n].pid] = n
    <3>1. matched'["mmap"][ysProcs[n].pid] = n /\ ysProcs' = ysProcs
      BY <2>2, YsMatchOf
    <3> QED BY <3>1
  <2>3. CASE alerts'[n]["mmap"] = alerts[n]["mmap"]
    <3>1. n \in DOMAIN ysProcs
      <4>1. n \in 1 .. YsProcs /\ alerts[n]["mmap"] # 0
        BY <1>0, <1>11, <2>3
      <4> QED BY <1>0, <4>1 DEF YsTyped
    <3>2. PICK q \in YsPid : q = ysProcs[n].pid /\ q = ysProcs'[n].pid
      BY <1>0, <1>1, <3>1 DEF YsGrown
    <3>3. matched["mmap"][q] = n \/ MapsOver(n)
      BY <1>11, <2>3, <3>1, <3>2 DEF YsMmap
    <3>4. CASE MapsOver(n)
      <4>1. ~ysProcs[n].runs /\ ~ScansFor("consumer", "mmap", n)
        BY <3>4 DEF MapsOver
      <4>2. \A j \in DOMAIN trace : trace[j].n # n
        BY <3>4 DEF MapsOver
      <4>3. ~ysProcs'[n].runs
        BY <1>0, <3>1, <4>1 DEF YsGrown
      <4>4. ASSUME NEW j \in DOMAIN trace' PROVE trace'[j].n # n
        BY <4>1, <4>2, YsTraceFrom
      <4>5. ~Scan("consumer", n)
        BY <1>5, <1>9, <4>1, <4>2
      <4> QED BY <4>3, <4>4, <4>5
    <3>5. CASE matched["mmap"][q] = n
      <4>1. CASE matched'["mmap"][q] = matched["mmap"][q]
        BY <3>2, <3>5, <4>1
      <4>2. ASSUME Terminated, q = ysProcs[trace[1].n].pid
            PROVE  /\ ~ysProcs'[n].runs /\ \A j \in DOMAIN trace' : trace'[j].n # n
                   /\ ~Scan("consumer", n)
        <5>1. PICK h \in DOMAIN ysProcs : h = trace[1].n /\ h \in Nat
          BY <1>0, <1>1, <1>3, <4>2
        <5>2. ~Predecessor(h, n)
          BY <1>3, <3>1, <3>2, <3>5, <4>2, <5>1 DEF YsMmap
        <5>3. h = n \/ Predecessor(n, h)
          <6>1. n \in Nat /\ (h < n \/ h = n \/ n < h)
            BY <1>1, <3>1, <5>1
          <6> QED BY <3>1, <3>2, <4>2, <5>1, <5>2, <6>1 DEF Predecessor
        <5>4. ~ysProcs[n].runs
          <6>1. CASE h = n
            BY <1>3, <3>1, <4>2, <5>1, <6>1 DEF YsEnds, Terminates
          <6>2. CASE Predecessor(n, h)
            BY <3>1, <5>1, <6>2 DEF YsEnds
          <6> QED BY <5>3, <6>1, <6>2
        <5>5. ~ysProcs'[n].runs
          BY <1>0, <3>1, <5>4 DEF YsGrown
        <5>6. ASSUME NEW j \in DOMAIN trace', trace'[j].n = n PROVE FALSE
          <6>1. PICK i \in DOMAIN trace : trace[i] = trace'[j] /\ i > 1 /\ trace[i].n = n
            BY <1>3, <4>2, <5>4, <5>6, YsTraceFrom
          <6>2. 1 < i /\ ~(i < 1)
            BY <1>0, <6>1
          <6>3. CASE h = n
            <7>1. 1 \in DOMAIN trace /\ trace[1].type = "terminate"
              BY <1>3, <4>2
            <7>2. ~Terminates(1, trace[i].n)
              BY <6>1, <6>2, <7>1 DEF YsEnds
            <7> QED BY <5>1, <6>1, <6>3, <7>1, <7>2 DEF Terminates
          <6>4. CASE Predecessor(n, h)
            BY <1>3, <4>2, <5>1, <6>1, <6>2, <6>4 DEF YsOrdered
          <6> QED BY <5>3, <6>3, <6>4
        <5>7. ~Scan("consumer", n)
          BY <1>3, <4>2, YsScanIs DEF Scan
        <5> QED BY <5>5, <5>6, <5>7
      <4>3. ASSUME NEW a \in Actor, NEW m \in DOMAIN ysProcs, ScanMatches(a),
                   ScansFor(a, "mmap", m), q = ysProcs[m].pid
            PROVE  FALSE
        BY <1>1, <1>2, <3>1, <3>5, <4>3
      <4> QED BY <1>0, <3>2, <4>1, <4>2, <4>3, YsMatchedCases
    <3> QED BY <3>3, <3>4, <3>5
  <2> QED BY <2>1, <2>2, <2>3
<1>12. ASSUME NEW p \in YsPid PROVE matched'["mmap"][p] \notin ended'
  <2>1. CASE matched'["mmap"][p] = matched["mmap"][p] /\ (Terminated => p # ysProcs[trace[1].n].pid)
    <3>1. PICK m : m = matched["mmap"][p] /\ m \notin ended
      BY DEF YsMmap
    <3>2. CASE ~Terminated
      BY <1>4, <2>1, <3>1, <3>2
    <3>3. CASE Terminated
      <4>1. ASSUME m = trace[1].n PROVE FALSE
        <5>1. m \in DOMAIN ysProcs
          BY <1>0, <1>3, <3>3, <4>1
        <5>2. ysProcs[m].pid = p
          BY <1>0, <1>1, <3>1, <5>1 DEF YsTyped
        <5> QED BY <2>1, <3>3, <4>1, <5>2
      <4> QED BY <1>3, <2>1, <3>1, <3>3, <4>1
    <3> QED BY <3>2, <3>3
  <2>2. CASE matched'["mmap"][p] = 0
    BY <1>0, <2>2
  <2>3. ASSUME NEW a \in Actor, NEW n \in DOMAIN ysProcs, ScanMatches(a), ScansFor(a, "mmap", n),
               matched'["mmap"][p] = n
        PROVE  matched'["mmap"][p] \notin ended'
    <3>1. ended' = ended
      BY <2>3, YsMatchOf
    <3> QED BY <1>2, <2>3, <3>1
  <2> QED BY <1>0, <2>1, <2>2, <2>3, YsMatchedCases
<1>13. ASSUME NEW n \in DOMAIN ysProcs', Scan("consumer", n)
       PROVE  matched'["mmap"][ysProcs'[n].pid] = 0
  <2>1. n \in DOMAIN ysProcs /\ matched'["mmap"][ysProcs[n].pid] = 0
    BY <1>9, <1>13
  <2>2. ysProcs'[n].pid = ysProcs[n].pid
    BY <1>0, <2>1 DEF YsGrown
  <2> QED BY <2>1, <2>2
<1> QED
  BY <1>7, <1>9, <1>10, <1>11, <1>12, <1>13 DEF YsMmap, MapsOver, ScansFor, Predecessor, Scan

LEMMA YsMatchesStep ==
    ASSUME YsInv, [YsNext]_ysVars, YsRwx'
    PROVE  YsMatches'
<1>0. /\ YsGrown /\ ysProcs \in Seq(YsProcess) /\ trace \in Seq(YsEvent) /\ YsTyped
      /\ DOMAIN ysProcs' \subseteq 1 .. YsProcs /\ DOMAIN ysProcs \subseteq DOMAIN ysProcs'
  <2>1. YsGrown /\ ysProcs' \in Seq(YsProcess) /\ Len(ysProcs') <= YsProcs
    BY YsGrowth DEF YsGrown, YsInv
  <2>2. ysProcs \in Seq(YsProcess) /\ trace \in Seq(YsEvent)
    BY DEF YsTyped, YsInv
  <2> QED BY <2>1, <2>2, YsAssumption DEF YsGrown, YsInv
<1>1. /\ "mmap" \in Kind /\ "rwx" \in Kind
      /\ \A n \in DOMAIN ysProcs : n # 0 /\ n \in Nat /\ ysProcs[n].pid \in YsPid
  BY <1>0, YsFields DEF Kind
<1> DEFINE Excused(x) ==
      \/ x.by = x.n \/ x.by \in ysLost'
      \/ x.kind = "rwx" /\ (x.by \in ysLate' \/ (x.by > x.n /\ ~ysProcs'[x.n].runs))
<1>2. ASSUME NEW x \in spared, x \in spared' PROVE Excused(x)
  <2>1. x.n \in DOMAIN ysProcs
    BY <1>0 DEF YsTyped
  <2>2. \/ x.by = x.n \/ x.by \in ysLost
        \/ x.kind = "rwx" /\ (x.by \in ysLate \/ (x.by > x.n /\ ~ysProcs[x.n].runs))
    BY DEF YsInv, YsMatches, YsSpared
  <2>3. ~ysProcs[x.n].runs => ~ysProcs'[x.n].runs
    BY <1>0, <2>1 DEF YsGrown
  <2>4. ysLost \subseteq ysLost' /\ ysLate \subseteq ysLate'
    BY <1>0 DEF YsGrown
  <2> QED BY <2>2, <2>3, <2>4
<1>3. ASSUME NEW x \in spared', x \notin spared PROVE Excused(x)
  <2>1. PICK k \in Kind, n \in DOMAIN ysProcs :
              /\ x = [kind |-> k, n |-> n, by |-> matched[k][ysProcs[n].pid]]
              /\ matched[k][ysProcs[n].pid] # 0 /\ ysProcs' = ysProcs
              /\ \/ k = "mmap" /\ MapView /\ n = trace[1].n /\ 1 \in DOMAIN trace
                 \/ k = "rwx" /\ held[n] > 0
    BY <1>0, <1>3, YsSparedCases
  <2>2. PICK q \in YsPid : q = ysProcs[n].pid
    BY <1>1
  <2>3. PICK b \in DOMAIN ysProcs : b = matched[k][q] /\ ysProcs[b].pid = q
    BY <1>0, <2>1, <2>2 DEF YsTyped
  <2>4. x.kind = k /\ x.n = n /\ x.by = b
    BY <2>1, <2>2, <2>3
  <2>5. b = n \/ Predecessor(b, n) \/ (Predecessor(n, b) /\ b > n)
    <3>1. b = n \/ b < n \/ (n < b /\ b > n)
      BY <1>1
    <3> QED BY <2>2, <2>3, <3>1 DEF Predecessor
  <2>6. CASE k = "mmap"
    <3>1. n = trace[1].n /\ 1 \in DOMAIN trace /\ ~\E i \in DOMAIN trace : i < 1
      BY <1>0, <2>1, <2>6
    <3>2. ASSUME Predecessor(b, n) PROVE b \in ysLost
      <4>1. b \in ended \/ b \in ysLost
        BY <2>3, <3>1, <3>2 DEF YsInv, YsOrdered
      <4>2. b \notin ended
        BY <2>3, <2>6 DEF YsInv, YsMmap
      <4> QED BY <4>1, <4>2
    <3>3. ~Predecessor(n, b)
      BY <2>3, <2>6, <3>1 DEF YsInv, YsMmap
    <3> QED BY <1>0, <2>4, <2>5, <3>2, <3>3 DEF YsGrown
  <2>7. CASE k = "rwx" /\ held[n] > 0
    <3>1. ASSUME Predecessor(b, n) PROVE b \in ysLost \/ b \in ysLate
      <4>1. b \in ended \/ b \in ysLost
        BY <2>7, <3>1 DEF YsInv, YsSeen, Seen
      <4>2. b \in ended => b \in ysLate
        BY <2>3, <2>7 DEF YsInv, YsRwx
      <4> QED BY <4>1, <4>2
    <3>2. ASSUME Predecessor(n, b) PROVE ~ysProcs'[n].runs
      <4>1. ~ysProcs[n].runs
        BY <3>2 DEF YsInv, YsEnds
      <4> QED BY <1>0, <4>1 DEF YsGrown
    <3>3. ysLost \subseteq ysLost' /\ ysLate \subseteq ysLate'
      BY <1>0 DEF YsGrown
    <3> QED BY <2>4, <2>5, <2>7, <3>1, <3>2, <3>3
  <2> QED BY <2>1, <2>6, <2>7
<1>4. Cardinality(Actor) = 2
  <2>1. Cardinality({"consumer"}) = 1 /\ IsFiniteSet({"consumer"})
    BY FS_Singleton
  <2>2. Actor = {"consumer"} \cup {"flusher"} /\ "flusher" \notin {"consumer"}
    BY DEF Actor
  <2> QED BY <2>1, <2>2, FS_AddElement
<1>5. ASSUME NEW n \in DOMAIN ysProcs'
      PROVE  /\ alerts'[n]["mmap"] <= 1
             /\ n \in ysLate' \/ n \in ysLost' \/ alerts'[n]["rwx"] <= 2
  <2>0. /\ n \in 1 .. YsProcs /\ alerts[n]["mmap"] \in Nat /\ alerts[n]["rwx"] \in Nat
        /\ alerts'[n]["mmap"] \in Nat /\ alerts'[n]["rwx"] \in Nat
    <3>1. alerts \in [1 .. YsProcs -> [Kind -> Nat]] /\ alerts' \in [1 .. YsProcs -> [Kind -> Nat]]
      BY <1>0, YsAlertsCases DEF YsTyped
    <3> QED BY <1>0, <1>1, <3>1
  <2>1. /\ alerts[n]["mmap"] <= 1
        /\ n \in ysLate \/ n \in ysLost \/ alerts[n]["rwx"] <= 2
    <3>1. CASE n \in DOMAIN ysProcs
      BY <1>4, <3>1 DEF YsInv, YsMatches, YsAlerted
    <3>2. CASE n \notin DOMAIN ysProcs
      <4>1. alerts[n]["mmap"] = 0 /\ alerts[n]["rwx"] = 0
        BY <1>0, <1>1, <2>0, <3>2 DEF YsTyped
      <4> QED BY <4>1
    <3> QED BY <3>1, <3>2
  <2>2. alerts'[n]["mmap"] <= 1
    <3>1. ASSUME NEW a \in Actor, ScansFor(a, "mmap", n), n \in DOMAIN ysProcs
          PROVE  alerts[n]["mmap"] = 0
      <4>1. a = "consumer"
        BY <3>1 DEF YsInv, YsMmap, Actor
      <4>2. matched["mmap"][ysProcs[n].pid] # n /\ ~MapsOver(n)
        BY <1>1, <3>1, <4>1 DEF YsInv, YsMmap, MapsOver
      <4>3. ~(alerts[n]["mmap"] > 0)
        BY <3>1, <4>2 DEF YsInv, YsMmap
      <4> QED BY <2>0, <4>3
    <3> QED BY <1>0, <1>1, <2>0, <2>1, <3>1, YsAlertsCases
  <2>3. n \in ysLate' \/ n \in ysLost' \/ alerts'[n]["rwx"] <= 2
    <3>1. CASE n \notin ended' /\ n \notin ysLost'
      <4>1. (alerts[n]["rwx"] + Scans("consumer", n) + Scans("flusher", n) <= 2)'
        BY <3>1 DEF YsRwx
      <4>2. Scans("consumer", n)' \in Nat /\ Scans("flusher", n)' \in Nat
        BY DEF Scans
      <4> QED BY <2>0, <4>1, <4>2
    <3>2. CASE alerts'[n]["rwx"] = alerts[n]["rwx"]
      BY <1>0, <2>1, <3>2 DEF YsGrown
    <3>3. ASSUME NEW a \in Actor, ScanMatches(a), ScansFor(a, "rwx", n), n \in ended'
          PROVE  n \in ysLate'
      BY <1>0, <3>3, YsMatchOf
    <3> QED BY <1>0, <1>1, <2>0, <3>1, <3>2, <3>3, YsAlertsCases
  <2> QED BY <2>2, <2>3
<1>6. YsSpared'
  BY <1>2, <1>3 DEF YsSpared
<1>7. YsAlerted'
  BY <1>4, <1>5 DEF YsAlerted, Actor
<1> QED BY <1>6, <1>7 DEF YsMatches

\* scanner.Scan and ProcessEvent, for every number of processes and of pids: the
\* process in rwxs or mmaps that spares another one is itself, or one whose
\* termination was dropped or that matched late; nobody is alerted for mappings
\* twice, and for allocations not more often than two scans can overlap.
THEOREM ScansRemembered == YsSpec => []YsMatches
<1>1. YsInit => YsInv
  BY YsInitInv
<1>2. YsInv /\ [YsNext]_ysVars => YsInv'
  <2>1. SUFFICES ASSUME YsInv, [YsNext]_ysVars PROVE YsInv'
    OBVIOUS
  <2>2. YsTyped /\ YsEnds /\ YsOrdered /\ YsSeen /\ YsRwx /\ YsMmap
    BY <2>1 DEF YsInv
  <2>3. YsTyped' /\ YsEnds' /\ YsOrdered' /\ YsSeen'
    BY <2>1, <2>2, YsTypedStep, YsEndsStep, YsOrderedStep, YsSeenStep
  <2>4. YsRwx' /\ YsMmap'
    BY <2>1, <2>2, YsRwxStep, YsMmapStep
  <2>5. YsMatches'
    BY <2>1, <2>4, YsMatchesStep
  <2> QED BY <2>3, <2>4, <2>5 DEF YsInv
<1>3. YsInv => YsMatches
  BY DEF YsInv
<1> QED BY <1>1, <1>2, <1>3, PTL DEF YsSpec
=============================================================================
