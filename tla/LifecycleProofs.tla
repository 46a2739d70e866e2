--------------------------- MODULE LifecycleProofs ---------------------------
(***************************************************************************)
(* Proofs about the components that are started and stopped: the event     *)
(* source and the aggregator.                                              *)
(***************************************************************************)
EXTENDS EventSource, Aggregator, FiniteSetTheorems, TLAPS

-----------------------------------------------------------------------------
(* The event source *)

(***************************************************************************)
(* Close visits the traces in order.  Stopped says what holds of the ones  *)
(* it has visited: a session of this run is gone unless StopTrace failed.  *)
(***************************************************************************)
EsControl ==
    /\ etw \in [Trace -> BOOLEAN]
    /\ started \in [Trace -> BOOLEAN]
    /\ main \in [at : {"start", "restart", "consume", "spawn", "run", "close", "chain",
                       "flush", "stop", "end", "closed"},
                 i : Nat \ {0}, p : Nat]
    /\ main.at \in {"start", "restart", "consume", "spawn", "chain", "stop"} =>
          main.i \in 1 .. Len(EsTraces)

Visited ==
    CASE main.at \in {"flush", "stop"} -> {j \in 1 .. Len(EsTraces) : j < main.i}
      [] main.at \in {"end", "closed"} -> 1 .. Len(EsTraces)
      [] OTHER -> {}

Stopped ==
    \A j \in Visited : started[EsTraces[j]] /\ etw[EsTraces[j]] => EsTraces[j] \in unstopped

EsInv == EsControl /\ Stopped

LEMMA EsInitInv == EsInit => EsInv
  <1> SUFFICES ASSUME EsInit PROVE EsInv
    OBVIOUS
  <1>1. EsControl
    BY EsAssumption DEF EsInit, EsControl, At
  <1>2. Visited = {}
    BY DEF EsInit, Visited, At
  <1> QED
    BY <1>1, <1>2 DEF EsInv, Stopped

LEMMA EsStep == EsInv /\ [EsNext]_esVars => EsInv'
  <1> SUFFICES ASSUME EsInv, [EsNext]_esVars
               PROVE  EsInv'
    OBVIOUS
  <1> USE EsAssumption DEF EsInv, EsControl, sessionVars, goVars, chainVars, esHistory, At
  <1>c. \A j \in 1 .. Len(EsTraces) : EsTraces[j] \in Trace
    BY DEF Trace
  <1>1. ASSUME UNCHANGED <<etw, started, unstopped>>, EsControl', Visited' \subseteq Visited
        PROVE  EsInv'
    BY <1>1 DEF Stopped
  <1>2. CASE StartTrace
    <2>1. Visited' = {}
      BY <1>2 DEF StartTrace, Visited
    <2> QED
      BY <1>2, <1>c, <2>1 DEF StartTrace, Stopped, Cur
  <1>3. CASE StopRunning
    <2>1. Visited' = {}
      BY <1>3 DEF StopRunning, Visited
    <2> QED
      BY <1>3, <1>c, <2>1 DEF StopRunning, Stopped, Cur
  <1>4. CASE StartFails
    BY <1>1, <1>4 DEF StartFails, Visited
  <1>5. CASE OpenTrace
    BY <1>1, <1>5 DEF OpenTrace, Visited
  <1>6. CASE Spawn
    BY <1>1, <1>6 DEF Spawn, Visited
  <1>7. CASE Shutdown
    BY <1>1, <1>7 DEF Shutdown, Visited
  <1>8. CASE CloseConsumer
    <2>1. UNCHANGED <<etw, started, unstopped>> /\ EsControl'
      BY <1>8 DEF CloseConsumer
    <2>2. Visited' = {}
      BY <1>8 DEF CloseConsumer, Visited
    <2> QED
      BY <1>1, <2>1, <2>2
  <1>9. CASE CloseProcessor
    <2>1. UNCHANGED <<etw, started, unstopped>> /\ EsControl'
      BY <1>9 DEF CloseProcessor
    <2>2. Visited' = {}
      BY <1>9 DEF CloseProcessor, Visited
    <2> QED
      BY <1>1, <2>1, <2>2
  <1>10. CASE CloseTrace
    <2>1. UNCHANGED <<etw, started, unstopped>> /\ EsControl'
      BY <1>10 DEF CloseTrace
    <2>2. CASE main.i > Len(EsTraces)
      <3>1. Visited = 1 .. Len(EsTraces) /\ Visited' = 1 .. Len(EsTraces)
        BY <1>10, <2>2 DEF CloseTrace, Visited
      <3> QED
        BY <1>1, <2>1, <3>1
    <2>3. CASE main.i <= Len(EsTraces) /\ Skip(Cur)
      <3>1. main'.at = "flush" /\ main'.i = main.i + 1 /\ main.at = "flush"
        BY <1>10, <2>3 DEF CloseTrace
      <3>2. \A j \in Visited' : j \in Visited \/ j = main.i
        BY <3>1 DEF Visited
      <3> QED
        BY <2>1, <2>3, <3>2 DEF Stopped, Skip, Cur
    <2>4. CASE main.i <= Len(EsTraces) /\ ~Skip(Cur)
      <3>1. main'.at = "stop" /\ main'.i = main.i /\ main.at = "flush"
        BY <1>10, <2>4 DEF CloseTrace
      <3>2. Visited' = Visited
        BY <3>1 DEF Visited
      <3> QED
        BY <1>1, <2>1, <3>2
    <2> QED
      BY <2>2, <2>3, <2>4
  <1>11. CASE StopTrace
    <2>1. main'.at = "flush" /\ main'.i = main.i + 1 /\ main.at = "stop" /\ started' = started
          /\ main.i \in 1 .. Len(EsTraces)
      BY <1>11 DEF StopTrace
    <2>2. \A j \in Visited' : j \in 1 .. Len(EsTraces) /\ (j \in Visited \/ j = main.i)
      BY <2>1 DEF Visited
    <2>3. \/ etw' = [etw EXCEPT ![EsTraces[main.i]] = FALSE] /\ unstopped' = unstopped
          \/ etw' = etw /\ unstopped' = unstopped \cup {EsTraces[main.i]}
      BY <1>11 DEF StopTrace, Cur
    <2>4. EsControl'
      <3>1. etw' \in [Trace -> BOOLEAN]
        BY <2>3
      <3>2. main' = [at |-> "flush", i |-> main.i + 1, p |-> 1]
        BY <1>11 DEF StopTrace
      <3> QED
        BY <2>1, <3>1, <3>2
    <2>5. Stopped'
      BY <1>c, <2>1, <2>2, <2>3 DEF Stopped
    <2> QED
      BY <2>4, <2>5
  <1>12. CASE CloseEnd
    <2>1. Visited' = Visited
      BY <1>12 DEF CloseEnd, Visited
    <2> QED
      BY <1>1, <1>12, <2>1 DEF CloseEnd
  <1>13. CASE \/ \E t \in Trace : ProcessEnds(t) \/ WatchReceives(t) \/ WatchStops(t)
              \/ \E p \in ProcessorOrder : PurgerQuits(p)
              \/ UNCHANGED esVars
    <2>1. UNCHANGED <<etw, started, unstopped, main>>
      BY <1>13 DEF ProcessEnds, WatchReceives, WatchStops, PurgerQuits, esVars
    <2> QED
      BY <1>1, <2>1 DEF Visited
  <1> QED
    BY <1>2, <1>3, <1>4, <1>5, <1>6, <1>7, <1>8, <1>9, <1>10, <1>11, <1>12, <1>13 DEF EsNext

\* After Close no session of this run is left in the system, however many traces
\* there are and whichever step of Open failed, unless StopTrace itself failed.
THEOREM NoSessionLeft == EsSpec => []EsNoSessionLeft
  <1>1. EsInv => EsNoSessionLeft
    <2> SUFFICES ASSUME EsInv, main.at = "closed", NEW t \in Trace, started[t], etw[t]
                 PROVE  t \in unstopped
      BY DEF EsNoSessionLeft
    <2>1. Visited = 1 .. Len(EsTraces)
      BY DEF Visited
    <2>2. PICK j \in 1 .. Len(EsTraces) : t = EsTraces[j]
      BY DEF Trace
    <2> QED
      BY <2>1, <2>2 DEF EsInv, Stopped
  <1> QED
    BY <1>1, EsInitInv, EsStep, PTL DEF EsSpec

(***************************************************************************)
(* A close of the chain costs every processor one value, which is in quit  *)
(* or ended the purger: Spent.  Closes bounds how often the processor has  *)
(* been closed before the flush of the traces begins.                      *)
(***************************************************************************)
Spent(p) == quit[p] + IF purger[p] THEN 0 ELSE 1

Closes(p) ==
    CASE main.at = "close" -> main.i - 1
      [] main.at = "chain" -> IF p < main.p THEN main.i ELSE main.i - 1
      [] OTHER -> 0

EsChain ==
    /\ purger \in [ProcessorOrder -> BOOLEAN]
    /\ quit \in [ProcessorOrder -> Nat]
    /\ main.p # 0
    /\ main.at \notin {"flush", "stop", "end", "closed"} =>
          \A p \in ProcessorOrder : Spent(p) <= Closes(p)

LEMMA EsChainStep == EsInv /\ EsChain /\ [EsNext]_esVars => EsChain'
  <1> SUFFICES ASSUME EsInv, EsChain, [EsNext]_esVars
               PROVE  EsChain'
    OBVIOUS
  <1> USE EsAssumption, EsChainAssumption
          DEF sessionVars, goVars, chainVars, esHistory, At, ProcessorOrder
  <1>a. /\ main \in [at : {"start", "restart", "consume", "spawn", "run", "close", "chain",
                       "flush", "stop", "end", "closed"},
                     i : Nat \ {0}, p : Nat]
        /\ purger \in [ProcessorOrder -> BOOLEAN]
        /\ quit \in [ProcessorOrder -> Nat]
        /\ main.p # 0
    BY DEF EsInv, EsControl, EsChain
  <1>b. \A p \in ProcessorOrder : Spent(p) \in Nat
    BY <1>a DEF Spent
  <1>c. ASSUME UNCHANGED chainVars, main'.p # 0,
               main'.at \notin {"flush", "stop", "end", "closed"} =>
                  /\ main.at \notin {"flush", "stop", "end", "closed"}
                  /\ \A p \in ProcessorOrder : Closes(p) <= Closes(p)',
               \A p \in ProcessorOrder : Closes(p) \in Int /\ Closes(p)' \in Int
        PROVE  EsChain'
    <2>1. \A p \in ProcessorOrder : Spent(p)' = Spent(p)
      BY <1>c DEF Spent
    <2> QED
      BY <1>a, <1>b, <1>c, <2>1 DEF EsChain
  <1>1. CASE StartTrace \/ StopRunning \/ StartFails \/ OpenTrace \/ Spawn \/ Shutdown
    <2>1. /\ UNCHANGED chainVars
          /\ main.at \in {"start", "restart", "consume", "spawn", "run"}
          /\ main'.p # 0
          /\ \/ main'.at \in {"start", "restart", "consume", "spawn", "run"}
             \/ main'.at = "close" /\ main'.i = 1
      BY <1>1, <1>a DEF StartTrace, StopRunning, StartFails, OpenTrace, Spawn, Shutdown
    <2>2. \A p \in ProcessorOrder : Closes(p) = 0 /\ Closes(p)' = 0
      BY <2>1 DEF Closes
    <2> QED
      BY <1>c, <2>1, <2>2
  <1>2. CASE CloseConsumer
    <2>1. /\ UNCHANGED chainVars /\ main.at = "close" /\ main'.p = 1
          /\ \/ main'.at = "flush"
             \/ main'.at = "close" /\ main'.i = main.i + 1
             \/ main'.at = "chain" /\ main'.i = main.i
      BY <1>2, <1>a DEF CloseConsumer
    <2>2. \A p \in ProcessorOrder : Closes(p) = main.i - 1
      BY <2>1 DEF Closes
    <2>3. \A p \in ProcessorOrder :
             /\ main'.at = "flush" => Closes(p)' = 0
             /\ main'.at = "close" => Closes(p)' = main.i
             /\ main'.at = "chain" => Closes(p)' = main.i - 1
      BY <1>a, <2>1 DEF Closes
    <2> QED
      BY <1>a, <1>c, <2>1, <2>2, <2>3
  <1>3. CASE CloseProcessor
    <2>0. main.at = "chain"
      BY <1>3 DEF CloseProcessor
    <2>1. CASE main.p > Len(EsProcessor)
      <3>1. UNCHANGED chainVars /\ main' = [at |-> "close", i |-> main.i + 1, p |-> 1]
        BY <1>3, <2>1 DEF CloseProcessor
      <3>2. \A p \in ProcessorOrder : Closes(p) = main.i /\ Closes(p)' = main.i
        <4> TAKE p \in ProcessorOrder
        <4>1. p < main.p
          BY <1>a, <2>1
        <4>2. Closes(p) = main.i
          BY <2>0, <4>1 DEF Closes
        <4>3. Closes(p)' = main.i
          BY <1>a, <3>1 DEF Closes
        <4> QED
          BY <4>2, <4>3
      <3> QED
        BY <1>a, <1>c, <2>0, <3>1, <3>2
    <2>2. CASE main.p \in ProcessorOrder
      <3>1. /\ quit' = [quit EXCEPT ![main.p] = @ + 1]
            /\ UNCHANGED purger
            /\ main' = [main EXCEPT !.p = @ + 1]
        BY <1>3, <1>a, <2>2 DEF CloseProcessor, QuitCapacity
      <3>2. \A p \in ProcessorOrder :
               /\ Spent(p)' = IF p = main.p THEN Spent(p) + 1 ELSE Spent(p)
               /\ Closes(p) = IF p < main.p THEN main.i ELSE main.i - 1
               /\ Closes(p)' = IF p < main.p + 1 THEN main.i ELSE main.i - 1
        BY <1>a, <2>0, <3>1 DEF Spent, Closes
      <3>3. \A p \in ProcessorOrder : Spent(p) <= Closes(p)
        BY <2>0 DEF EsChain
      <3>4. \A p \in ProcessorOrder : Spent(p)' <= Closes(p)'
        <4> TAKE p \in ProcessorOrder
        <4>1. Spent(p) <= IF p < main.p THEN main.i ELSE main.i - 1
          BY <3>2, <3>3
        <4> QED
          BY <1>a, <1>b, <3>2, <4>1, SMT
      <3>5. quit' \in [ProcessorOrder -> Nat]
        <4>1. quit[main.p] + 1 \in Nat
          BY <1>a, <2>2
        <4> QED
          BY <1>a, <3>1, <4>1
      <3>6. main'.p # 0
        BY <1>a, <3>1
      <3> QED
        BY <1>a, <3>1, <3>4, <3>5, <3>6 DEF EsChain
    <2> QED
      BY <1>a, <2>1, <2>2
  <1>4. ASSUME NEW q \in ProcessorOrder, PurgerQuits(q) PROVE EsChain'
    <2>1. /\ purger[q] /\ quit[q] > 0 /\ main' = main
          /\ purger' = [purger EXCEPT ![q] = FALSE]
          /\ quit' = [quit EXCEPT ![q] = @ - 1]
      BY <1>4 DEF PurgerQuits
    <2>0. quit[q] \in Nat /\ quit[q] > 0
      BY <1>a, <2>1
    <2>2. \A p \in ProcessorOrder : Spent(p)' = Spent(p) /\ Closes(p)' = Closes(p)
      <3>1. \A p \in ProcessorOrder : p # q => quit'[p] = quit[p] /\ purger'[p] = purger[p]
        BY <1>a, <2>1
      <3>2. quit'[q] = quit[q] - 1 /\ ~purger'[q]
        BY <1>a, <2>1
      <3>3. ASSUME NEW p \in ProcessorOrder, p # q PROVE Spent(p)' = Spent(p)
        BY <3>1, <3>3 DEF Spent
      <3>4. Spent(q)' = Spent(q)
        BY <2>0, <2>1, <3>2 DEF Spent
      <3> QED
        BY <2>1, <3>3, <3>4 DEF Closes
    <2>3. purger' \in [ProcessorOrder -> BOOLEAN] /\ quit' \in [ProcessorOrder -> Nat]
      <3>1. quit[q] - 1 \in Nat
        BY <2>0
      <3> QED
        BY <1>a, <2>1, <3>1
    <2> QED
      BY <2>1, <2>2, <2>3 DEF EsChain
  <1>5. CASE CloseTrace \/ StopTrace \/ CloseEnd
    <2>1. /\ UNCHANGED chainVars /\ main'.p = 1
          /\ main'.at \in {"flush", "stop", "end", "closed"}
      BY <1>5, <1>a DEF CloseTrace, StopTrace, CloseEnd
    <2> QED
      BY <1>a, <2>1 DEF EsChain
  <1>6. CASE \/ \E t \in Trace : ProcessEnds(t) \/ WatchReceives(t) \/ WatchStops(t)
             \/ UNCHANGED esVars
    <2>1. UNCHANGED <<purger, quit, main>>
      BY <1>6 DEF ProcessEnds, WatchReceives, WatchStops, esVars
    <2> QED
      BY <2>1 DEF EsChain, Spent, Closes
  <1> QED
    BY <1>1, <1>2, <1>3, <1>4, <1>5, <1>6 DEF EsNext

\* With the two traces the program has, Close never waits for ever on the quit
\* channel of a processor of the shared chain, whatever failed before and however
\* the purgers interleave: the first value ends the purger, the second stays in
\* the channel.  A third trace would need a larger channel (source.go Close,
\* processors Close).
THEOREM CloseNeverStuck == Len(EsTraces) <= 2 => (EsSpec => []EsChainRoom)
  <1> SUFFICES ASSUME Len(EsTraces) <= 2 PROVE EsSpec => []EsChainRoom
    OBVIOUS
  <1>1. EsInit => EsChain
    BY EsChainAssumption DEF EsInit, EsChain, Spent, Closes, At, ProcessorOrder
  <1>2. EsInv /\ EsChain /\ [EsNext]_esVars => EsInv' /\ EsChain'
    BY EsStep, EsChainStep
  <1>3. EsInv /\ EsChain => EsChainRoom
    <2> SUFFICES ASSUME EsInv, EsChain, main.at = "chain", main.p \in ProcessorOrder
                 PROVE  quit[main.p] < QuitCapacity \/ purger[main.p]
      BY DEF EsChainRoom
    <2>1. main.i <= 2 /\ main.i \in Nat
      BY EsAssumption DEF EsInv, EsControl
    <2>2. Spent(main.p) <= main.i - 1
      <3>1. Closes(main.p) = main.i - 1
        BY EsChainAssumption DEF Closes, ProcessorOrder
      <3> QED
        BY <3>1 DEF EsChain
    <2>3. quit[main.p] \in Nat
      BY DEF EsChain
    <2> QED
      BY <2>1, <2>2, <2>3 DEF Spent, QuitCapacity
  <1> QED
    BY <1>1, <1>2, <1>3, EsInitInv, PTL DEF EsSpec

\* A trace that is being processed has a watcher until Close ends it.
Watched ==
    \A t \in Trace :
       /\ watch[t] = "waiting" => process[t] \in {"running", "ended"}
       /\ process[t] \in {"running", "ended"} => watch[t] = "waiting" \/ stopped

EsWatchInv ==
    /\ process \in [Trace -> {"none", "running", "ended", "gone"}]
    /\ watch \in [Trace -> {"none", "waiting", "gone"}]
    /\ failed \subseteq Trace
    /\ Watched
    /\ EsErrorsKept

LEMMA EsWatchStep == EsInv /\ EsWatchInv /\ [EsNext]_esVars => EsWatchInv'
  <1> SUFFICES ASSUME EsInv, EsWatchInv, [EsNext]_esVars
               PROVE  EsWatchInv'
    OBVIOUS
  <1> USE DEF EsWatchInv, Watched, EsErrorsKept, sessionVars, goVars, chainVars, esHistory
  <1>1. ASSUME UNCHANGED <<process, watch, failed, reported>>, stopped => stopped'
        PROVE  EsWatchInv'
    BY <1>1
  <1>2. CASE \/ StartTrace \/ StopRunning \/ StartFails \/ OpenTrace \/ Shutdown
             \/ CloseConsumer \/ CloseProcessor \/ CloseTrace \/ StopTrace
             \/ (\E p \in ProcessorOrder : PurgerQuits(p)) \/ UNCHANGED esVars
    <2>1. UNCHANGED <<process, watch, failed, reported, stopped>>
      BY <1>2 DEF StartTrace, StopRunning, StartFails, OpenTrace, Shutdown, CloseConsumer,
                  CloseProcessor, CloseTrace, StopTrace, PurgerQuits, esVars
    <2> QED
      BY <1>1, <2>1
  <1>3. CASE Spawn
    <2>1. EsTraces[main.i] \in Trace
      BY <1>3 DEF Spawn, EsInv, EsControl, Trace
    <2> QED
      BY <1>3, <2>1 DEF Spawn, Cur
  <1>4. CASE CloseEnd
    <2>1. UNCHANGED <<process, watch, failed, reported>> /\ stopped'
      BY <1>4 DEF CloseEnd
    <2> QED
      BY <1>1, <2>1
  <1>5. ASSUME NEW t \in Trace, ProcessEnds(t) PROVE EsWatchInv'
    BY <1>5 DEF ProcessEnds
  <1>6. ASSUME NEW t \in Trace, WatchReceives(t) PROVE EsWatchInv'
    BY <1>6 DEF WatchReceives
  <1>7. ASSUME NEW t \in Trace, WatchStops(t) PROVE EsWatchInv'
    BY <1>7 DEF WatchStops
  <1> QED
    BY <1>2, <1>3, <1>4, <1>5, <1>6, <1>7 DEF EsNext

\* No error that ends the processing of a trace is lost between the goroutine
\* that processes it and its watcher before Close ends the watchers, for any
\* number of traces (source.go Open).
THEOREM ErrorsReachWatcher == EsSpec => []EsErrorsKept
  <1>1. EsInit => EsWatchInv
    BY DEF EsInit, EsWatchInv, Watched, EsErrorsKept
  <1>2. EsInv /\ EsWatchInv /\ [EsNext]_esVars => EsInv' /\ EsWatchInv'
    BY EsStep, EsWatchStep
  <1>3. EsWatchInv => EsErrorsKept
    BY DEF EsWatchInv
  <1> QED
    BY <1>1, <1>2, <1>3, EsInitInv, PTL DEF EsSpec
-----------------------------------------------------------------------------
(* Sequences of events *)

Increasing(s) == \A i, j \in 1 .. Len(s) : i < j => s[i] < s[j]

LEMMA EventNat == AgEvent \subseteq Nat
  BY SizeAssumption, SMT DEF AgEvent

LEMMA ElemsEmpty == Elems(<<>>) = {}
  BY SMT DEF Elems

LEMMA ElemsType ==
    ASSUME NEW s \in Seq(AgEvent)
    PROVE  Elems(s) \subseteq AgEvent
  BY DEF Elems

LEMMA ElemsAppend ==
    ASSUME NEW s \in Seq(AgEvent), NEW e \in AgEvent
    PROVE  Elems(Append(s, e)) = Elems(s) \cup {e}
  <1>1. \A i \in 1 .. Len(s) : i \in 1 .. Len(Append(s, e)) /\ Append(s, e)[i] = s[i]
    BY SMT
  <1>2. Len(s) + 1 \in 1 .. Len(Append(s, e)) /\ Append(s, e)[Len(s) + 1] = e
    BY SMT
  <1>3. \A i \in 1 .. Len(Append(s, e)) : i \in 1 .. Len(s) \/ i = Len(s) + 1
    BY SMT
  <1> QED
    BY <1>1, <1>2, <1>3, Zenon DEF Elems

LEMMA ElemsTail ==
    ASSUME NEW s \in Seq(AgEvent), s # <<>>
    PROVE  /\ Head(s) \in AgEvent /\ Tail(s) \in Seq(AgEvent)
           /\ Elems(s) = Elems(Tail(s)) \cup {Head(s)}
  <1>1. Head(s) \in AgEvent /\ Tail(s) \in Seq(AgEvent) /\ 1 \in 1 .. Len(s) /\ s[1] = Head(s)
    BY SMT
  <1>2. \A i \in 1 .. Len(Tail(s)) : i + 1 \in 1 .. Len(s) /\ Tail(s)[i] = s[i + 1]
    BY SMT
  <1>3. \A i \in 1 .. Len(s) : i = 1 \/ (i - 1 \in 1 .. Len(Tail(s)) /\ Tail(s)[i - 1] = s[i])
    BY SMT
  <1>4. ASSUME NEW x \in Elems(s) PROVE x \in Elems(Tail(s)) \cup {Head(s)}
    <2>1. PICK i \in 1 .. Len(s) : x = s[i]
      BY DEF Elems
    <2>2. CASE i = 1
      BY <1>1, <2>1, <2>2
    <2>3. CASE i - 1 \in 1 .. Len(Tail(s)) /\ Tail(s)[i - 1] = s[i]
      BY <2>1, <2>3 DEF Elems
    <2> QED
      BY <1>3, <2>2, <2>3
  <1>5. ASSUME NEW x \in Elems(Tail(s)) PROVE x \in Elems(s)
    <2>1. PICK i \in 1 .. Len(Tail(s)) : x = Tail(s)[i]
      BY DEF Elems
    <2> QED
      BY <1>2, <2>1 DEF Elems
  <1>6. Head(s) \in Elems(s)
    BY <1>1 DEF Elems
  <1> QED
    BY <1>1, <1>4, <1>5, <1>6

LEMMA ConcatAt ==
    ASSUME NEW s \in Seq(AgEvent), NEW t \in Seq(AgEvent)
    PROVE  \A i \in 1 .. Len(s \o t) :
              \/ i \in 1 .. Len(s) /\ (s \o t)[i] = s[i]
              \/ i - Len(s) \in 1 .. Len(t) /\ (s \o t)[i] = t[i - Len(s)]
  BY SMT

LEMMA ElemsConcat ==
    ASSUME NEW s \in Seq(AgEvent), NEW t \in Seq(AgEvent)
    PROVE  Elems(s \o t) = Elems(s) \cup Elems(t)
  <1>1. \A i \in 1 .. Len(s) : i \in 1 .. Len(s \o t) /\ (s \o t)[i] = s[i]
    BY SMT
  <1>2. \A i \in 1 .. Len(t) : Len(s) + i \in 1 .. Len(s \o t) /\ (s \o t)[Len(s) + i] = t[i]
    BY SMT
  <1>3. \A i \in 1 .. Len(s \o t) :
           \/ i \in 1 .. Len(s) /\ (s \o t)[i] = s[i]
           \/ i - Len(s) \in 1 .. Len(t) /\ (s \o t)[i] = t[i - Len(s)]
    BY ConcatAt
  <1>4. Elems(s \o t) \subseteq Elems(s) \cup Elems(t)
    BY <1>3, Zenon DEF Elems
  <1>5. Elems(s) \cup Elems(t) \subseteq Elems(s \o t)
    BY <1>1, <1>2, Zenon DEF Elems
  <1> QED
    BY <1>4, <1>5

LEMMA IncreasingEmpty == Increasing(<<>>)
  BY SMT DEF Increasing

LEMMA IncreasingAppend ==
    ASSUME NEW s \in Seq(AgEvent), NEW e \in AgEvent, Increasing(s), \A x \in Elems(s) : x < e
    PROVE  Increasing(Append(s, e))
  <1>1. \A i \in 1 .. Len(s) : s[i] < e
    BY DEF Elems
  <1> QED
    BY <1>1, SMT DEF Increasing

LEMMA IncreasingTail ==
    ASSUME NEW s \in Seq(AgEvent), s # <<>>, Increasing(s)
    PROVE  Increasing(Tail(s)) /\ \A x \in Elems(Tail(s)) : Head(s) < x
  <1>1. \A i \in 1 .. Len(Tail(s)) : i + 1 \in 1 .. Len(s) /\ Tail(s)[i] = s[i + 1]
    BY SMT
  <1>2. Increasing(Tail(s))
    BY <1>1, SMT DEF Increasing
  <1>3. 1 \in 1 .. Len(s) /\ s[1] = Head(s)
    BY SMT
  <1>4. \A i \in 1 .. Len(Tail(s)) : Head(s) < Tail(s)[i]
    BY <1>1, <1>3, SMT DEF Increasing
  <1> QED
    BY <1>2, <1>4 DEF Elems

LEMMA IncreasingConcat ==
    ASSUME NEW s \in Seq(AgEvent), NEW t \in Seq(AgEvent), Increasing(s), Increasing(t),
           \A x \in Elems(s), y \in Elems(t) : x < y
    PROVE  Increasing(s \o t)
  <1>1. \A i \in 1 .. Len(s), j \in 1 .. Len(t) : s[i] < t[j]
    BY DEF Elems
  <1>2. \A i \in 1 .. Len(s \o t) :
           \/ i \in 1 .. Len(s) /\ (s \o t)[i] = s[i]
           \/ i - Len(s) \in 1 .. Len(t) /\ (s \o t)[i] = t[i - Len(s)]
    BY ConcatAt
  <1> SUFFICES ASSUME NEW i \in 1 .. Len(s \o t), NEW j \in 1 .. Len(s \o t), i < j
               PROVE  (s \o t)[i] < (s \o t)[j]
    BY DEF Increasing
  <1> QED
    BY <1>1, <1>2, SMT DEF Increasing

LEMMA Prefix ==
    ASSUME NEW s \in Seq(AgEvent), NEW n \in Nat, n <= Len(s)
    PROVE  /\ SubSeq(s, 1, n) \in Seq(AgEvent)
           /\ Increasing(s) => Increasing(SubSeq(s, 1, n))
  <1>1. /\ SubSeq(s, 1, n) \in Seq(AgEvent) /\ Len(SubSeq(s, 1, n)) = n
        /\ \A i \in 1 .. n : SubSeq(s, 1, n)[i] = s[i]
    BY SMT
  <1> QED
    BY <1>1, SMT DEF Increasing

\* In an increasing sequence an event has one position.
LEMMA OnePosition ==
    ASSUME NEW s \in Seq(AgEvent), Increasing(s), NEW i \in 1 .. Len(s), NEW j \in 1 .. Len(s),
           s[i] = s[j]
    PROVE  i = j
  <1>1. s[i] \in AgEvent
    OBVIOUS
  <1>2. ~(s[i] < s[i])
    <2>1. s[i] \in Nat
      BY <1>1, EventNat, Zenon
    <2> QED
      BY <2>1, SMT
  <1>3. ~(i < j) /\ ~(j < i)
    BY <1>2 DEF Increasing
  <1> QED
    BY <1>3, SMT
-----------------------------------------------------------------------------
(* The aggregator: types *)

LEMMA BackoffType ==
    ASSUME NEW b \in InitialBackoff .. MaxBackoff
    PROVE  Backoff(b) \in InitialBackoff .. MaxBackoff
  BY BackoffAssumption, SMT DEF Backoff

\* The bytes Stop reads are a prefix of the slice before or after.
LEMMA TornPrefix ==
    ASSUME AgTypeOK, StopRead
    PROVE  \E a \in {seen, evts}, n \in Nat :
              n <= Len(a) /\ last' = SubSeq(a, 1, n)
  <1>1. PICK s \in Torn : s[2] <= Len(s[1]) /\ last' = SubSeq(s[1], 1, s[2])
    BY DEF StopRead
  <1>2. PICK a \in {seen, evts}, n \in {Len(seen), Len(evts)} : s = <<a, n>>
    BY DEF Torn
  <1>3. n \in Nat
    BY DEF AgTypeOK
  <1> QED
    BY <1>1, <1>2, <1>3

LEMMA AgTypeInit == AgInit => AgTypeOK
  <1>1. 1 \in 1 .. MaxEvents + 1 /\ Len(<<>>) <= Capacity /\ <<>> \in Seq(AgEvent)
    BY SizeAssumption, SMT
  <1>2. InitialBackoff \in InitialBackoff .. MaxBackoff
    BY BackoffAssumption, SMT
  <1> QED
    BY <1>1, <1>2 DEF AgInit, AgTypeOK

LEMMA AgTypeStep == AgTypeOK /\ [AgNext]_agVars => AgTypeOK'
  <1> SUFFICES ASSUME AgTypeOK, [AgNext]_agVars PROVE AgTypeOK'
    OBVIOUS
  <1> USE SizeAssumption, BackoffAssumption DEF AgTypeOK, loopVars, stopVars, workerVars
  <1>1. CASE Arrive
    <2>1. next \in AgEvent /\ next + 1 \in 1 .. MaxEvents + 1
      BY <1>1, SMT DEF Arrive, AgEvent
    <2>2. Append(evtsc, next) \in Seq(AgEvent) /\ Len(Append(evtsc, next)) <= Capacity
      BY <1>1, <2>1, SMT DEF Arrive
    <2> QED
      BY <1>1, <2>1, <2>2 DEF Arrive
  <1>2. CASE RunReceive
    <2>1. Head(evtsc) \in AgEvent /\ Tail(evtsc) \in Seq(AgEvent) /\ Len(Tail(evtsc)) <= Capacity
      BY <1>2, SMT DEF RunReceive
    <2>2. Append(evts, Head(evtsc)) \in Seq(AgEvent)
      BY <2>1
    <2> QED
      BY <1>2, <2>1, <2>2 DEF RunReceive, Pushed
  <1>3. CASE RunFlush
    BY <1>3 DEF RunFlush
  <1>4. CASE RunClear
    BY <1>4 DEF RunClear, AgFlushed
  <1>5. CASE RunPanics \/ RunStops \/ StopSignal \/ StopLoad \/ StopReadsGarbage
    BY <1>5 DEF RunPanics, RunStops, StopSignal, StopLoad, StopReadsGarbage
  <1>6. CASE StopRead
    <2>1. last' \in Seq(AgEvent)
      BY <1>6, TornPrefix, Prefix
    <2>2. /\ seen' = <<>> /\ stop' \in {"sleep", "flush"} /\ flush' \in {"none", "send", "done"}
          /\ UNCHANGED <<next, evtsc, loopVars, signalled, closed, shut, workerVars, panic>>
      BY <1>6 DEF StopRead
    <2> QED
      BY <2>1, <2>2
  <1>7. CASE StopCloses \/ StopTimesOut
    BY <1>7 DEF StopCloses, StopTimesOut, FlushTimeout
  <1>8. CASE StopShutdown
    <2>1. shut' \subseteq Worker
      BY <1>8 DEF StopShutdown, Worker
    <2> QED
      BY <1>8, <2>1 DEF StopShutdown
  <1>9. ASSUME NEW w \in Worker,
               \/ Deliver(w) \/ DeliverLast(w) \/ Connect(w) \/ Reconnect(w) \/ WorkerEnds(w)
        PROVE  AgTypeOK'
    <2>1. CASE Deliver(w)
      BY <2>1 DEF Deliver
    <2>2. CASE DeliverLast(w)
      BY <2>2 DEF DeliverLast
    <2>3. CASE Connect(w)
      BY <2>3 DEF Connect
    <2>4. CASE Reconnect(w)
      BY <2>4 DEF Reconnect, Retries
    <2>5. CASE WorkerEnds(w)
      BY <2>5 DEF WorkerEnds
    <2> QED
      BY <1>9, <2>1, <2>2, <2>3, <2>4, <2>5
  <1>10. ASSUME NEW w \in Worker, ConnectFails(w) PROVE AgTypeOK'
    <2>1. Backoff(backoff[w]) \in InitialBackoff .. MaxBackoff
      BY BackoffType
    <2>2. backoff' = [backoff EXCEPT ![w] = Backoff(backoff[w])]
      BY <1>10 DEF ConnectFails
    <2>3. backoff' \in [Worker -> InitialBackoff .. MaxBackoff]
      BY <2>1, <2>2
    <2>4. worker' \in [Worker -> {"connect", "wait", "range", "publish", "ended"}]
      BY <1>10 DEF ConnectFails
    <2> QED
      BY <1>10, <2>3, <2>4 DEF ConnectFails
  <1>11. ASSUME NEW w \in Worker, Publish(w) PROVE AgTypeOK'
    <2>1. out[w] \o held[w] \in Seq(AgEvent)
      OBVIOUS
    <2>2. out' = [out EXCEPT ![w] = out[w] \o held[w]]
      BY <1>11 DEF Publish
    <2>3. out' \in [Worker -> Seq(AgEvent)]
      BY <2>1, <2>2
    <2> QED
      BY <1>11, <2>3 DEF Publish
  <1>12. ASSUME NEW w \in Worker, PublishFails(w) PROVE AgTypeOK'
    <2>1. dropped' \subseteq AgEvent
      BY <1>12, ElemsType DEF PublishFails
    <2> QED
      BY <1>12, <2>1 DEF PublishFails
  <1>13. CASE UNCHANGED agVars
    BY <1>13 DEF agVars
  <1> QED
    BY <1>1, <1>2, <1>3, <1>4, <1>5, <1>6, <1>7, <1>8, <1>9, <1>10, <1>11, <1>12, <1>13
       DEF AgNext, Rest

\* The aggregator is type correct; a worker's backoff never leaves the range
\* from its first value to maxBackoff, for any backoff and any number of workers.
THEOREM AgTypeCorrect == AgSpec => []AgTypeOK
  BY AgTypeInit, AgTypeStep, PTL DEF AgSpec
-----------------------------------------------------------------------------
(* The aggregator: where the events are *)

(***************************************************************************)
(* An event goes from the channel to the slice and, with a batch, to one   *)
(* worker.  The slice still holds a batch that was delivered until the     *)
(* loop clears it; InLoop leaves that copy out.  The batch of Stop is a    *)
(* second way to the workers.                                              *)
(***************************************************************************)
InLoop(e) ==
    \/ e >= next
    \/ e \in Elems(evtsc)
    \/ e \in Elems(evts) /\ run # "clear"

InLast(e) == flush = "send" /\ e \in Elems(last)

Holders(e) == {w \in Worker : e \in Elems(held[w])}

Passed(e) == e \in dropped \/ \E w \in Worker : e \in Elems(held[w]) \cup Elems(out[w])

LoopOrdered ==
    /\ Increasing(evtsc)
    /\ Increasing(evts)
    /\ \A x \in Elems(evts), y \in Elems(evtsc) : x < y
    /\ \A x \in Elems(evts) \cup Elems(evtsc) : x < next
    /\ run \in {"send", "clear"} => batch = evts

StopOrdered ==
    /\ Increasing(seen)
    /\ Increasing(last)
    /\ stop \in {"no", "load", "read"} => last = <<>> /\ flush = "none"
    /\ flush = "send" => last # <<>>

WorkersOrdered ==
    \A w \in Worker : Increasing(held[w]) /\ (worker[w] # "publish" => held[w] = <<>>)

\* The events of a batch the loop is about to clear are with a worker.
ClearPassed == run = "clear" => \A e \in Elems(evts) : Passed(e)

\* An event has one copy for the loop and one for the batch of Stop, wherever
\* they are.
Bound(e) == IF e \in Elems(last) THEN 2 ELSE 1
Waits(e) == (IF InLoop(e) THEN 1 ELSE 0) + (IF InLast(e) THEN 1 ELSE 0)

OneEach ==
    \A e \in AgEvent :
       /\ IsFiniteSet(Published(e)) /\ IsFiniteSet(Holders(e))
       /\ Cardinality(Published(e)) + Cardinality(Holders(e)) + Waits(e) <= Bound(e)

\* Before Stop has a batch of its own: what a worker published is older than
\* what it publishes, and both are older than what is still in the loop.
WorkersBehind ==
    last = <<>> =>
      \A w \in Worker :
         /\ Increasing(out[w])
         /\ \A x \in Elems(out[w]), y \in Elems(held[w]) : x < y
         /\ \A x \in Elems(out[w]) \cup Elems(held[w]), y \in AgEvent : InLoop(y) => x < y

PlacesInv ==
    AgTypeOK /\ LoopOrdered /\ StopOrdered /\ WorkersOrdered

LEMMA LoopStep == PlacesInv /\ [AgNext]_agVars => LoopOrdered'
  <1> SUFFICES ASSUME PlacesInv, [AgNext]_agVars PROVE LoopOrdered'
    OBVIOUS
  <1> USE DEF PlacesInv, loopVars, stopVars, workerVars
  <1>t. /\ evtsc \in Seq(AgEvent) /\ evts \in Seq(AgEvent) /\ next \in Nat
        /\ Elems(evtsc) \subseteq Nat /\ Elems(evts) \subseteq Nat
    <2>1. evtsc \in Seq(AgEvent) /\ evts \in Seq(AgEvent) /\ next \in Nat
      BY SizeAssumption DEF AgTypeOK
    <2>2. Elems(evtsc) \subseteq AgEvent /\ Elems(evts) \subseteq AgEvent
      BY <2>1, ElemsType
    <2> QED
      BY <2>1, <2>2, EventNat, Zenon
  <1>1. CASE Arrive
    <2>1. next \in AgEvent /\ next' = next + 1 /\ evtsc' = Append(evtsc, next)
          /\ UNCHANGED <<evts, run, batch>>
      BY <1>1, <1>t, SMT DEF Arrive, AgEvent, AgTypeOK
    <2>2. Elems(evtsc') = Elems(evtsc) \cup {next}
      BY <2>1, <1>t, ElemsAppend
    <2>3. Increasing(evtsc')
      BY <2>1, <1>t, IncreasingAppend DEF LoopOrdered
    <2>4. \A x \in Elems(evts), y \in Elems(evtsc') : x < y
      BY <2>2 DEF LoopOrdered
    <2>5. \A x \in Elems(evts) \cup Elems(evtsc') : x < next + 1
      <3>1. \A x \in Nat : x < next => x < next + 1
        BY <1>t, SMT
      <3>2. next < next + 1
        BY <1>t, SMT
      <3> QED
        BY <1>t, <2>2, <3>1, <3>2 DEF LoopOrdered
    <2> QED
      BY <2>1, <2>3, <2>4, <2>5 DEF LoopOrdered
  <1>2. CASE RunReceive
    <2>1. /\ evtsc # <<>> /\ evtsc' = Tail(evtsc) /\ evts' = Append(evts, Head(evtsc))
          /\ run = "select" /\ UNCHANGED <<next, run, batch>>
      BY <1>2 DEF RunReceive, Pushed
    <2>2. Head(evtsc) \in AgEvent /\ Elems(evtsc) = Elems(evtsc') \cup {Head(evtsc)}
      BY <1>t, <2>1, ElemsTail
    <2>3. Elems(evts') = Elems(evts) \cup {Head(evtsc)}
      BY <1>t, <2>1, <2>2, ElemsAppend
    <2>4. Increasing(evtsc') /\ \A y \in Elems(evtsc') : Head(evtsc) < y
      BY <1>t, <2>1, IncreasingTail DEF LoopOrdered
    <2>5. Increasing(evts')
      BY <1>t, <2>1, <2>2, IncreasingAppend DEF LoopOrdered
    <2>6. \A x \in Elems(evts'), y \in Elems(evtsc') : x < y
      BY <2>2, <2>3, <2>4 DEF LoopOrdered
    <2>7. \A x \in Elems(evts') \cup Elems(evtsc') : x < next
      BY <2>2, <2>3 DEF LoopOrdered
    <2> QED
      BY <2>1, <2>4, <2>5, <2>6, <2>7 DEF LoopOrdered
  <1>3. CASE RunFlush
    BY <1>3 DEF RunFlush, LoopOrdered
  <1>4. CASE RunClear
    <2>1. evts' = <<>> /\ run' = "select" /\ UNCHANGED <<next, evtsc>>
      BY <1>4 DEF RunClear, AgFlushed
    <2> QED
      BY <2>1, ElemsEmpty, IncreasingEmpty DEF LoopOrdered
  <1>5. CASE \E w \in Worker : Deliver(w)
    BY <1>5 DEF Deliver, LoopOrdered
  <1>6. CASE RunStops
    BY <1>6 DEF RunStops, LoopOrdered
  <1>7. CASE UNCHANGED <<evtsc, evts, next, run, batch>>
    BY <1>7 DEF LoopOrdered
  <1> QED
    BY <1>1, <1>2, <1>3, <1>4, <1>5, <1>6, <1>7
       DEF AgNext, RunPanics, StopSignal, StopLoad, StopRead, StopReadsGarbage, StopCloses,
           StopTimesOut, StopShutdown, DeliverLast, Connect, ConnectFails, Reconnect,
           Publish, PublishFails, WorkerEnds, Rest, agVars

LEMMA StopStep == PlacesInv /\ [AgNext]_agVars => StopOrdered'
  <1> SUFFICES ASSUME PlacesInv, [AgNext]_agVars PROVE StopOrdered'
    OBVIOUS
  <1> USE DEF PlacesInv, loopVars, stopVars, workerVars
  <1>1. CASE StopSignal \/ StopCloses \/ StopTimesOut \/ StopShutdown
    BY <1>1 DEF StopSignal, StopCloses, StopTimesOut, FlushTimeout, StopShutdown, StopOrdered
  <1>2. CASE StopLoad
    BY <1>2 DEF StopLoad, StopOrdered, LoopOrdered
  <1>3. CASE StopRead
    <2>1. PICK a \in {seen, evts}, n \in Nat : n <= Len(a) /\ last' = SubSeq(a, 1, n)
      BY <1>3, TornPrefix
    <2>2. a \in Seq(AgEvent) /\ Increasing(a)
      BY DEF AgTypeOK, LoopOrdered, StopOrdered
    <2>3. Increasing(last')
      BY <2>1, <2>2, Prefix
    <2>4. seen' = <<>> /\ stop' \in {"sleep", "flush"}
      BY <1>3 DEF StopRead
    <2>5. flush' = "send" => last' # <<>>
      <3>1. PICK s \in Torn :
               /\ s[2] <= Len(s[1]) /\ last' = SubSeq(s[1], 1, s[2])
               /\ s[2] = 0 => flush' = flush
        BY <1>3 DEF StopRead
      <3>2. flush = "none"
        BY <1>3 DEF StopRead, StopOrdered
      <3>3. PICK b \in {seen, evts}, k \in {Len(seen), Len(evts)} : s = <<b, k>>
        BY DEF Torn
      <3>4. b \in Seq(AgEvent) /\ k \in Nat
        BY DEF AgTypeOK
      <3>5. k # 0 /\ k <= Len(b) => Len(SubSeq(b, 1, k)) = k
        BY <3>4, SMT
      <3> QED
        BY <3>1, <3>2, <3>3, <3>4, <3>5, SMT
    <2> QED
      BY <2>3, <2>4, <2>5, IncreasingEmpty DEF StopOrdered
  <1>4. CASE \E w \in Worker : DeliverLast(w)
    BY <1>4 DEF DeliverLast, StopOrdered
  <1>5. CASE UNCHANGED <<seen, last, stop, flush>>
    BY <1>5 DEF StopOrdered
  <1> QED
    BY <1>1, <1>2, <1>3, <1>4, <1>5
       DEF AgNext, Arrive, RunReceive, RunFlush, RunClear, RunPanics, RunStops,
           StopReadsGarbage, Deliver, Connect, ConnectFails, Reconnect, Publish,
           PublishFails, WorkerEnds, Rest, agVars

LEMMA WorkersStep == PlacesInv /\ [AgNext]_agVars => WorkersOrdered'
  <1> SUFFICES ASSUME PlacesInv, [AgNext]_agVars PROVE WorkersOrdered'
    OBVIOUS
  <1> USE DEF PlacesInv, loopVars, stopVars, workerVars
  <1>t. /\ worker \in [Worker -> {"connect", "wait", "range", "publish", "ended"}]
        /\ held \in [Worker -> Seq(AgEvent)]
    BY DEF AgTypeOK
  <1>1. ASSUME NEW w \in Worker, NEW s, Increasing(s),
               worker' = [worker EXCEPT ![w] = "publish"], held' = [held EXCEPT ![w] = s]
        PROVE  WorkersOrdered'
    BY <1>1, <1>t DEF WorkersOrdered
  <1>2. ASSUME NEW w \in Worker, NEW l, worker[w] # "publish",
               worker' = [worker EXCEPT ![w] = l], held' = held
        PROVE  WorkersOrdered'
    BY <1>2, <1>t DEF WorkersOrdered
  <1>3. ASSUME NEW w \in Worker, worker' = [worker EXCEPT ![w] = "range"],
               held' = [held EXCEPT ![w] = <<>>]
        PROVE  WorkersOrdered'
    BY <1>3, <1>t, IncreasingEmpty DEF WorkersOrdered
  <1>4. ASSUME NEW w \in Worker, Deliver(w) PROVE WorkersOrdered'
    BY <1>1, <1>4 DEF Deliver, LoopOrdered
  <1>5. ASSUME NEW w \in Worker, DeliverLast(w) PROVE WorkersOrdered'
    BY <1>1, <1>5 DEF DeliverLast, StopOrdered
  <1>6. ASSUME NEW w \in Worker,
               Connect(w) \/ ConnectFails(w) \/ Reconnect(w) \/ WorkerEnds(w)
        PROVE  WorkersOrdered'
    BY <1>2, <1>6 DEF Connect, ConnectFails, Reconnect, WorkerEnds
  <1>7. ASSUME NEW w \in Worker, Publish(w) \/ PublishFails(w) PROVE WorkersOrdered'
    BY <1>3, <1>7 DEF Publish, PublishFails
  <1>8. CASE UNCHANGED <<worker, held>>
    BY <1>8 DEF WorkersOrdered
  <1> QED
    BY <1>4, <1>5, <1>6, <1>7, <1>8
       DEF AgNext, Arrive, RunReceive, RunFlush, RunClear, RunPanics, RunStops, StopSignal,
           StopLoad, StopRead, StopReadsGarbage, StopCloses, StopTimesOut, StopShutdown,
           Rest, agVars

LEMMA PlacesInit == AgInit => PlacesInv
  <1> SUFFICES ASSUME AgInit PROVE PlacesInv
    OBVIOUS
  <1>1. AgTypeOK
    BY AgTypeInit
  <1>2. LoopOrdered /\ StopOrdered /\ WorkersOrdered
    BY ElemsEmpty, IncreasingEmpty DEF AgInit, LoopOrdered, StopOrdered, WorkersOrdered
  <1> QED
    BY <1>1, <1>2 DEF PlacesInv

LEMMA PlacesStep == PlacesInv /\ [AgNext]_agVars => PlacesInv'
  BY AgTypeStep, LoopStep, StopStep, WorkersStep DEF PlacesInv
-----------------------------------------------------------------------------
(* The aggregator: no event vanishes *)

\* What a worker got is not forgotten: it is published or its batch failed.
LEMMA PassedStays ==
    ASSUME PlacesInv, [AgNext]_agVars, NEW e \in AgEvent, Passed(e)
    PROVE  Passed(e)'
  <1> USE DEF PlacesInv, loopVars, stopVars, workerVars
  <1>t. /\ held \in [Worker -> Seq(AgEvent)] /\ out \in [Worker -> Seq(AgEvent)]
        /\ \A w \in Worker : worker[w] # "publish" => held[w] = <<>>
    BY DEF AgTypeOK, WorkersOrdered
  <1>1. ASSUME NEW w \in Worker, Deliver(w) \/ DeliverLast(w) PROVE Passed(e)'
    <2>1. /\ worker[w] = "range" /\ UNCHANGED <<out, dropped>>
          /\ \A v \in Worker : v # w => held'[v] = held[v]
      BY <1>1, <1>t DEF Deliver, DeliverLast
    <2>2. Elems(held[w]) = {}
      BY <1>t, <2>1, ElemsEmpty
    <2> QED
      BY <2>1, <2>2 DEF Passed
  <1>2. ASSUME NEW w \in Worker, Publish(w) PROVE Passed(e)'
    <2>1. /\ out'[w] = out[w] \o held[w] /\ dropped' = dropped
          /\ \A v \in Worker : v # w => held'[v] = held[v] /\ out'[v] = out[v]
      BY <1>2, <1>t DEF Publish
    <2>2. Elems(out'[w]) = Elems(out[w]) \cup Elems(held[w])
      BY <1>t, <2>1, ElemsConcat
    <2> QED
      BY <2>1, <2>2 DEF Passed
  <1>3. ASSUME NEW w \in Worker, PublishFails(w) PROVE Passed(e)'
    <2>1. /\ dropped' = dropped \cup Elems(held[w]) /\ out' = out
          /\ \A v \in Worker : v # w => held'[v] = held[v]
      BY <1>3, <1>t DEF PublishFails
    <2> QED
      BY <2>1 DEF Passed
  <1>4. CASE UNCHANGED <<held, out, dropped>>
    BY <1>4 DEF Passed
  <1> QED
    BY <1>1, <1>2, <1>3, <1>4
       DEF AgNext, Arrive, RunReceive, RunFlush, RunClear, RunPanics, RunStops, StopSignal,
           StopLoad, StopRead, StopReadsGarbage, StopCloses, StopTimesOut, StopShutdown,
           Connect, ConnectFails, Reconnect, WorkerEnds, Rest, agVars

AccountedInv == PlacesInv /\ ClearPassed /\ AgAccounted

LEMMA AgAccountStep == AccountedInv /\ [AgNext]_agVars => ClearPassed' /\ AgAccounted'
  <1> SUFFICES ASSUME AccountedInv, [AgNext]_agVars PROVE ClearPassed' /\ AgAccounted'
    OBVIOUS
  <1> USE DEF AccountedInv, loopVars, stopVars, workerVars
  <1>t. /\ evtsc \in Seq(AgEvent) /\ evts \in Seq(AgEvent) /\ next \in 1 .. MaxEvents + 1
        /\ batch \in Seq(AgEvent) /\ held \in [Worker -> Seq(AgEvent)]
        /\ Elems(evts) \subseteq AgEvent
    BY ElemsType DEF PlacesInv, AgTypeOK
  <1>a. \A e \in 1 .. next - 1 :
           e \in AgEvent /\ (e \in Elems(evtsc) \cup Elems(evts) \/ Passed(e))
    <2>1. \A e \in 1 .. next - 1 : e \in AgEvent
      BY <1>t, SizeAssumption, SMT DEF AgEvent
    <2> QED
      BY <2>1 DEF AgAccounted, Passed
  <1>p. \A e \in AgEvent : Passed(e) => Passed(e)'
    BY PassedStays
  <1>q. ASSUME \A e \in 1 .. next' - 1 : e \in Elems(evtsc') \cup Elems(evts') \/ Passed(e)'
        PROVE  AgAccounted'
    BY <1>q DEF AgAccounted, Passed
  <1>1. CASE Arrive
    <2>1. next \in AgEvent /\ next' = next + 1 /\ evtsc' = Append(evtsc, next)
          /\ UNCHANGED <<evts, run>>
      BY <1>1, <1>t, SizeAssumption, SMT DEF Arrive, AgEvent
    <2>2. Elems(evtsc') = Elems(evtsc) \cup {next}
      BY <1>t, <2>1, ElemsAppend
    <2>3. \A e \in 1 .. next' - 1 : e \in 1 .. next - 1 \/ e = next
      BY <1>t, <2>1, SizeAssumption, SMT
    <2>4. AgAccounted'
      BY <1>a, <1>p, <1>q, <2>1, <2>2, <2>3
    <2>5. ClearPassed'
      BY <1>t, <1>p, <2>1 DEF ClearPassed
    <2> QED
      BY <2>4, <2>5
  <1>2. CASE RunReceive
    <2>1. /\ evtsc # <<>> /\ evtsc' = Tail(evtsc) /\ evts' = Append(evts, Head(evtsc))
          /\ run' = "select" /\ UNCHANGED next
      BY <1>2 DEF RunReceive, Pushed
    <2>2. Head(evtsc) \in AgEvent /\ Elems(evtsc) = Elems(evtsc') \cup {Head(evtsc)}
      BY <1>t, <2>1, ElemsTail
    <2>3. Elems(evts') = Elems(evts) \cup {Head(evtsc)}
      BY <1>t, <2>1, <2>2, ElemsAppend
    <2>4. AgAccounted'
      BY <1>a, <1>p, <1>q, <2>1, <2>2, <2>3
    <2>5. ClearPassed'
      BY <2>1 DEF ClearPassed
    <2> QED
      BY <2>4, <2>5
  <1>3. CASE RunClear
    <2>1. run = "clear" /\ run' = "select" /\ UNCHANGED <<next, evtsc>>
      BY <1>3 DEF RunClear
    <2>2. \A e \in Elems(evts) : Passed(e)'
      BY <1>t, <1>p, <2>1 DEF ClearPassed
    <2>3. AgAccounted'
      BY <1>a, <1>p, <1>q, <2>1, <2>2
    <2> QED
      BY <2>1, <2>3 DEF ClearPassed
  <1>4. ASSUME NEW w \in Worker, Deliver(w) PROVE ClearPassed' /\ AgAccounted'
    <2>1. /\ run = "send" /\ held'[w] = batch /\ UNCHANGED <<next, evtsc, evts>>
      BY <1>4, <1>t DEF Deliver
    <2>2. batch = evts
      BY <2>1 DEF PlacesInv, LoopOrdered
    <2>3. ClearPassed'
      BY <2>1, <2>2 DEF ClearPassed, Passed
    <2> QED
      BY <1>a, <1>p, <1>q, <2>1, <2>3
  <1>5. CASE UNCHANGED <<next, evtsc, evts>> /\ (run' # "clear" \/ run' = run)
    <2>1. AgAccounted'
      BY <1>a, <1>p, <1>q, <1>5
    <2>2. ClearPassed'
      BY <1>t, <1>p, <1>5 DEF ClearPassed
    <2> QED
      BY <2>1, <2>2
  <1> QED
    BY <1>1, <1>2, <1>3, <1>4, <1>5
       DEF AgNext, RunFlush, RunPanics, RunStops, StopSignal, StopLoad, StopRead,
           StopReadsGarbage, StopCloses, StopTimesOut, StopShutdown, DeliverLast,
           Connect, ConnectFails, Reconnect, Publish, PublishFails, WorkerEnds, Rest, agVars

\* No interleaving of the loop, the workers and Stop makes an event vanish, for
\* any number of events and workers and any capacity of the channel.
THEOREM AggregatorAccounts == AgSpec => []AgAccounted
  <1>1. AgInit => AccountedInv
    <2> SUFFICES ASSUME AgInit PROVE ClearPassed /\ AgAccounted
      BY PlacesInit DEF AccountedInv
    <2>1. next = 1 /\ run = "select"
      BY DEF AgInit
    <2>2. 1 .. next - 1 = {}
      BY <2>1, SMT
    <2> QED
      BY <2>1, <2>2 DEF ClearPassed, AgAccounted
  <1>2. AccountedInv /\ [AgNext]_agVars => AccountedInv'
    BY AgAccountStep, PlacesStep DEF AccountedInv
  <1>3. AccountedInv => AgAccounted
    BY DEF AccountedInv
  <1> QED
    BY <1>1, <1>2, <1>3, PTL DEF AgSpec
-----------------------------------------------------------------------------
(* The aggregator: an event reaches the outputs once, or twice with Stop *)

LEMMA PublishedAt ==
    ASSUME NEW e
    PROVE  \A p : p \in Published(e) <=>
                    \E v \in Worker : \E i \in 1 .. Len(out[v]) :
                       p = <<v, i>> /\ out[v][i] = e
  BY DEF Published

\* Publishing a batch adds one position for an event of the batch and none for
\* another event.
LEMMA PublishedGrows ==
    ASSUME AgTypeOK, AgTypeOK', NEW w \in Worker, NEW e \in AgEvent, Increasing(held[w]),
           out'[w] = out[w] \o held[w], \A v \in Worker : v # w => out'[v] = out[v]
    PROVE  /\ e \notin Elems(held[w]) => Published(e)' \subseteq Published(e)
           /\ \E q : Published(e)' \subseteq Published(e) \cup {q}
  <1> DEFINE n == Len(out[w])
  <1>t. out[w] \in Seq(AgEvent) /\ held[w] \in Seq(AgEvent) /\ n \in Nat
    BY DEF AgTypeOK
  <1>2. \A i \in 1 .. Len(out'[w]) :
           \/ i \in 1 .. n /\ out'[w][i] = out[w][i]
           \/ i - n \in 1 .. Len(held[w]) /\ out'[w][i] = held[w][i - n]
    <2> HIDE DEF n
    <2>1. \A i \in 1 .. Len(out[w] \o held[w]) :
             \/ i \in 1 .. n /\ (out[w] \o held[w])[i] = out[w][i]
             \/ i - n \in 1 .. Len(held[w]) /\ (out[w] \o held[w])[i] = held[w][i - n]
      BY <1>t, ConcatAt, Zenon DEF n
    <2> QED
      BY <2>1, Zenon
  <1>p. \A p : p \in Published(e)' => \E v \in Worker : \E i \in 1 .. Len(out'[v]) :
                                         p = <<v, i>> /\ out'[v][i] = e
    BY DEF Published
  <1>3. ASSUME NEW p, p \in Published(e)'
        PROVE  \/ p \in Published(e)
               \/ \E k \in 1 .. Len(held[w]) : held[w][k] = e /\ p = <<w, n + k>>
    <2>0. PICK v \in Worker : \E i \in 1 .. Len(out'[v]) : p = <<v, i>> /\ out'[v][i] = e
      BY <1>p, <1>3
    <2>1. PICK i \in 1 .. Len(out'[v]) : p = <<v, i>> /\ out'[v][i] = e
      BY <2>0
    <2>2. CASE v # w
      BY <2>1, <2>2, PublishedAt
    <2>3. CASE v = w /\ i \in 1 .. n /\ out'[w][i] = out[w][i]
      BY <2>1, <2>3, PublishedAt
    <2>4. CASE v = w /\ i - n \in 1 .. Len(held[w]) /\ out'[w][i] = held[w][i - n]
      <3>1. n + (i - n) = i
        BY <1>t, <2>1, SMT
      <3> QED
        BY <2>1, <2>4, <3>1
    <2> QED
      BY <1>2, <2>1, <2>2, <2>3, <2>4
  <1>4. CASE e \notin Elems(held[w])
    <2>1. Published(e)' \subseteq Published(e)
      BY <1>3, <1>4 DEF Elems
    <2> QED
      BY <2>1
  <1>5. CASE e \in Elems(held[w])
    <2>1. PICK k \in 1 .. Len(held[w]) : held[w][k] = e
      BY <1>5 DEF Elems
    <2>2. \A j \in 1 .. Len(held[w]) : held[w][j] = e => j = k
      BY <1>t, <2>1, OnePosition
    <2>3. Published(e)' \subseteq Published(e) \cup {<<w, n + k>>}
      BY <1>3, <2>2
    <2> QED
      BY <1>5, <2>3
  <1> QED
    BY <1>4, <1>5

\* A set that gains at most one element grows by at most one.
LEMMA OneMore ==
    ASSUME NEW S, IsFiniteSet(S), NEW x, NEW T, T \subseteq S \cup {x}
    PROVE  IsFiniteSet(T) /\ Cardinality(T) <= Cardinality(S) + 1
  <1>1. IsFiniteSet(S \cup {x}) /\ Cardinality(S \cup {x}) <= Cardinality(S) + 1
    <2>1. Cardinality(S) \in Nat
      BY FS_CardinalityType
    <2> QED
      BY <2>1, FS_AddElement, SMT
  <1>2. IsFiniteSet(T) /\ Cardinality(T) <= Cardinality(S \cup {x})
    BY <1>1, FS_Subset
  <1>3. Cardinality(T) \in Nat /\ Cardinality(S) \in Nat /\ Cardinality(S \cup {x}) \in Nat
    BY <1>1, <1>2, FS_CardinalityType
  <1> QED
    BY <1>1, <1>2, <1>3, SMT

Used(e) == Cardinality(Published(e)) + Cardinality(Holders(e))
Countable(e) == IsFiniteSet(Published(e)) /\ IsFiniteSet(Holders(e))

LEMMA UsedNat ==
    ASSUME NEW e, Countable(e)
    PROVE  Used(e) \in Nat /\ Cardinality(Published(e)) \in Nat /\ Cardinality(Holders(e)) \in Nat
  BY FS_CardinalityType, SMT DEF Countable, Used

LEMMA UsedNatNext ==
    ASSUME NEW e, Countable(e)'
    PROVE  Used(e)' \in Nat
  <1>1. IsFiniteSet(Published(e)') /\ IsFiniteSet(Holders(e)')
    BY DEF Countable
  <1>2. Cardinality(Published(e)') \in Nat /\ Cardinality(Holders(e)') \in Nat
    BY <1>1, FS_CardinalityType
  <1> QED
    BY <1>2, SMT DEF Used

LEMMA UsedSame ==
    ASSUME NEW e \in AgEvent, Countable(e), out' = out, Holders(e)' \subseteq Holders(e)
    PROVE  Countable(e)' /\ Used(e)' <= Used(e)
  <1>1. Published(e)' = Published(e)
    BY DEF Published
  <1>2. IsFiniteSet(Holders(e)') /\ Cardinality(Holders(e)') <= Cardinality(Holders(e))
    BY FS_Subset DEF Countable
  <1>3. Cardinality(Holders(e)') \in Nat
    BY <1>2, FS_CardinalityType
  <1>4. Cardinality(Published(e)) \in Nat /\ Cardinality(Holders(e)) \in Nat
    BY UsedNat
  <1> QED
    BY <1>1, <1>2, <1>3, <1>4, SMT DEF Used, Countable

\* A worker w takes the batch s.
LEMMA UsedDelivered ==
    ASSUME AgTypeOK, NEW e \in AgEvent, Countable(e), NEW w \in Worker, NEW s,
           out' = out, held' = [held EXCEPT ![w] = s]
    PROVE  /\ Countable(e)'
           /\ Used(e)' <= Used(e) + (IF e \in Elems(s) THEN 1 ELSE 0)
  <1>1. held'[w] = s /\ \A v \in Worker : v # w => held'[v] = held[v]
    BY DEF AgTypeOK
  <1>2. CASE e \notin Elems(s)
    <2>1. Holders(e)' \subseteq Holders(e)
      BY <1>1, <1>2 DEF Holders
    <2>2. Countable(e)' /\ Used(e)' <= Used(e)
      BY <2>1, UsedSame
    <2>3. Used(e) \in Nat
      BY UsedNat
    <2> QED
      BY <1>2, <2>2, <2>3, SMT
  <1>3. CASE e \in Elems(s)
    <2>1. Published(e)' = Published(e)
      BY DEF Published
    <2>2. Holders(e)' \subseteq Holders(e) \cup {w}
      BY <1>1 DEF Holders
    <2>3. IsFiniteSet(Holders(e)') /\ Cardinality(Holders(e)') <= Cardinality(Holders(e)) + 1
      BY <2>2, OneMore DEF Countable
    <2>4. Cardinality(Holders(e)') \in Nat
      BY <2>3, FS_CardinalityType
    <2>5. Cardinality(Published(e)) \in Nat /\ Cardinality(Holders(e)) \in Nat
      BY UsedNat
    <2> QED
      BY <1>3, <2>1, <2>3, <2>4, <2>5, SMT DEF Used, Countable
  <1> QED
    BY <1>2, <1>3

LEMMA UsedPublished ==
    ASSUME PlacesInv, PlacesInv', NEW e \in AgEvent, Countable(e), NEW w \in Worker, Publish(w)
    PROVE  Countable(e)' /\ Used(e)' <= Used(e)
  <1>1. /\ out' = [out EXCEPT ![w] = out[w] \o held[w]]
        /\ held' = [held EXCEPT ![w] = <<>>]
    BY DEF Publish
  <1>2. /\ held'[w] = <<>> /\ out'[w] = out[w] \o held[w]
        /\ \A v \in Worker : v # w => held'[v] = held[v] /\ out'[v] = out[v]
    BY <1>1 DEF PlacesInv, AgTypeOK
  <1>3. Increasing(held[w])
    BY DEF PlacesInv, WorkersOrdered
  <1>4. /\ e \notin Elems(held[w]) => Published(e)' \subseteq Published(e)
        /\ \E q : Published(e)' \subseteq Published(e) \cup {q}
    BY <1>2, <1>3, PublishedGrows DEF PlacesInv
  <1>5. Holders(e)' = Holders(e) \ {w}
    BY <1>2, ElemsEmpty DEF Holders
  <1>6. /\ IsFiniteSet(Holders(e)')
        /\ Cardinality(Holders(e)') = IF w \in Holders(e) THEN Cardinality(Holders(e)) - 1
                                      ELSE Cardinality(Holders(e))
    <2>1. IsFiniteSet(Holders(e))
      BY DEF Countable
    <2>2. /\ IsFiniteSet(Holders(e) \ {w})
          /\ Cardinality(Holders(e) \ {w}) = IF w \in Holders(e) THEN Cardinality(Holders(e)) - 1
                                             ELSE Cardinality(Holders(e))
      BY <2>1, FS_RemoveElement
    <2> QED
      BY <1>5, <2>2, Zenon
  <1>7. w \in Holders(e) <=> e \in Elems(held[w])
    BY DEF Holders
  <1>8. /\ IsFiniteSet(Published(e)')
        /\ Cardinality(Published(e)') <= Cardinality(Published(e)) + 1
        /\ e \notin Elems(held[w]) => Cardinality(Published(e)') <= Cardinality(Published(e))
    <2>1. PICK q : Published(e)' \subseteq Published(e) \cup {q}
      BY <1>4
    <2>2. /\ IsFiniteSet(Published(e)')
          /\ Cardinality(Published(e)') <= Cardinality(Published(e)) + 1
      BY <2>1, OneMore DEF Countable
    <2>3. e \notin Elems(held[w]) => Cardinality(Published(e)') <= Cardinality(Published(e))
      BY <1>4, FS_Subset DEF Countable
    <2> QED
      BY <2>2, <2>3
  <1>9. /\ Cardinality(Published(e)') \in Nat /\ Cardinality(Holders(e)') \in Nat
        /\ Cardinality(Published(e)) \in Nat /\ Cardinality(Holders(e)) \in Nat
    BY <1>6, <1>8, UsedNat, FS_CardinalityType
  <1> QED
    BY <1>6, <1>7, <1>8, <1>9, SMT DEF Used, Countable

\* An event never comes back to the loop.
LEMMA LoopLeft ==
    ASSUME PlacesInv, [AgNext]_agVars, NEW e \in AgEvent, InLoop(e)'
    PROVE  InLoop(e)
  <1> USE DEF PlacesInv, loopVars, stopVars, workerVars
  <1>t. /\ evtsc \in Seq(AgEvent) /\ evts \in Seq(AgEvent) /\ next \in Nat /\ e \in Nat
    <2>1. e \in Nat
      BY EventNat, Zenon
    <2> QED
      BY <2>1, SizeAssumption DEF AgTypeOK
  <1>1. CASE Arrive
    <2>1. next \in AgEvent /\ next' = next + 1 /\ evtsc' = Append(evtsc, next)
          /\ UNCHANGED <<evts, run>>
      BY <1>1, <1>t, SMT DEF Arrive, AgEvent, AgTypeOK
    <2>2. Elems(evtsc') = Elems(evtsc) \cup {next}
      BY <2>1, <1>t, ElemsAppend
    <2>3. e >= next + 1 => e >= next
      BY <1>t, SMT
    <2>4. next >= next
      BY <1>t, SMT
    <2> QED
      BY <2>1, <2>2, <2>3, <2>4 DEF InLoop
  <1>2. CASE RunReceive
    <2>1. /\ evtsc # <<>> /\ evtsc' = Tail(evtsc) /\ evts' = Append(evts, Head(evtsc))
          /\ UNCHANGED <<next, run>>
      BY <1>2 DEF RunReceive, Pushed
    <2>2. Head(evtsc) \in AgEvent /\ Elems(evtsc) = Elems(evtsc') \cup {Head(evtsc)}
      BY <1>t, <2>1, ElemsTail
    <2>3. Elems(evts') = Elems(evts) \cup {Head(evtsc)}
      BY <1>t, <2>1, <2>2, ElemsAppend
    <2> QED
      BY <2>1, <2>2, <2>3 DEF InLoop
  <1>3. CASE RunClear
    <2>1. evts' = <<>> /\ UNCHANGED <<next, evtsc>>
      BY <1>3 DEF RunClear, AgFlushed
    <2> QED
      BY <2>1, ElemsEmpty DEF InLoop
  <1>4. CASE RunFlush \/ RunStops
    BY <1>4 DEF RunFlush, RunStops, InLoop
  <1>5. CASE \E w \in Worker : Deliver(w)
    BY <1>5 DEF Deliver, InLoop
  <1>6. CASE UNCHANGED <<next, evtsc, evts, run>>
    BY <1>6 DEF InLoop
  <1> QED
    BY <1>1, <1>2, <1>3, <1>4, <1>5, <1>6
       DEF AgNext, RunPanics, StopSignal, StopLoad, StopRead, StopReadsGarbage, StopCloses,
           StopTimesOut, StopShutdown, DeliverLast, Connect, ConnectFails, Reconnect,
           Publish, PublishFails, WorkerEnds, Rest, agVars

\* A batch that is delivered leaves the loop.
LEMMA LoopDelivers ==
    ASSUME PlacesInv, NEW w \in Worker, Deliver(w), NEW e \in AgEvent, e \in Elems(batch)
    PROVE  InLoop(e) /\ ~InLoop(e)'
  <1>1. run = "send" /\ run' = "clear" /\ UNCHANGED <<next, evtsc, evts>>
    BY DEF Deliver
  <1>2. e \in Elems(evts)
    BY <1>1 DEF PlacesInv, LoopOrdered
  <1>3. e \in Nat /\ next \in Nat
    BY EventNat, SizeAssumption DEF PlacesInv, AgTypeOK
  <1>4. e < next /\ (e \in Elems(evtsc) => e < e)
    BY <1>2 DEF PlacesInv, LoopOrdered
  <1>5. ~(e >= next) /\ ~(e < e)
    BY <1>3, <1>4, SMT
  <1> QED
    BY <1>1, <1>2, <1>4, <1>5 DEF InLoop

LEMMA OneEachStep ==
    ASSUME PlacesInv, PlacesInv', OneEach, [AgNext]_agVars
    PROVE  OneEach'
  <1> USE DEF loopVars, stopVars, workerVars
  <1> SUFFICES ASSUME NEW e \in AgEvent
               PROVE  Countable(e)' /\ Used(e)' + Waits(e)' <= Bound(e)'
    BY DEF OneEach, Countable, Used
  <1>u. Countable(e) /\ Used(e) + Waits(e) <= Bound(e)
    BY DEF OneEach, Countable, Used
  <1>n. Used(e) \in Nat
    BY <1>u, UsedNat
  <1>l. InLoop(e)' => InLoop(e)
    BY LoopLeft
  \* the ways a step may change the two sides of the inequality
  <1>1. ASSUME Countable(e)', Used(e)' <= Used(e), last' = last, InLast(e)' => InLast(e)
        PROVE  Countable(e)' /\ Used(e)' + Waits(e)' <= Bound(e)'
    <2>1. Used(e)' \in Nat
      BY <1>1, UsedNatNext
    <2>2. Bound(e)' = Bound(e)
      BY <1>1 DEF Bound
    <2>3. Waits(e) \in Nat /\ Waits(e)' \in Nat /\ Waits(e)' <= Waits(e)
      BY <1>1, <1>l DEF Waits
    <2>4. Bound(e) \in Nat
      BY DEF Bound
    <2> QED
      BY <1>1, <1>n, <1>u, <2>1, <2>2, <2>3, <2>4, SMT
  <1>2. ASSUME Countable(e)', NEW x \in BOOLEAN, Used(e)' <= Used(e) + (IF x THEN 1 ELSE 0),
               last' = last,
               InLast(e)' => InLast(e),
               x => (InLoop(e) /\ ~InLoop(e)') \/ (InLast(e) /\ ~InLast(e)')
        PROVE  Countable(e)' /\ Used(e)' + Waits(e)' <= Bound(e)'
    <2>1. Used(e)' \in Nat
      BY <1>2, UsedNatNext
    <2>2. Bound(e)' = Bound(e)
      BY <1>2 DEF Bound
    <2>3. /\ Waits(e) \in Nat /\ Waits(e)' \in Nat
          /\ Waits(e)' + (IF x THEN 1 ELSE 0) <= Waits(e)
      BY <1>2, <1>l DEF Waits
    <2>4. Bound(e) \in Nat
      BY DEF Bound
    <2> QED
      BY <1>2, <1>n, <1>u, <2>1, <2>2, <2>3, <2>4, SMT
  <1>3. ASSUME NEW w \in Worker, Deliver(w)
        PROVE  Countable(e)' /\ Used(e)' + Waits(e)' <= Bound(e)'
    <2>1. /\ held' = [held EXCEPT ![w] = batch] /\ UNCHANGED <<out, last, flush>>
      BY <1>3 DEF Deliver
    <2>2. PICK s : s = batch
      OBVIOUS
    <2>3. Countable(e)' /\ Used(e)' <= Used(e) + (IF e \in Elems(s) THEN 1 ELSE 0)
      BY <1>u, <2>1, <2>2, UsedDelivered DEF PlacesInv
    <2>4. e \in Elems(s) => InLoop(e) /\ ~InLoop(e)'
      BY <1>3, <2>2, LoopDelivers
    <2>5. InLast(e)' => InLast(e)
      BY <2>1 DEF InLast
    <2>6. (e \in Elems(s)) \in BOOLEAN
      OBVIOUS
    <2> QED
      BY <1>2, <2>1, <2>3, <2>4, <2>5, <2>6
  <1>4. ASSUME NEW w \in Worker, DeliverLast(w)
        PROVE  Countable(e)' /\ Used(e)' + Waits(e)' <= Bound(e)'
    <2>1. /\ held' = [held EXCEPT ![w] = last] /\ UNCHANGED <<out, last>>
          /\ flush = "send" /\ flush' = "done"
      BY <1>4 DEF DeliverLast
    <2>2. PICK s : s = last
      OBVIOUS
    <2>3. Countable(e)' /\ Used(e)' <= Used(e) + (IF e \in Elems(s) THEN 1 ELSE 0)
      BY <1>u, <2>1, <2>2, UsedDelivered DEF PlacesInv
    <2>4. (e \in Elems(s) => InLast(e)) /\ ~InLast(e)'
      BY <2>1, <2>2 DEF InLast
    <2>6. (e \in Elems(s)) \in BOOLEAN
      OBVIOUS
    <2> QED
      BY <1>2, <2>1, <2>3, <2>4, <2>6
  <1>5. ASSUME NEW w \in Worker, Publish(w)
        PROVE  Countable(e)' /\ Used(e)' + Waits(e)' <= Bound(e)'
    <2>1. Countable(e)' /\ Used(e)' <= Used(e)
      BY <1>u, <1>5, UsedPublished
    <2>2. UNCHANGED <<last, flush>>
      BY <1>5 DEF Publish
    <2> QED
      BY <1>1, <2>1, <2>2 DEF InLast
  <1>6. ASSUME NEW w \in Worker, PublishFails(w)
        PROVE  Countable(e)' /\ Used(e)' + Waits(e)' <= Bound(e)'
    <2>1. UNCHANGED <<out, last, flush>> /\ held' = [held EXCEPT ![w] = <<>>]
      BY <1>6 DEF PublishFails
    <2>2. Holders(e)' \subseteq Holders(e)
      BY <2>1, ElemsEmpty DEF Holders, PlacesInv, AgTypeOK
    <2>3. Countable(e)' /\ Used(e)' <= Used(e)
      BY <1>u, <2>1, <2>2, UsedSame
    <2> QED
      BY <1>1, <2>1, <2>3 DEF InLast
  <1>7. CASE StopRead
    <2>1. UNCHANGED <<out, held>> /\ stop = "read"
      BY <1>7 DEF StopRead
    <2>2. Countable(e)' /\ Used(e)' <= Used(e)
      <3>1. Holders(e)' \subseteq Holders(e)
        BY <2>1 DEF Holders
      <3> QED
        BY <1>u, <2>1, <3>1, UsedSame
    <2>3. last = <<>> /\ flush = "none"
      BY <2>1 DEF PlacesInv, StopOrdered
    <2>4. Bound(e) = 1 /\ Waits(e) = IF InLoop(e) THEN 1 ELSE 0
      BY <2>3, ElemsEmpty DEF Bound, Waits, InLast
    <2>5. Waits(e) \in Nat /\ Waits(e)' \in Nat /\ Bound(e)' \in Nat
          /\ Waits(e)' + 1 <= Waits(e) + Bound(e)'
      BY <1>l, <2>4 DEF Waits, Bound, InLast
    <2>6. Used(e)' \in Nat
      BY <2>2, UsedNatNext
    <2> QED
      BY <1>u, <1>n, <2>2, <2>4, <2>5, <2>6, SMT
  <1>8. CASE UNCHANGED <<out, held, last, flush>>
    <2>1. Holders(e)' \subseteq Holders(e)
      BY <1>8 DEF Holders
    <2>2. Countable(e)' /\ Used(e)' <= Used(e)
      BY <1>8, <1>u, <2>1, UsedSame
    <2> QED
      BY <1>1, <1>8, <2>2 DEF InLast
  <1> QED
    BY <1>3, <1>4, <1>5, <1>6, <1>7, <1>8
       DEF AgNext, Arrive, RunReceive, RunFlush, RunClear, RunPanics, RunStops, StopSignal,
           StopLoad, StopReadsGarbage, StopCloses, StopTimesOut, StopShutdown, Connect,
           ConnectFails, Reconnect, WorkerEnds, Rest, agVars

\* The outputs get an event once, and a second time only when it was in the
\* batch that Stop read from under the loop: whatever the number of workers,
\* however the slice was torn and whichever batches failed to publish.
THEOREM TwiceOnlyByStop == AgSpec => []DuplicatedOnlyByStop
  <1> DEFINE I == PlacesInv /\ OneEach
  <1>1. AgInit => I
    <2> SUFFICES ASSUME AgInit, NEW e \in AgEvent
                 PROVE  Countable(e) /\ Used(e) + Waits(e) <= Bound(e)
      BY PlacesInit DEF OneEach, Countable, Used
    <2>1. Published(e) = {} /\ Holders(e) = {}
      <3>1. \A w \in Worker : Len(out[w]) = 0 /\ Elems(held[w]) = {}
        BY ElemsEmpty DEF AgInit
      <3>2. \A w \in Worker : 1 .. Len(out[w]) = {}
        BY <3>1, SMT
      <3> QED
        BY <3>1, <3>2 DEF Published, Holders
    <2>2. Countable(e) /\ Used(e) = 0
      BY <2>1, FS_EmptySet, SMT DEF Countable, Used
    <2>3. Waits(e) \in {0, 1} /\ Bound(e) \in {1, 2}
      BY DEF AgInit, Waits, InLast, Bound
    <2> QED
      BY <2>2, <2>3, SMT
  <1>2. I /\ [AgNext]_agVars => I'
    BY OneEachStep, PlacesStep
  <1>3. I => DuplicatedOnlyByStop
    <2> SUFFICES ASSUME I, NEW e \in AgEvent
                 PROVE  Copies(e) <= Bound(e)
      BY DEF DuplicatedOnlyByStop, Bound
    <2>1. Countable(e) /\ Used(e) + Waits(e) <= Bound(e)
      BY DEF OneEach, Countable, Used
    <2>2. Used(e) \in Nat /\ Waits(e) \in Nat /\ Bound(e) \in Nat
      BY <2>1, UsedNat DEF Waits, Bound
    <2>3. Copies(e) = Used(e)
      BY DEF Copies, Used, Holders
    <2> QED
      BY <2>1, <2>2, <2>3, SMT
  <1> QED
    BY <1>1, <1>2, <1>3, PTL DEF AgSpec
-----------------------------------------------------------------------------
(* The aggregator: a worker publishes in the order of arrival *)

LEMMA BehindStep ==
    ASSUME PlacesInv, PlacesInv', WorkersBehind, [AgNext]_agVars
    PROVE  WorkersBehind'
  <1> USE DEF loopVars, stopVars, workerVars
  <1> SUFFICES ASSUME last' = <<>>, NEW w \in Worker
               PROVE  /\ Increasing(out[w])'
                      /\ \A x \in Elems(out[w])', y \in Elems(held[w])' : x < y
                      /\ \A x \in (Elems(out[w]) \cup Elems(held[w]))', y \in AgEvent :
                            InLoop(y)' => x < y
    BY DEF WorkersBehind
  <1>t. /\ held \in [Worker -> Seq(AgEvent)] /\ out \in [Worker -> Seq(AgEvent)]
        /\ batch \in Seq(AgEvent)
    BY DEF PlacesInv, AgTypeOK
  <1>l. \A y \in AgEvent : InLoop(y)' => InLoop(y)
    BY LoopLeft
  <1>0. CASE StopRead
    <2>1. UNCHANGED <<out, held>> /\ stop = "read"
      BY <1>0 DEF StopRead
    <2>2. last = <<>>
      BY <2>1 DEF PlacesInv, StopOrdered
    <2> QED
      BY <1>l, <2>1, <2>2 DEF WorkersBehind
  <1>1. ASSUME NEW v \in Worker, Deliver(v), last = <<>>
        PROVE  /\ Increasing(out[w])'
               /\ \A x \in Elems(out[w])', y \in Elems(held[w])' : x < y
               /\ \A x \in (Elems(out[w]) \cup Elems(held[w]))', y \in AgEvent :
                     InLoop(y)' => x < y
    <2>1. /\ out' = out /\ held'[v] = batch /\ \A u \in Worker : u # v => held'[u] = held[u]
      BY <1>1, <1>t DEF Deliver
    <2>2. CASE w # v
      BY <1>1, <1>l, <2>1, <2>2 DEF WorkersBehind
    <2>3. CASE w = v
      <3>1. \A x \in Elems(batch) : x \in AgEvent /\ InLoop(x)
        BY <1>1, <1>t, ElemsType, LoopDelivers
      <3>2. \A x \in Elems(out[w]), y \in Elems(batch) : x < y
        BY <1>1, <3>1 DEF WorkersBehind
      <3>3. \A x \in Elems(batch), y \in AgEvent : InLoop(y)' => x < y
        <4>1. /\ batch = evts /\ run' = "clear" /\ UNCHANGED <<next, evtsc>>
              /\ \A x \in Elems(evts), y \in Elems(evtsc) : x < y
              /\ \A x \in Elems(evts) : x < next
          BY <1>1 DEF Deliver, PlacesInv, LoopOrdered
        <4>2. \A x, y \in Nat : x < next /\ y >= next => x < y
          <5>1. next \in Nat
            BY SizeAssumption DEF PlacesInv, AgTypeOK
          <5> QED
            BY <5>1, SMT
        <4>3. AgEvent \subseteq Nat
          BY EventNat
        <4>4. SUFFICES ASSUME NEW x \in Elems(batch), NEW y \in AgEvent, InLoop(y)'
                       PROVE  x < y
          OBVIOUS
        <4>5. y \in Elems(evtsc) \/ y >= next
          BY <4>1, <4>4 DEF InLoop
        <4> QED
          BY <3>1, <4>1, <4>2, <4>3, <4>5
      <3> QED
        BY <1>1, <1>l, <2>1, <2>3, <3>2, <3>3 DEF WorkersBehind
    <2> QED
      BY <2>2, <2>3
  <1>2. CASE last # <<>>
    BY <1>2, <1>0 DEF AgNext, Arrive, RunReceive, RunFlush, RunClear, RunPanics, RunStops,
           StopSignal, StopLoad, StopReadsGarbage, StopCloses, StopTimesOut, StopShutdown,
           Deliver, DeliverLast, Connect, ConnectFails, Reconnect, Publish, PublishFails,
           WorkerEnds, Rest, agVars
  <1>3. ASSUME NEW v \in Worker, Publish(v), last = <<>>
        PROVE  /\ Increasing(out[w])'
               /\ \A x \in Elems(out[w])', y \in Elems(held[w])' : x < y
               /\ \A x \in (Elems(out[w]) \cup Elems(held[w]))', y \in AgEvent :
                     InLoop(y)' => x < y
    <2>1. /\ out'[v] = out[v] \o held[v] /\ held'[v] = <<>>
          /\ \A u \in Worker : u # v => held'[u] = held[u] /\ out'[u] = out[u]
      BY <1>3, <1>t DEF Publish
    <2>2. CASE w # v
      BY <1>3, <1>l, <2>1, <2>2 DEF WorkersBehind
    <2>3. CASE w = v
      <3>1. /\ Elems(out'[v]) = Elems(out[v]) \cup Elems(held[v]) /\ Elems(held'[v]) = {}
        BY <1>t, <2>1, ElemsConcat, ElemsEmpty
      <3>2. Increasing(out'[v])
        <4>1. Increasing(out[v]) /\ Increasing(held[v])
              /\ \A x \in Elems(out[v]), y \in Elems(held[v]) : x < y
          BY <1>3 DEF WorkersBehind, PlacesInv, WorkersOrdered
        <4>2. Increasing(out[v] \o held[v])
          BY <1>t, <4>1, IncreasingConcat
        <4> QED
          BY <2>1, <4>2
      <3> QED
        BY <1>3, <1>l, <2>3, <3>1, <3>2 DEF WorkersBehind
    <2> QED
      BY <2>2, <2>3
  <1>4. ASSUME NEW v \in Worker, PublishFails(v), last = <<>>
        PROVE  /\ Increasing(out[w])'
               /\ \A x \in Elems(out[w])', y \in Elems(held[w])' : x < y
               /\ \A x \in (Elems(out[w]) \cup Elems(held[w]))', y \in AgEvent :
                     InLoop(y)' => x < y
    <2>1. /\ out' = out /\ held'[v] = <<>>
          /\ \A u \in Worker : u # v => held'[u] = held[u]
      BY <1>4, <1>t DEF PublishFails
    <2>2. Elems(held'[w]) \subseteq Elems(held[w])
      BY <2>1, ElemsEmpty
    <2> QED
      BY <1>4, <1>l, <2>1, <2>2 DEF WorkersBehind
  <1>5. CASE UNCHANGED <<out, held>> /\ last = <<>>
    BY <1>5, <1>l DEF WorkersBehind
  <1>6. ASSUME NEW v \in Worker, DeliverLast(v) PROVE FALSE
    BY <1>6 DEF DeliverLast, PlacesInv, StopOrdered
  <1> QED
    BY <1>0, <1>1, <1>2, <1>3, <1>4, <1>5, <1>6
       DEF AgNext, Arrive, RunReceive, RunFlush, RunClear, RunPanics, RunStops, StopSignal,
           StopLoad, StopReadsGarbage, StopCloses, StopTimesOut, StopShutdown, Connect,
           ConnectFails, Reconnect, WorkerEnds, Rest, agVars

\* As long as Stop has no batch of its own, each worker publishes the events in
\* the order in which they arrived, however the batches are spread over the
\* workers and whichever of them fail.
THEOREM PublishedInOrder == AgSpec => []WorkerOrder
  <1> DEFINE I == PlacesInv /\ WorkersBehind
  <1>1. AgInit => I
    <2> SUFFICES ASSUME AgInit PROVE WorkersBehind
      BY PlacesInit
    <2>1. \A w \in Worker : Increasing(out[w]) /\ Elems(out[w]) = {} /\ Elems(held[w]) = {}
      BY ElemsEmpty, IncreasingEmpty DEF AgInit
    <2> QED
      BY <2>1 DEF WorkersBehind
  <1>2. I /\ [AgNext]_agVars => I'
    BY BehindStep, PlacesStep
  <1>3. I => WorkerOrder
    BY DEF WorkersBehind, WorkerOrder, Increasing
  <1> QED
    BY <1>1, <1>2, <1>3, PTL DEF AgSpec
=============================================================================
