---------------------------- MODULE EventSource ----------------------------
(***************************************************************************)
(* The life of the event source (internal/etw/source.go, trace.go) from    *)
(* Open to the Close of Shutdown (internal/bootstrap/bootstrap.go).  Open  *)
(* starts the ETW sessions one after the other, gives each a consumer and  *)
(* spawns a goroutine that processes it and one that watches for the end   *)
(* of the processing.  Any step may fail.  Close marks the consumers,      *)
(* closes the chain of processors once per consumer, flushes, closes and   *)
(* stops the sessions and ends the watchers.                               *)
(***************************************************************************)
EXTENDS Naturals, Sequences

CONSTANTS
    EsTraces,     \* the traces in the order in which Open starts them
    EsProcessor   \* the processors that have a purger goroutine

ASSUME EsAssumption == EsTraces \in Seq(STRING) /\ Len(EsTraces) > 0
ASSUME EsChainAssumption == EsProcessor \in Seq(STRING)

VARIABLES
    etw,       \* trace -> its session runs in the system
    started,   \* trace -> startHandle is valid
    opened,    \* trace -> openHandle is valid
    consumer,  \* trace -> "none", "open" or "closing"
    process,   \* trace -> the goroutine in Process: none, running, ended, gone
    watch,     \* trace -> the goroutine that waits for it: none, waiting, gone
    purger,    \* processor -> its goroutine runs
    quit,      \* processor -> values in its channel quit
    main,      \* where the main goroutine is: [at, i, p]
    stopped,   \* the channel stop is closed
    reported,  \* history: traces whose processing error reached errs
    failed,    \* history: traces whose processing ended with an error
    unstopped  \* history: traces that StopTrace failed to stop in Close

sessionVars == <<etw, started, opened>>
goVars == <<process, watch>>
chainVars == <<purger, quit>>
esHistory == <<reported, failed, unstopped>>
esVars == <<sessionVars, consumer, goVars, chainVars, main, stopped, esHistory>>

Trace == {EsTraces[i] : i \in 1 .. Len(EsTraces)}
ProcessorOrder == 1 .. Len(EsProcessor)
Cur == EsTraces[main.i]
At(a, i, p) == [at |-> a, i |-> i, p |-> p]

\* The capacity of the channel quit of a processor.
Unbuffered == 0
QuitCapacity == 1
-----------------------------------------------------------------------------
\* A session of an earlier run of the program may still be there.
EsInit ==
    /\ etw \in [Trace -> BOOLEAN]
    /\ started = [t \in Trace |-> FALSE] /\ opened = [t \in Trace |-> FALSE]
    /\ consumer = [t \in Trace |-> "none"]
    /\ process = [t \in Trace |-> "none"] /\ watch = [t \in Trace |-> "none"]
    /\ purger = [p \in ProcessorOrder |-> TRUE] /\ quit = [p \in ProcessorOrder |-> 0]
    /\ main = At("start", 1, 1) /\ stopped = FALSE
    /\ reported = {} /\ failed = {} /\ unstopped = {}

\* StartTrace refuses a session that runs already; Open then stops it and tries
\* once more.  Start also fails after StartTrace, when it enables a provider.
StartTrace ==
    /\ main.at \in {"start", "restart"} /\ ~etw[Cur]
    /\ etw' = [etw EXCEPT ![Cur] = TRUE]
    /\ started' = [started EXCEPT ![Cur] = TRUE]
    /\ \E next \in {"consume", "close"} : main' = At(next, IF next = "close" THEN 1 ELSE main.i, 1)
    /\ UNCHANGED <<opened, consumer, goVars, chainVars, stopped, esHistory>>

StopRunning ==
    /\ main.at = "start" /\ etw[Cur]
    /\ etw' = [etw EXCEPT ![Cur] = FALSE]
    /\ main' = [main EXCEPT !.at = "restart"]
    /\ UNCHANGED <<started, opened, consumer, goVars, chainVars, stopped, esHistory>>

\* Too many sessions, access denied, or a session that cannot be stopped.
StartFails ==
    /\ main.at \in {"start", "restart"}
    /\ main' = At("close", 1, 1)
    /\ UNCHANGED <<sessionVars, consumer, goVars, chainVars, stopped, esHistory>>

\* The consumer is appended before the trace is opened; if that fails, Open
\* returns and the program closes the source.
OpenTrace ==
    /\ main.at = "consume"
    /\ consumer' = [consumer EXCEPT ![Cur] = "open"]
    /\ \/ /\ opened' = [opened EXCEPT ![Cur] = TRUE]
          /\ main' = [main EXCEPT !.at = "spawn"]
       \/ /\ main' = At("close", 1, 1)
          /\ UNCHANGED opened
    /\ UNCHANGED <<etw, started, goVars, chainVars, stopped, esHistory>>

Spawn ==
    /\ main.at = "spawn"
    /\ process' = [process EXCEPT ![Cur] = "running"]
    /\ watch' = [watch EXCEPT ![Cur] = "waiting"]
    /\ main' = IF main.i < Len(EsTraces) THEN At("start", main.i + 1, 1) ELSE At("run", 1, 1)
    /\ UNCHANGED <<sessionVars, consumer, chainVars, stopped, esHistory>>

\* The termination signal arrives.
Shutdown ==
    /\ main.at = "run"
    /\ main' = At("close", 1, 1)
    /\ UNCHANGED <<sessionVars, consumer, goVars, chainVars, stopped, esHistory>>
-----------------------------------------------------------------------------
\* ProcessTrace returns when the trace is closed, when its session is stopped
\* by someone else, or with an error.
ProcessEnds(t) ==
    /\ process[t] = "running"
    /\ process' = [process EXCEPT ![t] = "ended"]
    /\ failed' \in IF opened[t] THEN {failed, failed \cup {t}} ELSE {failed}
    /\ UNCHANGED <<sessionVars, consumer, watch, chainVars, main, stopped, reported, unstopped>>

\* The unbuffered send of Process meets the receive of the watcher.
WatchReceives(t) ==
    /\ process[t] = "ended" /\ watch[t] = "waiting"
    /\ process' = [process EXCEPT ![t] = "gone"]
    /\ watch' = [watch EXCEPT ![t] = "gone"]
    /\ reported' = IF t \in failed THEN reported \cup {t} ELSE reported
    /\ UNCHANGED <<sessionVars, consumer, chainVars, main, stopped, failed, unstopped>>

WatchStops(t) ==
    /\ stopped /\ watch[t] = "waiting"
    /\ watch' = [watch EXCEPT ![t] = "gone"]
    /\ UNCHANGED <<sessionVars, consumer, process, chainVars, main, stopped, esHistory>>

\* The purger of a processor ends when it receives from quit.
PurgerQuits(p) ==
    /\ purger[p] /\ quit[p] > 0
    /\ purger' = [purger EXCEPT ![p] = FALSE]
    /\ quit' = [quit EXCEPT ![p] = @ - 1]
    /\ UNCHANGED <<sessionVars, consumer, goVars, main, stopped, esHistory>>
-----------------------------------------------------------------------------
\* Close: for each consumer the processors of the shared chain are closed, each
\* by a send on its quit, which waits for room or for the purger.
CloseConsumer ==
    /\ main.at = "close"
    /\ IF main.i > Len(EsTraces) THEN main' = At("flush", 1, 1) /\ UNCHANGED consumer
       ELSE IF consumer[Cur] = "none"
            THEN main' = At("close", main.i + 1, 1) /\ UNCHANGED consumer
            ELSE /\ consumer' = [consumer EXCEPT ![Cur] = "closing"]
                 /\ main' = At("chain", main.i, 1)
    /\ UNCHANGED <<sessionVars, goVars, chainVars, stopped, esHistory>>

CloseProcessor ==
    /\ main.at = "chain"
    /\ IF main.p > Len(EsProcessor)
       THEN main' = At("close", main.i + 1, 1) /\ UNCHANGED chainVars
       ELSE /\ \/ /\ quit[main.p] < QuitCapacity
                  /\ quit' = [quit EXCEPT ![main.p] = @ + 1]
                  /\ UNCHANGED purger
               \/ /\ QuitCapacity = 0 /\ purger[main.p]
                  /\ purger' = [purger EXCEPT ![main.p] = FALSE]
                  /\ UNCHANGED quit
            /\ main' = [main EXCEPT !.p = @ + 1]
    /\ UNCHANGED <<sessionVars, consumer, goVars, stopped, esHistory>>

SkipOpened(t) == ~opened[t]
Skip(t) == ~started[t]

\* A started trace is flushed, closed and stopped; errors are only logged.
CloseTrace ==
    /\ main.at = "flush"
    /\ IF main.i > Len(EsTraces) THEN main' = At("end", 1, 1) /\ UNCHANGED opened
       ELSE IF Skip(Cur) THEN main' = At("flush", main.i + 1, 1) /\ UNCHANGED opened
            ELSE /\ opened' = [opened EXCEPT ![Cur] = FALSE]
                 /\ main' = At("stop", main.i, 1)
    /\ UNCHANGED <<etw, started, consumer, goVars, chainVars, stopped, esHistory>>

StopTrace ==
    /\ main.at = "stop"
    /\ \/ etw' = [etw EXCEPT ![Cur] = FALSE] /\ UNCHANGED unstopped
       \/ unstopped' = unstopped \cup {Cur} /\ UNCHANGED etw
    /\ main' = At("flush", main.i + 1, 1)
    /\ UNCHANGED <<started, opened, consumer, goVars, chainVars, stopped, reported, failed>>

CloseEnd ==
    /\ main.at = "end"
    /\ stopped' = TRUE
    /\ main' = At("closed", 1, 1)
    /\ UNCHANGED <<sessionVars, consumer, goVars, chainVars, esHistory>>

EsNext ==
    \/ StartTrace \/ StopRunning \/ StartFails \/ OpenTrace \/ Spawn \/ Shutdown
    \/ CloseConsumer \/ CloseProcessor \/ CloseTrace \/ StopTrace \/ CloseEnd
    \/ \E t \in Trace : ProcessEnds(t) \/ WatchReceives(t) \/ WatchStops(t)
    \/ \E p \in ProcessorOrder : PurgerQuits(p)

EsSpec == EsInit /\ [][EsNext]_esVars

MainStep ==
    \/ StartTrace \/ StopRunning \/ StartFails \/ OpenTrace \/ Spawn
    \/ CloseConsumer \/ CloseProcessor \/ CloseTrace \/ StopTrace \/ CloseEnd

\* Goroutines that can run do; a signal need not come.
EsFairness ==
    /\ WF_esVars(MainStep)
    /\ \A t \in Trace : WF_esVars(WatchReceives(t) \/ WatchStops(t))
    /\ \A p \in ProcessorOrder : WF_esVars(PurgerQuits(p))
-----------------------------------------------------------------------------
\* Once Close has returned, no session that this run of the program started is
\* left in the system unless StopTrace itself failed: also a session whose
\* Start failed half way and one that could not be opened.
EsNoSessionLeft ==
    main.at = "closed" => \A t \in Trace : started[t] /\ etw[t] => t \in unstopped

\* Close returns, although it closes the processors of the shared chain once
\* for every consumer and their purgers take one value only; and when the
\* processing of a trace ends with an error, the error reaches the channel of
\* errors, and from there the log, unless Close is faster.
EsCloseReturns ==
    /\ main.at = "close" ~> main.at = "closed"
    /\ \A t \in Trace : process[t] = "ended" /\ t \in failed ~> t \in reported \/ stopped

\* When Close sends on the quit of a processor there is room in the channel, or
\* its purger has not ended and makes some: the send does not wait for ever.
EsChainRoom ==
    main.at = "chain" /\ main.p \in ProcessorOrder =>
       quit[main.p] < QuitCapacity \/ purger[main.p]

\* An error that ended the processing of a trace was passed on to the channel of
\* errors, or its watcher still waits for it, unless Close has ended the watchers.
EsErrorsKept ==
    \A t \in failed :
       \/ t \in reported
       \/ stopped
       \/ watch[t] = "waiting" /\ process[t] \in {"running", "ended"}
=============================================================================
