---------------------------- MODULE MCLifecycle ----------------------------
(***************************************************************************)
(* The components that run in threads and goroutines of their own while    *)
(* the program starts, runs and stops: the queue with its callstack        *)
(* decorator, the event source, the sequencer, the aggregator and the      *)
(* queries of handle names.  They share no state, so one run takes the     *)
(* behaviours of each, the others staying in their initial states.         *)
(***************************************************************************)
EXTENDS MCStackwalkQueue, Sequencer, EventSource, Aggregator, HandleTimeout

VARIABLE part   \* the component whose behaviours these are

TwoTraces == <<"security", "kernel">>
TwoProcessors == <<"fs", "registry">>

LcInit ==
    /\ part \in {"queue", "sequencer", "source", "aggregator", "timeout"}
    /\ Init /\ SqInit /\ AgInit /\ HtInit
    /\ EsInit /\ (part # "source" => \A t \in Trace : ~etw[t])

LcNext ==
    /\ UNCHANGED part
    /\ \/ part = "queue" /\ Next /\ SpawnOrPlain'
          /\ UNCHANGED <<sqVars, esVars, agVars, htVars>>
       \/ part = "sequencer" /\ SqNext /\ UNCHANGED <<vars, esVars, agVars, htVars>>
       \/ part = "source" /\ EsNext /\ UNCHANGED <<vars, sqVars, agVars, htVars>>
       \/ part = "aggregator" /\ AgNext /\ UNCHANGED <<vars, sqVars, esVars, htVars>>
       \/ part = "timeout" /\ HtNext /\ UNCHANGED <<vars, sqVars, esVars, agVars>>

\* The fairness of each component, while its behaviours are taken.
LcFairness ==
    /\ \A t \in Thread : /\ WF_vars(part = "queue" /\ (Listen(t) \/ Send(t)))
                         /\ SF_vars(part = "queue" /\ RemoveBucket(t))
    /\ WF_vars(part = "queue" /\ (FinishPop \/ PopPanics))
    /\ SF_vars(part = "queue" /\ FlushStart)
    /\ WF_vars(part = "queue" /\ \E id \in Word : FlushBucket(id))
    /\ WF_vars(part = "queue" /\ (FlushKeep \/ FlushEvict \/ FlushBucketDone \/ FlushEnd))
    /\ WF_vars(part = "queue" /\ Dequeue)
    /\ WF_sqVars(part = "sequencer" /\ SqTicker)
    /\ WF_esVars(part = "source" /\ MainStep)
    /\ \A t \in Trace : WF_esVars(part = "source" /\ (WatchReceives(t) \/ WatchStops(t)))
    /\ \A p \in ProcessorOrder : WF_esVars(part = "source" /\ PurgerQuits(p))
    /\ WF_agVars(part = "aggregator" /\ RunReceive)
    /\ WF_agVars(part = "aggregator" /\ RunFlush)
    /\ WF_agVars(part = "aggregator" /\ RunClear)
    /\ WF_agVars(part = "aggregator" /\ \E w \in Worker : Deliver(w))
    /\ \A w \in Worker : WF_agVars(part = "aggregator" /\ Reconnect(w))
    /\ WF_agVars(part = "aggregator" /\ (StopLoad \/ StopRead \/ StopReadsGarbage))
    /\ WF_agVars(part = "aggregator" /\ (StopCloses \/ StopTimesOut))
    /\ WF_agVars(part = "aggregator" /\ StopShutdown)
    /\ WF_htVars(part = "timeout" /\ HtCaller)

LcSpec ==
    LcInit /\ [][LcNext]_<<part, vars, sqVars, esVars, agVars, htVars>> /\ LcFairness
=============================================================================
