----------------------------- MODULE Aggregator -----------------------------
(***************************************************************************)
(* The buffered aggregator and its output workers (pkg/aggregator).  The   *)
(* run loop collects events from the queue's channel and hands a batch to  *)
(* a worker over the unbuffered work queue on each tick of the flusher.    *)
(* Stop, called by the shutting down program, signals the loop, reads the  *)
(* loop's slice of events without a lock, sends it as a last batch, closes *)
(* the work queue and closes the clients of the workers.                   *)
(***************************************************************************)
EXTENDS Integers, Sequences, FiniteSets

CONSTANTS
    MaxEvents,      \* bound: events that arrive
    Capacity,       \* capacity of the channel of events
    Workers,        \* number of load balanced clients
    InitialBackoff, \* backoff of a new worker, in seconds
    MaxBackoff      \* maxBackoff, in seconds

ASSUME SizeAssumption ==
    MaxEvents \in Nat /\ Capacity \in Nat \ {0} /\ Workers \in Nat \ {0}
ASSUME BackoffAssumption ==
    /\ InitialBackoff \in Nat \ {0}
    /\ MaxBackoff \in Nat
    /\ InitialBackoff <= MaxBackoff

AgEvent == 1 .. MaxEvents
Worker == 1 .. Workers

VARIABLES
    next,      \* the next event to arrive
    evtsc,     \* the channel of events
    evts,      \* the loop's slice of events
    run,       \* where the loop is
    batch,     \* the batch the loop sends
    signalled, \* a value is in the channel stop
    stop,      \* where Stop is
    seen,      \* the slice as it was when Stop started to read it
    flush,     \* the goroutine of Stop: "none", "send" or "done"
    last,      \* the batch Stop sends
    closed,    \* the work queue is closed
    worker,    \* worker -> where it is
    held,      \* worker -> batch it publishes
    backoff,   \* worker -> its backoff
    shut,      \* the workers whose client was closed
    out,       \* history: worker -> events it published, in order
    dropped,   \* history: events of batches a client failed to publish
    panic      \* the program has crashed

loopVars == <<evts, run, batch>>
stopVars == <<signalled, stop, seen, flush, last, closed, shut>>
workerVars == <<worker, held, backoff, out, dropped>>
agVars == <<next, evtsc, loopVars, stopVars, workerVars, panic>>

Elems(s) == {s[i] : i \in 1 .. Len(s)}
-----------------------------------------------------------------------------
AgInit ==
    /\ next = 1
    /\ evtsc = <<>>
    /\ evts = <<>> /\ run = "select" /\ batch = <<>>
    /\ signalled = FALSE /\ stop = "no" /\ seen = <<>>
    /\ flush = "none" /\ last = <<>> /\ closed = FALSE /\ shut = {}
    /\ worker = [w \in Worker |-> "connect"]
    /\ held = [w \in Worker |-> <<>>]
    /\ backoff = [w \in Worker |-> InitialBackoff]
    /\ out = [w \in Worker |-> <<>>]
    /\ dropped = {}
    /\ panic = FALSE

\* A queue pushes an event to the channel, and blocks while it is full.
Arrive ==
    /\ ~panic
    /\ next <= MaxEvents
    /\ Len(evtsc) < Capacity
    /\ evtsc' = Append(evtsc, next)
    /\ next' = next + 1
    /\ UNCHANGED <<loopVars, stopVars, workerVars, panic>>
-----------------------------------------------------------------------------
(* The loop *)

\* A slice that forgets what it held.
OnlyNew(e) == <<e>>

Pushed(e) == Append(evts, e)

RunReceive ==
    /\ ~panic
    /\ run = "select"
    /\ evtsc # <<>>
    /\ evts' = Pushed(Head(evtsc))
    /\ evtsc' = Tail(evtsc)
    /\ UNCHANGED <<next, run, batch, stopVars, workerVars, panic>>

\* A tick with events in the slice; one without them changes nothing.
RunFlush ==
    /\ ~panic
    /\ run = "select"
    /\ evts # <<>>
    /\ batch' = evts
    /\ run' = "send"
    /\ UNCHANGED <<next, evtsc, evts, stopVars, workerVars, panic>>

\* A worker that ranges over the work queue takes the loop's batch.
Deliver(w) ==
    /\ ~panic
    /\ run = "send"
    /\ ~closed
    /\ worker[w] = "range"
    /\ worker' = [worker EXCEPT ![w] = "publish"]
    /\ held' = [held EXCEPT ![w] = batch]
    /\ run' = "clear"
    /\ UNCHANGED <<next, evtsc, evts, batch, stopVars, backoff, out, dropped, panic>>

\* A flush that forgets to empty the slice.
Kept == evts

AgFlushed == <<>>

RunClear ==
    /\ ~panic
    /\ run = "clear"
    /\ evts' = AgFlushed
    /\ batch' = <<>>
    /\ run' = "select"
    /\ UNCHANGED <<next, evtsc, stopVars, workerVars, panic>>

\* A send on a closed channel.
RunPanics ==
    /\ ~panic
    /\ run = "send"
    /\ closed
    /\ panic' = TRUE
    /\ UNCHANGED <<next, evtsc, loopVars, stopVars, workerVars>>

RunStops ==
    /\ ~panic
    /\ run = "select"
    /\ signalled
    /\ signalled' = FALSE
    /\ run' = "stopped"
    /\ UNCHANGED <<next, evtsc, evts, batch, stop, seen, flush, last, closed, shut,
                   workerVars, panic>>
-----------------------------------------------------------------------------
(* Stop *)

\* The channel stop has room for one value.
StopSignal ==
    /\ ~panic
    /\ stop = "no"
    /\ signalled' = TRUE
    /\ stop' = "load"
    /\ UNCHANGED <<next, evtsc, loopVars, seen, flush, last, closed, shut,
                   workerVars, panic>>

\* Stop reads the loop's slice, a pointer and a length, while the loop may
\* assign it: either of them may be the old or the new one.
StopLoad ==
    /\ ~panic
    /\ stop = "load"
    /\ seen' = evts
    /\ stop' = "read"
    /\ UNCHANGED <<next, evtsc, loopVars, signalled, flush, last, closed, shut,
                   workerVars, panic>>

Torn == {<<a, n>> : a \in {seen, evts}, n \in {Len(seen), Len(evts)}}

StopRead ==
    /\ ~panic
    /\ stop = "read"
    /\ \E s \in Torn :
         /\ s[2] <= Len(s[1])
         /\ last' = SubSeq(s[1], 1, s[2])
         /\ IF s[2] = 0
              THEN stop' = "sleep" /\ flush' = flush
              ELSE stop' = "flush" /\ flush' = "send"
    /\ seen' = <<>>
    /\ UNCHANGED <<next, evtsc, loopVars, signalled, closed, shut, workerVars, panic>>

\* The length reaches beyond the array.
StopReadsGarbage ==
    /\ ~panic
    /\ stop = "read"
    /\ \E s \in Torn : s[2] > Len(s[1])
    /\ panic' = TRUE
    /\ UNCHANGED <<next, evtsc, loopVars, stopVars, workerVars>>

\* A worker takes the batch of Stop, which may have returned by then.
DeliverLast(w) ==
    /\ ~panic
    /\ flush = "send"
    /\ worker[w] = "range"
    /\ worker' = [worker EXCEPT ![w] = "publish"]
    /\ held' = [held EXCEPT ![w] = last]
    /\ flush' = "done"
    /\ UNCHANGED <<next, evtsc, loopVars, signalled, stop, seen, last, closed, shut,
                   backoff, out, dropped, panic>>

StopCloses ==
    /\ ~panic
    /\ stop = "flush"
    /\ flush = "done"
    /\ closed' = TRUE
    /\ stop' = "sleep"
    /\ UNCHANGED <<next, evtsc, loopVars, signalled, seen, flush, last, shut,
                   workerVars, panic>>

\* A flush that waits for ever.
NoTimeout == FALSE

FlushTimeout == stop = "flush"

StopTimesOut ==
    /\ ~panic
    /\ FlushTimeout
    /\ stop' = "timedout"
    /\ UNCHANGED <<next, evtsc, loopVars, signalled, seen, flush, last, closed, shut,
                   workerVars, panic>>

\* submitter.shutdown closes the clients in order up to the first that fails.
StopShutdown ==
    /\ ~panic
    /\ stop = "sleep"
    /\ \E n \in Worker : shut' = 1 .. n
    /\ stop' = "returned"
    /\ UNCHANGED <<next, evtsc, loopVars, signalled, seen, flush, last, closed,
                   workerVars, panic>>
-----------------------------------------------------------------------------
(* The workers *)

Connect(w) ==
    /\ ~panic
    /\ worker[w] = "connect"
    /\ worker' = [worker EXCEPT ![w] = "range"]
    /\ UNCHANGED <<next, evtsc, loopVars, stopVars, held, backoff, out, dropped, panic>>

Backoff(b) == IF 2 * b > MaxBackoff THEN MaxBackoff ELSE 2 * b

ConnectFails(w) ==
    /\ ~panic
    /\ worker[w] = "connect"
    /\ backoff' = [backoff EXCEPT ![w] = Backoff(@)]
    /\ worker' = [worker EXCEPT ![w] = "wait"]
    /\ UNCHANGED <<next, evtsc, loopVars, stopVars, held, out, dropped, panic>>

\* A worker that gives up.
GivesUp == "ended"

Retries == "connect"

Reconnect(w) ==
    /\ ~panic
    /\ worker[w] = "wait"
    /\ worker' = [worker EXCEPT ![w] = Retries]
    /\ UNCHANGED <<next, evtsc, loopVars, stopVars, held, backoff, out, dropped, panic>>

Publish(w) ==
    /\ ~panic
    /\ worker[w] = "publish"
    /\ out' = [out EXCEPT ![w] = @ \o held[w]]
    /\ held' = [held EXCEPT ![w] = <<>>]
    /\ worker' = [worker EXCEPT ![w] = "range"]
    /\ UNCHANGED <<next, evtsc, loopVars, stopVars, backoff, dropped, panic>>

\* The error is counted and logged, the batch is gone.
PublishFails(w) ==
    /\ ~panic
    /\ worker[w] = "publish"
    /\ dropped' = dropped \cup Elems(held[w])
    /\ held' = [held EXCEPT ![w] = <<>>]
    /\ worker' = [worker EXCEPT ![w] = "range"]
    /\ UNCHANGED <<next, evtsc, loopVars, stopVars, backoff, out, panic>>

\* The range over the closed work queue ends.
WorkerEnds(w) ==
    /\ ~panic
    /\ worker[w] = "range"
    /\ closed
    /\ worker' = [worker EXCEPT ![w] = "ended"]
    /\ UNCHANGED <<next, evtsc, loopVars, stopVars, held, backoff, out, dropped, panic>>
-----------------------------------------------------------------------------
\* The program crashed, or Stop returned and the loop has ended.
Rest ==
    /\ panic \/ (run = "stopped" /\ stop \in {"returned", "timedout"})
    /\ UNCHANGED agVars

AgNext ==
    \/ Arrive
    \/ RunReceive
    \/ RunFlush
    \/ RunClear
    \/ RunPanics
    \/ RunStops
    \/ StopSignal
    \/ StopLoad
    \/ StopRead
    \/ StopReadsGarbage
    \/ StopCloses
    \/ StopTimesOut
    \/ StopShutdown
    \/ \E w \in Worker : Deliver(w)
    \/ \E w \in Worker : DeliverLast(w)
    \/ \E w \in Worker : Connect(w)
    \/ \E w \in Worker : ConnectFails(w)
    \/ \E w \in Worker : Reconnect(w)
    \/ \E w \in Worker : Publish(w)
    \/ \E w \in Worker : PublishFails(w)
    \/ \E w \in Worker : WorkerEnds(w)
    \/ Rest

\* The scheduler runs a goroutine that can go on, select takes a case that
\* stays ready, and a timer that was set fires.
AgFairness ==
    /\ WF_agVars(RunReceive) /\ WF_agVars(RunFlush) /\ WF_agVars(RunClear)
    /\ WF_agVars(\E w \in Worker : Deliver(w))
    /\ \A w \in Worker : WF_agVars(Reconnect(w))
    /\ WF_agVars(StopLoad) /\ WF_agVars(StopRead \/ StopReadsGarbage)
    /\ WF_agVars(StopCloses \/ StopTimesOut)
    /\ WF_agVars(StopShutdown)

AgSpec == AgInit /\ [][AgNext]_agVars /\ AgFairness
-----------------------------------------------------------------------------
(* Properties *)

\* The fields of the aggregator and of its workers have their types; the
\* backoff stays between its first value and maxBackoff.
AgTypeOK ==
    /\ next \in 1 .. MaxEvents + 1
    /\ evtsc \in Seq(AgEvent) /\ Len(evtsc) <= Capacity
    /\ evts \in Seq(AgEvent) /\ batch \in Seq(AgEvent)
    /\ run \in {"select", "send", "clear", "stopped"}
    /\ signalled \in BOOLEAN /\ closed \in BOOLEAN /\ panic \in BOOLEAN
    /\ stop \in {"no", "load", "read", "flush", "sleep", "returned", "timedout"}
    /\ flush \in {"none", "send", "done"}
    /\ seen \in Seq(AgEvent) /\ last \in Seq(AgEvent)
    /\ shut \subseteq Worker
    /\ worker \in [Worker -> {"connect", "wait", "range", "publish", "ended"}]
    /\ held \in [Worker -> Seq(AgEvent)]
    /\ backoff \in [Worker -> InitialBackoff .. MaxBackoff]
    /\ out \in [Worker -> Seq(AgEvent)]
    /\ dropped \subseteq AgEvent

\* Where event e was published: the worker and the position.
Published(e) ==
    {p \in UNION {{w} \X (1 .. Len(out[w])) : w \in Worker} : out[p[1]][p[2]] = e}

\* How often event e was published or is being published.
Copies(e) ==
    Cardinality(Published(e)) + Cardinality({w \in Worker : e \in Elems(held[w])})

\* The outputs get an event once.  Only an event in the last batch, which Stop
\* reads from under the loop, may reach them a second time, never a third.
DuplicatedOnlyByStop ==
    \A e \in AgEvent : Copies(e) <= IF e \in Elems(last) THEN 2 ELSE 1

\* An event the loop took from the channel is in its slice, with a worker, or
\* published, or its batch failed to publish: no interleaving of the loop, the
\* workers and Stop makes it vanish.
AgAccounted ==
    \A e \in 1 .. next - 1 :
      \/ e \in Elems(evtsc) \cup Elems(evts) \cup dropped
      \/ \E w \in Worker : e \in Elems(held[w]) \cup Elems(out[w])

\* Until Stop has a batch of its own, a worker publishes events in the order
\* in which they arrived, failed batches left out.
WorkerOrder ==
    last = <<>> =>
      \A w \in Worker : \A i, j \in 1 .. Len(out[w]) : i < j => out[w][i] < out[w][j]

\* Stop returns, whether or not an output can be reached, unless the program
\* crashes.
StopReturns == stop = "load" ~> (panic \/ stop \in {"returned", "timedout"})

\* The outputs can be reached now and then, and their clients return.
OutputsUp ==
    \A w \in Worker : SF_agVars(Connect(w)) /\ WF_agVars(Publish(w) \/ PublishFails(w))

\* If the outputs can be reached, an event in the slice gets to a worker unless
\* the aggregator is stopped.
Drained ==
    OutputsUp =>
      \A e \in AgEvent :
        e \in Elems(evts) ~>
          \/ stop # "no"
          \/ e \in dropped
          \/ \E w \in Worker : e \in Elems(out[w])
=============================================================================
