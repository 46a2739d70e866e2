--------------------------- MODULE StackwalkQueue ---------------------------
(***************************************************************************)
(* The event queue of one trace consumer and its callstack decorator       *)
(* (pkg/event/queue.go, pkg/event/stackwalk.go).                           *)
(*                                                                         *)
(* Two threads use the queue.  The trace thread calls Queue.Push for every *)
(* event ETW hands it; the flusher goroutine wakes up on a ticker and runs *)
(* StackwalkDecorator.flush.  Both end up in Queue.push, which runs the    *)
(* listeners and sends the event to the channel the aggregator drains.     *)
(* The decorator's mutex is the variable mux.                              *)
(***************************************************************************)
EXTENDS Integers, Sequences, FiniteSets

CONSTANTS
    Event,            \* the events ETW may deliver, each at most once
    None,             \* the Go nil
    WordSize,         \* 2^32 in the program: pids and tids are uint32
    QueueCap,         \* capacity of the channel
    StackEnrichment,  \* NewQueue's stackEnrichment argument
    EnqueueAlways,    \* NewQueue's enqueueAlways argument
    Verdicts,         \* what the chain of listeners may answer
    Ageable           \* events that may outlive maxQueueTTLPeriod in a bucket

(***************************************************************************)
(* kind "VirtualAlloc" stands for itself and LoadImage, which also carry a *)
(* process id parameter, "Registry" for the enrichable types without one   *)
(* (registry, file and threadpool events), "Plain" for the types that      *)
(* CanEnrichStack rejects.                                                 *)
(***************************************************************************)
Kind == {"CreateProcess", "CreateThread", "TerminateThread", "VirtualAlloc",
         "Registry", "Plain", "StackWalk"}

Word == 0 .. WordSize - 1

Thread == {"trace", "flusher"}

(***************************************************************************)
(* pid and tid are the event header's; the other numbers are parameters:   *)
(* the process (ppid is its parent, rppid its real parent) or the thread   *)
(* (ttid, of process tpid) the event is about.  "of" is the name of the    *)
(* event whose callstack a StackWalk event carries; the code cannot see it.*)
(***************************************************************************)
EventRecord ==
    [name : STRING, kind : Kind, pid : Word, tid : Word, ppid : Word,
     rppid : Word, tpid : Word, ttid : Word, of : STRING]

ASSUME EventAssumption == Event \subseteq EventRecord
ASSUME NoneAssumption == None \notin Event /\ None \notin Thread
ASSUME WordAssumption == WordSize \in Nat \ {0}
ASSUME CapAssumption == QueueCap \in Nat \ {0}
ASSUME FlagAssumption == StackEnrichment \in BOOLEAN /\ EnqueueAlways \in BOOLEAN
ASSUME VerdictAssumption == Verdicts \subseteq {"error", "enqueue", "skip"}
ASSUME AgeableAssumption == Ageable \subseteq Event

VARIABLES
    toCome,    \* events ETW has not delivered yet
    aged,      \* events older than maxQueueTTLPeriod
    buckets,   \* stack id -> FIFO of pending events (absent bucket: <<>>)
    procs,     \* pid -> CreateProcess event with a surrogate parent, or None
    stack,     \* event -> StackWalk event whose callstack it was given
    mux,       \* owner of the decorator's mutex
    chan,      \* the output channel
    pc,        \* thread -> where it is
    cur,       \* thread -> argument of the Queue.push it executes
    enq,       \* thread -> the local variable enqueue of Queue.push
    popped,    \* the event Pop returns once the surrogate has been pushed
    todo,      \* stack ids flush has still to visit
    fid,       \* stack id flush is visiting
    rest,      \* events of that bucket flush has still to look at
    keep,      \* events of that bucket that stay (n in the code)
    handled,   \* history: how many times the listeners were given the event
    lost       \* history: events deleted from a bucket without being handled

flushVars == <<todo, fid, rest, keep>>
decorVars == <<buckets, procs, stack>>
vars == <<toCome, aged, decorVars, mux, chan, pc, cur, enq, popped, flushVars,
          handled, lost>>
-----------------------------------------------------------------------------
(* Event predicates *)

CanEnrichStack(e) ==
    e.kind \in Kind \ {"Plain", "StackWalk"}

IsSurrogateProcess(e) == e.kind = "CreateProcess" /\ e.ppid # e.rppid

IsCreateRemoteThread(e) == e.kind = "CreateThread" /\ e.pid # e.tpid

\* Go adds two uint32 values before it widens the sum: the addition wraps.
StackID(e) ==
    ((IF e.kind = "CreateProcess" THEN e.ppid ELSE e.pid) + e.tid) % WordSize

\* The bucket a terminated thread owns: its own pid and tid, not the header's.
RemovedID(e) == (e.tpid + e.ttid) % WordSize

HasPidParam(e) == e.kind # "Registry"

InSeq(e, s) == \E i \in 1 .. Len(s) : s[i] = e

\* A Must* accessor panicked in the trace thread, which holds the mutex: the
\* process is gone and no thread takes another step.
Panicked == pc["trace"] = "panicked"

Queued(e) == \E id \in Word : InSeq(e, buckets[id])
-----------------------------------------------------------------------------
Init ==
    /\ toCome = Event
    /\ aged = {}
    /\ buckets = [id \in Word |-> <<>>]
    /\ procs = [p \in Word |-> None]
    /\ stack = [e \in Event |-> None]
    /\ mux = None
    /\ chan = <<>>
    /\ pc = [t \in Thread |-> "idle"]
    /\ cur = [t \in Thread |-> None]
    /\ enq = [t \in Thread |-> FALSE]
    /\ popped = None
    /\ todo = {} /\ fid = 0 /\ rest = <<>> /\ keep = <<>>
    /\ handled = [e \in Event |-> 0]
    /\ lost = {}

\* Time passes: a pending event outlives maxQueueTTLPeriod.
Age(e) ==
    /\ ~Panicked
    /\ e \in Ageable \ (aged \cup toCome)
    /\ aged' = aged \cup {e}
    /\ UNCHANGED <<toCome, decorVars, mux, chan, pc, cur, enq, popped, flushVars,
                   handled, lost>>
-----------------------------------------------------------------------------
(* Queue.Push, called by the trace thread *)

\* The trace thread takes the next event of the session.  A StackWalk event is
\* published after its acting event; ETW promises no other order and may lose
\* any event (an event that never arrives).
Receive(e) ==
    /\ pc["trace"] = "idle"
    /\ e \in toCome
    /\ \A x \in toCome : x.name # e.of
    /\ toCome' = toCome \ {e}

\* Thread t calls Queue.push(e).
CallPush(t, e) ==
    /\ pc' = [pc EXCEPT ![t] = "push"]
    /\ cur' = [cur EXCEPT ![t] = e]

\* procs after Push remembered a surrogate.
ProcsAfterPush(e) ==
    IF IsSurrogateProcess(e) THEN [procs EXCEPT ![e.tpid] = e] ELSE procs

\* StackwalkDecorator.Push: the event waits for its callstack.
PushPending(e) ==
    /\ Receive(e)
    /\ StackEnrichment /\ CanEnrichStack(e)
    /\ mux = None
    /\ procs' = ProcsAfterPush(e)
    /\ buckets' = [buckets EXCEPT ![StackID(e)] = Append(@, e)]
    /\ UNCHANGED <<aged, stack, mux, chan, pc, cur, enq, popped, flushVars,
                   handled, lost>>

\* A StackWalk event nobody waits for, or stack enrichment is off: dropped.
DropStackWalk(e) ==
    /\ Receive(e)
    /\ e.kind = "StackWalk"
    /\ StackEnrichment => mux = None /\ buckets[StackID(e)] = <<>>
    /\ UNCHANGED <<aged, decorVars, mux, chan, pc, cur, enq, popped, flushVars,
                   handled, lost>>

\* procs after Pop's delete for a popped surrogate.
ProcsAfterPop(evt) ==
    IF IsSurrogateProcess(evt) THEN [procs EXCEPT ![evt.tpid] = None] ELSE procs

\* Pop finds the cached CreateProcess event of the remote thread's process.
HasSurrogate(evt) == IsCreateRemoteThread(evt) /\ procs[evt.tpid] # None

\* Mutant: the bucket is looked up by the process alone.
PopByPid(e) ==
    /\ Receive(e)
    /\ StackEnrichment /\ e.kind = "StackWalk"
    /\ mux = None
    /\ buckets[e.pid] # <<>>
    /\ procs' = ProcsAfterPop(Head(buckets[e.pid]))
    /\ stack' = [stack EXCEPT ![Head(buckets[e.pid])] = e]
    /\ CallPush("trace", Head(buckets[e.pid]))
    /\ buckets' = [buckets EXCEPT ![e.pid] = Tail(@)]
    /\ UNCHANGED <<aged, mux, chan, enq, popped, flushVars, handled, lost>>

\* StackwalkDecorator.Pop: the oldest event of the bucket gets the callstack
\* and, the mutex released, is pushed.
PopStackWalk(e) ==
    /\ Receive(e)
    /\ StackEnrichment /\ e.kind = "StackWalk"
    /\ mux = None
    /\ buckets[StackID(e)] # <<>>
    /\ LET evt == Head(buckets[StackID(e)]) IN
         /\ ~HasSurrogate(evt)
         /\ procs' = ProcsAfterPop(evt)
         /\ stack' = [stack EXCEPT ![evt] = e]
         /\ CallPush("trace", evt)
    /\ buckets' = [buckets EXCEPT ![StackID(e)] = Tail(@)]
    /\ UNCHANGED <<aged, mux, chan, enq, popped, flushVars, handled, lost>>

\* The same when the event is a remote thread of a cached surrogate process:
\* Pop, still holding the mutex, pushes the CreateProcess event first.
PopSurrogate(e) ==
    /\ Receive(e)
    /\ StackEnrichment /\ e.kind = "StackWalk"
    /\ mux = None
    /\ buckets[StackID(e)] # <<>>
    /\ LET evt == Head(buckets[StackID(e)]) IN
         /\ HasSurrogate(evt)
         /\ stack' = [stack EXCEPT ![evt] = e, ![procs[evt.tpid]] = e]
         /\ popped' = evt
         /\ CallPush("trace", procs[evt.tpid])
    /\ buckets' = [buckets EXCEPT ![StackID(e)] = Tail(@)]
    /\ mux' = "trace"
    /\ UNCHANGED <<aged, procs, chan, enq, flushVars, handled, lost>>

\* The events FinishPop's loop leaves in the surrogate's bucket.
Stays(x, pid) == x.kind # "CreateProcess" /\ x.tpid # pid

StayAt(qu, pid) == {i \in 1 .. Len(qu) : Stays(qu[i], pid)}

\* f lists the indices I in increasing order.
Enumerates(f, I) ==
    /\ \A i, j \in DOMAIN f : i < j => f[i] < f[j]
    /\ \A k \in I : \E i \in DOMAIN f : f[i] = k

\* The end of Pop after the surrogate's push returned: forget the surrogate,
\* clean its bucket, release the mutex and push the popped event.
FinishPop ==
    /\ pc["trace"] = "resume"
    /\ LET id == StackID(cur["trace"])
           qu == buckets[id]
           stay == StayAt(qu, popped.tpid) IN
         /\ \A i \in 1 .. Len(qu) : HasPidParam(qu[i])
         /\ \E f \in [1 .. Cardinality(stay) -> stay] :
               /\ Enumerates(f, stay)
               /\ buckets' = [buckets EXCEPT ![id] = [i \in DOMAIN f |-> qu[f[i]]]]
         /\ lost' = lost \cup {e \in Event : /\ InSeq(e, qu) /\ ~Stays(e, popped.tpid)
                                             /\ handled[e] = 0}
    /\ procs' = [procs EXCEPT ![popped.tpid] = None]
    /\ mux' = None
    /\ CallPush("trace", popped)
    /\ popped' = None
    /\ UNCHANGED <<toCome, aged, stack, chan, enq, flushVars, handled>>

\* The loop calls Params.MustGetPid on an event that has no pid parameter.
PopPanics ==
    /\ pc["trace"] = "resume"
    /\ LET qu == buckets[StackID(cur["trace"])] IN
         \E i \in 1 .. Len(qu) : ~HasPidParam(qu[i])
    /\ pc' = [pc EXCEPT !["trace"] = "panicked"]
    /\ UNCHANGED <<toCome, aged, decorVars, mux, chan, cur, enq, popped,
                   flushVars, handled, lost>>

\* An event that needs no callstack goes to Queue.push at once.
PushDirect(e) ==
    /\ Receive(e)
    /\ e.kind # "StackWalk"
    /\ ~(StackEnrichment /\ CanEnrichStack(e))
    /\ CallPush("trace", e)
    /\ UNCHANGED <<aged, decorVars, mux, chan, enq, popped, flushVars, handled,
                   lost>>
-----------------------------------------------------------------------------
(* Queue.push, executed by either thread *)

\* Where thread t continues when its Queue.push returns.
ReturnPC(t) ==
    IF t = "flusher" THEN "scan"
    ELSE IF popped # None THEN "resume" ELSE "idle"

\* The listeners see the event; an error ends the call.
Listen(t) ==
    /\ pc[t] = "push"
    /\ handled' = [handled EXCEPT ![cur[t]] = @ + 1]
    /\ \E v \in Verdicts :
         LET enqueue == EnqueueAlways \/ v = "enqueue" IN
         /\ enq' = [enq EXCEPT ![t] = enqueue]
         /\ pc' = [pc EXCEPT ![t] =
                     IF v = "error" THEN ReturnPC(t)
                     ELSE IF StackEnrichment /\ cur[t].kind = "TerminateThread"
                          THEN "remove"
                     ELSE IF enqueue THEN "send"
                     ELSE ReturnPC(t)]
    /\ UNCHANGED <<toCome, aged, decorVars, mux, chan, cur, popped, flushVars,
                   lost>>

\* Mutant: the whole map is cleared.
RemoveAllBuckets(t) ==
    /\ pc[t] = "remove"
    /\ mux = None
    /\ buckets' = [id \in Word |-> <<>>]
    /\ lost' = lost \cup {e \in Event : Queued(e)}
    /\ pc' = [pc EXCEPT ![t] = IF enq[t] THEN "send" ELSE ReturnPC(t)]
    /\ UNCHANGED <<toCome, aged, procs, stack, mux, chan, cur, enq, popped,
                   flushVars, handled>>

\* StackwalkDecorator.RemoveBucket for a terminated thread.  sync.Mutex is
\* not reentrant: the flusher waits here for the mutex it holds itself.
RemoveBucket(t) ==
    /\ pc[t] = "remove"
    /\ mux = None
    /\ LET id == RemovedID(cur[t]) IN
         /\ buckets' = [buckets EXCEPT ![id] = <<>>]
         /\ lost' = lost \cup {e \in Event : InSeq(e, buckets[id])}
    /\ pc' = [pc EXCEPT ![t] = IF enq[t] THEN "send" ELSE ReturnPC(t)]
    /\ UNCHANGED <<toCome, aged, procs, stack, mux, chan, cur, enq, popped,
                   flushVars, handled>>

\* A send that is repeated.
SendAgain(t) ==
    /\ pc[t] = "send"
    /\ Len(chan) < QueueCap
    /\ chan' = Append(chan, cur[t])
    /\ UNCHANGED <<toCome, aged, decorVars, mux, pc, cur, enq, popped, flushVars,
                   handled, lost>>

\* The channel send; it blocks while the channel is full.
Send(t) ==
    /\ pc[t] = "send"
    /\ Len(chan) < QueueCap
    /\ chan' = Append(chan, cur[t])
    /\ pc' = [pc EXCEPT ![t] = ReturnPC(t)]
    /\ UNCHANGED <<toCome, aged, decorVars, mux, cur, enq, popped, flushVars,
                   handled, lost>>

\* The aggregator receives from the channel.
Dequeue ==
    /\ ~Panicked
    /\ chan # <<>>
    /\ chan' = Tail(chan)
    /\ UNCHANGED <<toCome, aged, decorVars, mux, pc, cur, enq, popped, flushVars,
                   handled, lost>>
-----------------------------------------------------------------------------
(* StackwalkDecorator.flush, run by the flusher on every tick *)

FlushStart ==
    /\ pc["flusher"] = "idle"
    /\ mux = None
    /\ mux' = "flusher"
    /\ pc' = [pc EXCEPT !["flusher"] = "range"]
    /\ todo' = {id \in Word : buckets[id] # <<>>}
    /\ UNCHANGED <<toCome, aged, decorVars, chan, cur, enq, popped, fid, rest,
                   keep, handled, lost>>

\* The next bucket; Go ranges over a map in no particular order.
FlushBucket(id) ==
    /\ pc["flusher"] = "range"
    /\ id \in todo
    /\ todo' = todo \ {id}
    /\ fid' = id
    /\ rest' = buckets[id]
    /\ keep' = <<>>
    /\ pc' = [pc EXCEPT !["flusher"] = "scan"]
    /\ UNCHANGED <<toCome, aged, decorVars, mux, chan, cur, enq, popped, handled,
                   lost>>

\* Mutant: no event is old enough.
NeverExpired(e) == FALSE
Expired(e) == e \in aged

FlushKeep ==
    /\ pc["flusher"] = "scan"
    /\ rest # <<>>
    /\ ~Expired(Head(rest))
    /\ keep' = Append(keep, Head(rest))
    /\ rest' = Tail(rest)
    /\ UNCHANGED <<toCome, aged, decorVars, mux, chan, pc, cur, enq, popped,
                   todo, fid, handled, lost>>

\* An expired event is pushed while the mutex is held.
FlushEvict ==
    /\ pc["flusher"] = "scan"
    /\ rest # <<>>
    /\ Expired(Head(rest))
    /\ CallPush("flusher", Head(rest))
    /\ rest' = Tail(rest)
    /\ UNCHANGED <<toCome, aged, decorVars, mux, chan, enq, popped, todo, fid,
                   keep, handled, lost>>

\* What flush leaves of a bucket.  Mutants: nothing; everything; a nil slice
\* instead of no bucket.
FlushedEmpty == <<>>
FlushedAll == buckets[fid]
FlushedNil == IF keep = <<>> THEN None ELSE keep
FlushedBucket == keep

FlushBucketDone ==
    /\ pc["flusher"] = "scan"
    /\ rest = <<>>
    /\ buckets' = [buckets EXCEPT ![fid] = FlushedBucket]
    /\ pc' = [pc EXCEPT !["flusher"] = "range"]
    /\ UNCHANGED <<toCome, aged, procs, stack, mux, chan, cur, enq, popped,
                   flushVars, handled, lost>>

\* Mutant: flush returns without unlocking.
FlushEndLocked ==
    /\ pc["flusher"] = "range"
    /\ todo = {}
    /\ pc' = [pc EXCEPT !["flusher"] = "idle"]
    /\ UNCHANGED <<toCome, aged, decorVars, mux, chan, cur, enq, popped,
                   flushVars, handled, lost>>

FlushEnd ==
    /\ pc["flusher"] = "range"
    /\ todo = {}
    /\ mux' = None
    /\ pc' = [pc EXCEPT !["flusher"] = "idle"]
    /\ UNCHANGED <<toCome, aged, decorVars, chan, cur, enq, popped, flushVars,
                   handled, lost>>
-----------------------------------------------------------------------------
TraceStep ==
    \/ \E e \in Event :
          PushPending(e) \/ DropStackWalk(e) \/ PopStackWalk(e)
          \/ PopSurrogate(e) \/ PushDirect(e)
    \/ FinishPop
    \/ PopPanics

PushStep(t) == Listen(t) \/ RemoveBucket(t) \/ Send(t)

FlushStep ==
    \/ FlushStart
    \/ \E id \in Word : FlushBucket(id)
    \/ FlushKeep
    \/ FlushEvict
    \/ FlushBucketDone
    \/ FlushEnd

\* A panic ends the process.
Halted == Panicked /\ UNCHANGED vars

Next ==
    \/ \E e \in Event : Age(e)
    \/ TraceStep
    \/ \E t \in Thread : PushStep(t)
    \/ FlushStep
    \/ Dequeue
    \/ Halted

Spec == Init /\ [][Next]_vars

(***************************************************************************)
(* The goroutine scheduler runs every runnable thread, the ticker fires    *)
(* for ever and the aggregator drains the channel.  Nothing obliges ETW to *)
(* deliver another event, nor time to age one before its callstack comes.  *)
(* Acquiring a mutex is strongly fair: sync.Mutex hands itself to a waiter *)
(* that starved for a millisecond.                                         *)
(***************************************************************************)
Fairness ==
    /\ \A t \in Thread : WF_vars((Listen(t) \/ Send(t)))
                         /\ SF_vars(RemoveBucket(t))
    /\ WF_vars((FinishPop \/ PopPanics))
    /\ SF_vars(FlushStart)
    /\ WF_vars(\E id \in Word : FlushBucket(id))
    /\ WF_vars((FlushKeep \/ FlushEvict \/ FlushBucketDone \/ FlushEnd))
    /\ WF_vars(Dequeue)

FairSpec == Spec /\ Fairness
-----------------------------------------------------------------------------
(* Properties *)

\* The fields of the queue and of its decorator, and the locals of push, Pop
\* and flush, hold what their Go types allow.
TypeOK ==
    /\ toCome \subseteq Event
    /\ aged \subseteq Event
    /\ buckets \in [Word -> Seq(Event)]
    /\ procs \in [Word -> Event \cup {None}]
    /\ stack \in [Event -> Event \cup {None}]
    /\ mux \in Thread \cup {None}
    /\ chan \in Seq(Event)
    /\ pc \in [Thread -> {"idle", "push", "remove", "send", "resume", "panicked",
                      "range", "scan"}]
    /\ cur \in [Thread -> Event \cup {None}]
    /\ enq \in [Thread -> BOOLEAN]
    /\ popped \in Event \cup {None}
    /\ todo \subseteq Word
    /\ fid \in Word
    /\ rest \in Seq(Event)
    /\ keep \in Seq(Event)
    /\ handled \in [Event -> Nat]
    /\ lost \subseteq Event

\* The channel never holds more than its capacity, and the mutex is held by
\* the trace thread exactly while Pop pushes a surrogate, and by the flusher
\* exactly from the start to the end of a flush: no path leaves it locked and
\* no listener runs for both threads under it (queue.go push, stackwalk.go).
LockDiscipline ==
    /\ Len(chan) <= QueueCap
    /\ mux = "trace" <=> popped # None
    /\ mux = "flusher" <=> pc["flusher"] # "idle"

\* The owner of the decorator's mutex waits for that mutex in one case only: the
\* flusher, in RemoveBucket, for the expired end of a thread that flush gave to
\* push.  Pop, which also pushes under the mutex, never gets there, whatever the
\* buckets hold and however the two threads interleave (queue.go push).
SelfBlockedOnlyByExpiry ==
    \A t \in Thread :
       mux = t /\ pc[t] = "remove" =>
          /\ t = "flusher"
          /\ cur[t].kind = "TerminateThread"
          /\ Expired(cur[t])

\* Every event the trace thread accepted is waiting for its callstack, is on
\* its way to the listeners, has been given to them, or was in a bucket the
\* code deleted: Push, Pop, flush and RemoveBucket lose no event between them.
Accounted ==
    \A e \in Event \ toCome :
       \/ e.kind = "StackWalk"
       \/ Queued(e)
       \/ handled[e] > 0
       \/ e \in lost
       \/ popped = e
       \/ \E t \in Thread : pc[t] = "push" /\ cur[t] = e

\* The listeners are given an event at most once, whichever of the two threads
\* brings it to them.  A brokered process creation that expired before its
\* callstack came may be given to them a second time, never a third: flush
\* leaves it in procs (stackwalk.go Pop and flush).
HandledOnce ==
    \A e \in Event :
       handled[e] <= IF IsSurrogateProcess(e) /\ e \in aged THEN 2 ELSE 1

\* A callstack is only ever attached to an event of the bucket the StackWalk
\* event selects, or to a surrogate's CreateProcess event (stackwalk.go Pop).
StackFromBucket ==
    \A e \in Event :
       stack[e] # None =>
          /\ stack[e].kind = "StackWalk"
          /\ StackID(stack[e]) = StackID(e) \/ IsSurrogateProcess(e)

\* An event is dropped unseen only on account of a terminated thread with the
\* same stack id or of a surrogate whose bucket it shared (RemoveBucket, Pop).
LostOnlyWith ==
    \A e \in lost : \E x \in Event :
       /\ handled[x] > 0
       /\ \/ x.kind = "TerminateThread" /\ RemovedID(x) = StackID(e)
          \/ IsSurrogateProcess(x) /\ StackID(x) = StackID(e)

\* An expired event does not stay in its bucket (the comment of flush).
Flushed ==
    \A e \in Ageable : (e \in aged /\ Queued(e)) ~> (Panicked \/ ~Queued(e))

\* The mutex is always released again, whatever a listener answers and however
\* full the channel is, so the trace thread is never shut out for good.
MuxReleased == mux # None ~> (Panicked \/ mux = None)
-----------------------------------------------------------------------------
(* The abstract specification *)

Surrogate == {e \in Event : IsSurrogateProcess(e)}

D == INSTANCE EventDelivery WITH
       Item <- Event,
       Carrier <- {e \in Event : e.kind = "StackWalk"},
       Dropper <- Surrogate \cup {e \in Event : e.kind = "TerminateThread"},
       Twice <- Surrogate,
       Producer <- Thread,
       Room <- QueueCap,
       Nothing <- None,
       due <- toCome,
       seen <- {e \in Event : handled[e] > 0},
       gone <- {e \in lost : handled[e] = 0},
       passing <- [t \in Thread |->
                     IF pc[t] = "send" \/ (pc[t] = "remove" /\ enq[t]) THEN cur[t] ELSE None],
       channel <- chan

\* The queue delivers: whatever callstacks arrive, are lost or come late, an
\* event is handed to the listeners once, a brokered process creation also a
\* second time; it is dropped unseen only after a terminated thread or a
\* brokered process creation; and each time they let it pass it is sent exactly
\* once to the channel, by the thread that handed it over.
Delivers == D!DeliverySpec
=============================================================================
