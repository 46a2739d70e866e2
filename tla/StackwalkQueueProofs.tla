------------------------ MODULE StackwalkQueueProofs ------------------------
(* Proofs of the safety properties of StackwalkQueue. *)
EXTENDS StackwalkQueue, FiniteSetTheorems, TLAPS

(***************************************************************************)
(* The control state the properties rest on: which program counters a      *)
(* thread can have, when it has an event in hand and who owns the mutex.   *)
(***************************************************************************)
Control ==
    /\ pc["trace"] \in {"idle", "push", "remove", "send", "resume", "panicked"}
    /\ pc["flusher"] \in {"idle", "range", "scan", "push", "remove", "send"}
    /\ \A t \in Thread :
          pc[t] \in {"push", "remove", "send", "resume"} => cur[t] \in Event
    /\ pc["trace"] = "resume" => popped # None
    /\ popped # None => pc["trace"] # "idle"
    /\ mux = "trace" <=> popped # None
    /\ mux = "flusher" <=> pc["flusher"] # "idle"
    /\ Len(chan) <= QueueCap

TypeInv == TypeOK /\ Control

LEMMA WordType ==
    ASSUME NEW a \in Word, NEW b \in Word
    PROVE  (a + b) % WordSize \in Word
  BY WordAssumption, SMT DEF Word

LEMMA StackIDType ==
    ASSUME NEW e \in Event
    PROVE  StackID(e) \in Word /\ RemovedID(e) \in Word
  <1>1. e.ppid \in Word /\ e.pid \in Word /\ e.tid \in Word /\ e.tpid \in Word
        /\ e.ttid \in Word
    BY EventAssumption DEF EventRecord
  <1> QED
    BY <1>1, WordType DEF StackID, RemovedID

\* The head of a bucket is an event and the tail a sequence of events.
LEMMA HeadTail ==
    ASSUME NEW s \in Seq(Event), s # <<>>
    PROVE  Head(s) \in Event /\ Tail(s) \in Seq(Event)
  BY SMT

LEMMA FunIsSeq ==
    ASSUME NEW n \in Nat, NEW g \in [1 .. n -> Event]
    PROVE  g \in Seq(Event)
  BY SMT

LEMMA BucketUpdate ==
    ASSUME NEW b \in [Word -> Seq(Event)], NEW id, NEW s \in Seq(Event)
    PROVE  [b EXCEPT ![id] = s] \in [Word -> Seq(Event)]
  OBVIOUS

LEMMA EmptySeq == <<>> \in Seq(Event)
  BY SMT

LEMMA StayAtFinite ==
    ASSUME NEW qu \in Seq(Event), NEW pid
    PROVE  Cardinality(StayAt(qu, pid)) \in Nat
  <1>1. IsFiniteSet(1 .. Len(qu))
    BY FS_Interval
  <1>2. StayAt(qu, pid) \subseteq 1 .. Len(qu)
    BY DEF StayAt
  <1> QED
    BY <1>1, <1>2, FS_Subset, FS_CardinalityType

LEMMA TypeInit == Init => TypeInv
  <1> SUFFICES ASSUME Init PROVE TypeInv
    OBVIOUS
  <1>1. TypeOK
    BY WordAssumption, SMT DEF Init, TypeOK, Word, Thread
  <1>2. Control
    BY NoneAssumption, CapAssumption, SMT DEF Init, Control, Thread
  <1> QED
    BY <1>1, <1>2 DEF TypeInv

\* Every step keeps the types and the control state.
LEMMA TypeStep == TypeInv /\ [Next]_vars => TypeInv'
  <1> SUFFICES ASSUME TypeInv, [Next]_vars
               PROVE  TypeInv'
    OBVIOUS
  <1> USE NoneAssumption, CapAssumption, FlagAssumption
          DEF TypeInv, TypeOK, Control, Thread, decorVars, flushVars
  <1>1. ASSUME NEW e \in Event, Age(e) PROVE TypeInv'
    BY <1>1, SMT DEF Age
  <1>2. ASSUME NEW e \in Event, PushPending(e) PROVE TypeInv'
    <2>1. StackID(e) \in Word /\ e.tpid \in Word
      BY StackIDType, EventAssumption DEF EventRecord
    <2> QED
      BY <1>2, <2>1, SMT DEF PushPending, Receive, ProcsAfterPush
  <1>3. ASSUME NEW e \in Event, DropStackWalk(e) PROVE TypeInv'
    BY <1>3, SMT DEF DropStackWalk, Receive
  <1>4. ASSUME NEW e \in Event, PopStackWalk(e) PROVE TypeInv'
    <2> DEFINE evt == Head(buckets[StackID(e)])
    <2>1. StackID(e) \in Word /\ buckets[StackID(e)] \in Seq(Event)
      BY StackIDType
    <2>2. evt \in Event /\ Tail(buckets[StackID(e)]) \in Seq(Event)
      BY <1>4, <2>1, HeadTail DEF PopStackWalk
    <2>3. procs' \in [Word -> Event \cup {None}]
      BY <1>4 DEF PopStackWalk, ProcsAfterPop
    <2>4. stack' = [stack EXCEPT ![evt] = e] /\ CallPush("trace", evt)
      BY <1>4 DEF PopStackWalk
    <2> HIDE DEF evt
    <2>5. buckets' \in [Word -> Seq(Event)]
      BY <1>4, <2>1, <2>2 DEF PopStackWalk
    <2>6. stack' \in [Event -> Event \cup {None}] /\ cur' \in [Thread -> Event \cup {None}]
      BY <2>2, <2>4 DEF CallPush
    <2> QED
      BY <1>4, <2>3, <2>4, <2>5, <2>6, SMT DEF PopStackWalk, Receive, CallPush
  <1>5. ASSUME NEW e \in Event, PopSurrogate(e) PROVE TypeInv'
    <2> DEFINE evt == Head(buckets[StackID(e)])
               ev == procs[evt.tpid]
    <2>1. StackID(e) \in Word /\ buckets[StackID(e)] \in Seq(Event)
      BY StackIDType
    <2>2. evt \in Event /\ Tail(buckets[StackID(e)]) \in Seq(Event)
      BY <1>5, <2>1, HeadTail DEF PopSurrogate
    <2>3. ev \in Event
      <3>1. evt.tpid \in Word
        BY <2>2, EventAssumption DEF EventRecord
      <3> QED
        BY <1>5, <3>1 DEF PopSurrogate, HasSurrogate
    <2>4. /\ Receive(e) /\ mux = None /\ mux' = "trace"
          /\ stack' = [stack EXCEPT ![evt] = e, ![ev] = e]
          /\ popped' = evt
          /\ CallPush("trace", ev)
          /\ buckets' = [buckets EXCEPT ![StackID(e)] = Tail(@)]
          /\ UNCHANGED <<aged, procs, chan, enq, flushVars, handled, lost>>
      BY <1>5 DEF PopSurrogate
    <2> HIDE DEF ev, evt
    <2>5. TypeOK'
      <3>1. buckets' \in [Word -> Seq(Event)]
        BY <2>2, <2>4, BucketUpdate
      <3>2. stack' \in [Event -> Event \cup {None}]
        BY <2>2, <2>3, <2>4
      <3>3. pc' \in [Thread -> {"idle", "push", "remove", "send", "resume", "panicked",
                                "range", "scan"}]
            /\ cur' \in [Thread -> Event \cup {None}]
        BY <2>3, <2>4 DEF CallPush
      <3> QED
        BY <2>2, <2>4, <3>1, <3>2, <3>3 DEF Receive
    <2>6. Control'
      BY <2>1, <2>2, <2>3, <2>4, SMT DEF Receive, CallPush
    <2> QED
      BY <2>5, <2>6
  <1>6. ASSUME NEW e \in Event, PushDirect(e) PROVE TypeInv'
    BY <1>6, SMT DEF PushDirect, Receive, CallPush
  <1>7. CASE FinishPop
    <2> DEFINE id == StackID(cur["trace"])
               qu == buckets[id]
               stay == StayAt(qu, popped.tpid)
    <2>1. cur["trace"] \in Event /\ popped \in Event
      BY <1>7 DEF FinishPop
    <2>2. id \in Word /\ qu \in Seq(Event)
      BY <2>1, StackIDType
    <2>3. PICK f \in [1 .. Cardinality(stay) -> stay] :
             buckets' = [buckets EXCEPT ![id] = [i \in DOMAIN f |-> qu[f[i]]]]
      BY <1>7 DEF FinishPop
    <2>4. [i \in DOMAIN f |-> qu[f[i]]] \in Seq(Event)
      <3>1. \A j \in stay : qu[j] \in Event
        BY <2>2, SMT DEF StayAt
      <3>2. DOMAIN f = 1 .. Cardinality(stay)
            /\ \A i \in DOMAIN f : f[i] \in stay
        BY <2>3
      <3>3. Cardinality(stay) \in Nat
        BY <2>2, StayAtFinite
      <3> QED
        BY <3>1, <3>2, <3>3, FunIsSeq, Zenon
    <2>5. buckets' \in [Word -> Seq(Event)]
      BY <2>3, <2>4, BucketUpdate
    <2>6. lost' \subseteq Event
      BY <1>7 DEF FinishPop
    <2>7. /\ pc["trace"] = "resume"
          /\ procs' = [procs EXCEPT ![popped.tpid] = None]
          /\ mux' = None /\ popped' = None
          /\ CallPush("trace", popped)
          /\ UNCHANGED <<toCome, aged, stack, chan, enq, flushVars, handled>>
      BY <1>7 DEF FinishPop
    <2>8. TypeOK'
      <3>1. pc' \in [Thread -> {"idle", "push", "remove", "send", "resume", "panicked",
                                "range", "scan"}]
            /\ cur' \in [Thread -> Event \cup {None}]
        BY <2>1, <2>7 DEF CallPush
      <3>2. procs' \in [Word -> Event \cup {None}]
        BY <2>7
      <3> QED
        BY <2>5, <2>6, <2>7, <3>1, <3>2
    <2>9. Control'
      BY <2>1, <2>7, SMT DEF CallPush
    <2> QED
      BY <2>8, <2>9
  <1>8. CASE PopPanics
    <2>1. /\ pc["trace"] = "resume"
          /\ pc' = [pc EXCEPT !["trace"] = "panicked"]
          /\ UNCHANGED <<toCome, aged, decorVars, mux, chan, cur, enq, popped,
                         flushVars, handled, lost>>
      BY <1>8 DEF PopPanics
    <2> QED
      BY <2>1, SMT
  <1>9. ASSUME NEW t \in Thread, Listen(t) PROVE TypeInv'
    BY <1>9, SMT DEF Listen, ReturnPC
  <1>10. ASSUME NEW t \in Thread, RemoveBucket(t) PROVE TypeInv'
    <2>1. lost' \subseteq Event
      BY <1>10 DEF RemoveBucket
    <2>2. buckets' \in [Word -> Seq(Event)]
      BY <1>10, BucketUpdate, EmptySeq DEF RemoveBucket
    <2>3. /\ pc[t] = "remove"
          /\ pc' = [pc EXCEPT ![t] = IF enq[t] THEN "send" ELSE ReturnPC(t)]
          /\ UNCHANGED <<toCome, aged, procs, stack, mux, chan, cur, enq, popped,
                         flushVars, handled>>
      BY <1>10 DEF RemoveBucket
    <2>4. TypeOK'
      BY <2>1, <2>2, <2>3, SMT DEF ReturnPC
    <2>5. Control'
      BY <2>3, SMT DEF ReturnPC
    <2> QED
      BY <2>4, <2>5
  <1>11. ASSUME NEW t \in Thread, Send(t) PROVE TypeInv'
    BY <1>11, SMT DEF Send, ReturnPC
  <1>12. CASE Dequeue
    BY <1>12, SMT DEF Dequeue
  <1>13. CASE FlushStart
    BY <1>13, SMT DEF FlushStart
  <1>14. ASSUME NEW id \in Word, FlushBucket(id) PROVE TypeInv'
    BY <1>14, SMT DEF FlushBucket
  <1>15. CASE FlushKeep
    BY <1>15, SMT DEF FlushKeep
  <1>16. CASE FlushEvict
    BY <1>16, SMT DEF FlushEvict, CallPush
  <1>17. CASE FlushBucketDone
    BY <1>17, SMT DEF FlushBucketDone, FlushedBucket
  <1>18. CASE FlushEnd
    BY <1>18, SMT DEF FlushEnd
  <1>19. CASE UNCHANGED vars
    BY <1>19, SMT DEF vars
  <1> QED
    BY <1>1, <1>2, <1>3, <1>4, <1>5, <1>6, <1>7, <1>8, <1>9, <1>10, <1>11, <1>12,
       <1>13, <1>14, <1>15, <1>16, <1>17, <1>18, <1>19
       DEF Next, TraceStep, PushStep, FlushStep, Halted

\* StackwalkQueue is type correct.
THEOREM TypeCorrect == Spec => []TypeOK
  <1>1. Init => TypeInv
    BY TypeInit
  <1>2. TypeInv /\ [Next]_vars => TypeInv'
    BY TypeStep
  <1>3. TypeInv => TypeOK
    BY DEF TypeInv
  <1> QED
    BY <1>1, <1>2, <1>3, PTL DEF Spec

\* The mutex is held exactly while Pop pushes a surrogate or flush runs, and
\* the channel respects its capacity, for any events and any capacity.
THEOREM LockSafe == Spec => []LockDiscipline
  <1>1. Init => TypeInv
    BY TypeInit
  <1>2. TypeInv /\ [Next]_vars => TypeInv'
    BY TypeStep
  <1>3. TypeInv => LockDiscipline
    BY DEF TypeInv, Control, LockDiscipline
  <1> QED
    BY <1>1, <1>2, <1>3, PTL DEF Spec
-----------------------------------------------------------------------------
(* Membership in a sequence *)

LEMMA InEmpty == ASSUME NEW x PROVE ~InSeq(x, <<>>)
  BY SMT DEF InSeq

LEMMA InAppend ==
    ASSUME NEW s \in Seq(Event), NEW e \in Event, NEW x
    PROVE  InSeq(x, Append(s, e)) <=> InSeq(x, s) \/ x = e
  <1>1. InSeq(x, Append(s, e)) => InSeq(x, s) \/ x = e
    BY SMT DEF InSeq
  <1>2. InSeq(x, s) => InSeq(x, Append(s, e))
    BY SMT DEF InSeq
  <1>3. InSeq(e, Append(s, e))
    <2>1. Len(s) + 1 \in 1 .. Len(Append(s, e)) /\ Append(s, e)[Len(s) + 1] = e
      BY SMT
    <2> QED
      BY <2>1 DEF InSeq
  <1> QED
    BY <1>1, <1>2, <1>3

LEMMA InTail ==
    ASSUME NEW s \in Seq(Event), s # <<>>, NEW x
    PROVE  InSeq(x, s) <=> x = Head(s) \/ InSeq(x, Tail(s))
  <1>1. InSeq(x, s) => x = Head(s) \/ InSeq(x, Tail(s))
    <2> SUFFICES ASSUME InSeq(x, s), x # Head(s) PROVE InSeq(x, Tail(s))
      OBVIOUS
    <2>1. PICK i \in 1 .. Len(s) : s[i] = x
      BY DEF InSeq
    <2>2. i - 1 \in 1 .. Len(Tail(s)) /\ Tail(s)[i - 1] = x
      BY <2>1, SMT
    <2> QED
      BY <2>2 DEF InSeq
  <1>2. InSeq(Head(s), s)
    <2>1. 1 \in 1 .. Len(s) /\ s[1] = Head(s)
      BY SMT
    <2> QED
      BY <2>1 DEF InSeq
  <1>3. InSeq(x, Tail(s)) => InSeq(x, s)
    <2> SUFFICES ASSUME InSeq(x, Tail(s)) PROVE InSeq(x, s)
      OBVIOUS
    <2>1. PICK i \in 1 .. Len(Tail(s)) : Tail(s)[i] = x
      BY DEF InSeq
    <2>2. i + 1 \in 1 .. Len(s) /\ s[i + 1] = x
      BY <2>1, SMT
    <2> QED
      BY <2>2 DEF InSeq
  <1> QED
    BY <1>1, <1>2, <1>3

\* The bucket FinishPop writes back holds the events of the old one that stay.
LEMMA InCleaned ==
    ASSUME NEW qu \in Seq(Event), NEW new \in Seq(Event), NEW f, NEW pid,
           Enumerates(f, StayAt(qu, pid)),
           \A i \in DOMAIN f : f[i] \in StayAt(qu, pid),
           DOMAIN new = DOMAIN f,
           \A i \in DOMAIN f : new[i] = qu[f[i]]
    PROVE  \A x : InSeq(x, new) <=> InSeq(x, qu) /\ Stays(x, pid)
  <1> TAKE x
  <1>1. DOMAIN new = 1 .. Len(new)
    OBVIOUS
  <1>2. ASSUME InSeq(x, new) PROVE InSeq(x, qu) /\ Stays(x, pid)
    <2>1. PICK i \in 1 .. Len(new) : new[i] = x
      BY <1>2 DEF InSeq
    <2>2. f[i] \in StayAt(qu, pid) /\ qu[f[i]] = x
      BY <1>1, <2>1
    <2> QED
      BY <2>2 DEF StayAt, InSeq
  <1>3. ASSUME InSeq(x, qu), Stays(x, pid) PROVE InSeq(x, new)
    <2>1. PICK k \in 1 .. Len(qu) : qu[k] = x
      BY <1>3 DEF InSeq
    <2>2. k \in StayAt(qu, pid)
      BY <1>3, <2>1 DEF StayAt
    <2>3. PICK i \in DOMAIN f : f[i] = k
      BY <2>2 DEF Enumerates
    <2>4. i \in 1 .. Len(new) /\ new[i] = x
      BY <1>1, <2>1, <2>3
    <2> QED
      BY <2>4 DEF InSeq
  <1> QED
    BY <1>2, <1>3

\* What FinishPop does to the buckets, in terms of membership.
LEMMA FinishPopBuckets ==
    ASSUME TypeInv, TypeInv', FinishPop, NEW j \in Word
    PROVE  \A x : InSeq(x, buckets'[j]) <=>
                    /\ InSeq(x, buckets[j])
                    /\ j = StackID(cur["trace"]) => Stays(x, popped.tpid)
  <1> DEFINE id == StackID(cur["trace"])
             qu == buckets[id]
             stay == StayAt(qu, popped.tpid)
             new == buckets'[id]
  <1>1. buckets \in [Word -> Seq(Event)] /\ buckets' \in [Word -> Seq(Event)]
    BY DEF TypeInv, TypeOK
  <1>2. cur["trace"] \in Event
    BY DEF TypeInv, Control, FinishPop, Thread
  <1>3. id \in Word
    BY <1>2, StackIDType
  <1>4. PICK f \in [1 .. Cardinality(stay) -> stay] :
           /\ Enumerates(f, stay)
           /\ buckets' = [buckets EXCEPT ![id] = [i \in DOMAIN f |-> qu[f[i]]]]
    BY DEF FinishPop
  <1>5. CASE j # id
    BY <1>1, <1>3, <1>4, <1>5
  <1>6. CASE j = id
    <2>1. qu \in Seq(Event) /\ new \in Seq(Event)
      BY <1>1, <1>3
    <2>2. PICK g :
             /\ Enumerates(g, stay)
             /\ \A i \in DOMAIN g : g[i] \in stay
             /\ DOMAIN new = DOMAIN g
             /\ \A i \in DOMAIN g : new[i] = qu[g[i]]
      BY <1>1, <1>3, <1>4
    <2>3. \A x : InSeq(x, new) <=> InSeq(x, qu) /\ Stays(x, popped.tpid)
      <3> HIDE DEF qu, new
      <3> QED
        BY <2>1, <2>2, InCleaned
    <2> QED
      BY <1>6, <2>3
  <1> QED
    BY <1>5, <1>6
-----------------------------------------------------------------------------
(* No event is lost track of *)

(***************************************************************************)
(* Accounted is not inductive: FlushBucketDone replaces a bucket by what   *)
(* flush kept of it.  FlushAccounted says where the other events of that   *)
(* bucket went while the flusher, holding the mutex, works on it.          *)
(***************************************************************************)
FlushAccounted ==
    pc["flusher"] \in {"scan", "push", "remove", "send"} =>
       \A e \in Event :
          InSeq(e, buckets[fid]) =>
             \/ InSeq(e, keep)
             \/ InSeq(e, rest)
             \/ handled[e] > 0
             \/ pc["flusher"] = "push" /\ cur["flusher"] = e

AccountInv == TypeInv /\ Accounted /\ FlushAccounted

LEMMA AccountStep == AccountInv /\ [Next]_vars => Accounted' /\ FlushAccounted'
  <1> SUFFICES ASSUME AccountInv, [Next]_vars
               PROVE  Accounted' /\ FlushAccounted'
    OBVIOUS
  <1> USE NoneAssumption DEF AccountInv, Thread, decorVars, flushVars
  <1> USE DEF Accounted, FlushAccounted, Queued
  <1>t. TypeInv /\ TypeInv'
    BY TypeStep
  <1>1. ASSUME NEW e \in Event, Age(e) PROVE Accounted' /\ FlushAccounted'
    BY <1>1, SMT DEF Age
  <1>2. ASSUME NEW e \in Event, PushPending(e) PROVE Accounted' /\ FlushAccounted'
    <2>1. StackID(e) \in Word
      BY StackIDType
    <2>2. buckets \in [Word -> Seq(Event)] /\ pc["flusher"] = "idle"
      BY <1>t, <1>2 DEF TypeInv, TypeOK, Control, PushPending
    <2>3. buckets' = [buckets EXCEPT ![StackID(e)] = Append(@, e)]
          /\ toCome' = toCome \ {e}
          /\ UNCHANGED <<pc, cur, popped, handled, lost>>
      BY <1>2 DEF PushPending, Receive, ProcsAfterPush
    <2>4. \A x \in Event, id \in Word : InSeq(x, buckets[id]) => InSeq(x, buckets'[id])
      BY <2>1, <2>2, <2>3, InAppend
    <2>5. InSeq(e, buckets'[StackID(e)])
      BY <2>1, <2>2, <2>3, InAppend
    <2> QED
      <3>1. Accounted'
        <4> SUFFICES ASSUME NEW x \in Event \ toCome', x.kind # "StackWalk", ~Queued(x)'
                     PROVE  \/ handled'[x] > 0 \/ x \in lost' \/ popped' = x
                            \/ \E u \in Thread : pc'[u] = "push" /\ cur'[u] = x
          OBVIOUS
        <4>1. x # e /\ ~Queued(x) /\ x \notin toCome
          BY <2>1, <2>3, <2>4, <2>5
        <4> QED
          BY <2>3, <4>1
      <3>2. FlushAccounted'
        BY <2>1, <2>2, <2>3, <2>4, <2>5, Zenon
      <3> QED
        BY <3>1, <3>2
  <1>3. ASSUME NEW e \in Event, DropStackWalk(e) PROVE Accounted' /\ FlushAccounted'
    BY <1>3, SMT DEF DropStackWalk, Receive
  <1>4. ASSUME NEW e \in Event, PopStackWalk(e) PROVE Accounted' /\ FlushAccounted'
    <2> DEFINE evt == Head(buckets[StackID(e)])
    <2>1. StackID(e) \in Word
      BY StackIDType
    <2>2. /\ buckets \in [Word -> Seq(Event)]
          /\ pc["flusher"] = "idle"
          /\ pc \in [Thread -> {"idle", "push", "remove", "send", "resume", "panicked",
                          "range", "scan"}]
          /\ cur \in [Thread -> Event \cup {None}]
      BY <1>t, <1>4 DEF TypeInv, TypeOK, Control, PopStackWalk
    <2>3. /\ buckets' = [buckets EXCEPT ![StackID(e)] = Tail(@)]
          /\ buckets[StackID(e)] # <<>>
          /\ toCome' = toCome \ {e} /\ e.kind = "StackWalk"
          /\ CallPush("trace", evt)
          /\ pc["trace"] = "idle"
          /\ UNCHANGED <<popped, handled, lost>>
      BY <1>4 DEF PopStackWalk, Receive
    <2>4. \A x \in Event, id \in Word :
             InSeq(x, buckets[id]) => x = evt \/ InSeq(x, buckets'[id])
      BY <2>1, <2>2, <2>3, InTail
    <2>5. pc'["trace"] = "push" /\ cur'["trace"] = evt /\ pc'["flusher"] = "idle"
      BY <2>2, <2>3 DEF CallPush
    <2> HIDE DEF evt
    <2> QED
      BY <2>1, <2>2, <2>3, <2>4, <2>5, Zenon
  <1>5. ASSUME NEW e \in Event, PopSurrogate(e) PROVE Accounted' /\ FlushAccounted'
    <2> DEFINE evt == Head(buckets[StackID(e)])
    <2>1. StackID(e) \in Word
      BY StackIDType
    <2>2. /\ buckets \in [Word -> Seq(Event)]
          /\ pc["flusher"] = "idle" /\ popped = None
          /\ pc \in [Thread -> {"idle", "push", "remove", "send", "resume", "panicked",
                          "range", "scan"}]
      BY <1>t, <1>5 DEF TypeInv, TypeOK, Control, PopSurrogate
    <2>3. /\ buckets' = [buckets EXCEPT ![StackID(e)] = Tail(@)]
          /\ buckets[StackID(e)] # <<>>
          /\ toCome' = toCome \ {e} /\ e.kind = "StackWalk"
          /\ pc' = [pc EXCEPT !["trace"] = "push"]
          /\ pc["trace"] = "idle"
          /\ popped' = evt
          /\ UNCHANGED <<handled, lost>>
      BY <1>5 DEF PopSurrogate, Receive, CallPush
    <2>4. \A x \in Event, id \in Word :
             InSeq(x, buckets[id]) => x = evt \/ InSeq(x, buckets'[id])
      BY <2>1, <2>2, <2>3, InTail
    <2>5. pc'["flusher"] = "idle"
      BY <2>2, <2>3
    <2> HIDE DEF evt
    <2> QED
      BY <2>1, <2>2, <2>3, <2>4, <2>5, Zenon
  <1>6. ASSUME NEW e \in Event, PushDirect(e) PROVE Accounted' /\ FlushAccounted'
    <2>1. /\ pc["trace"] = "idle" /\ toCome' = toCome \ {e}
          /\ pc'["trace"] = "push" /\ cur'["trace"] = e
          /\ pc'["flusher"] = pc["flusher"] /\ cur'["flusher"] = cur["flusher"]
          /\ UNCHANGED <<buckets, popped, handled, lost, fid, keep, rest>>
      BY <1>t, <1>6 DEF TypeInv, TypeOK, PushDirect, Receive, CallPush
    <2> QED
      BY <2>1, Zenon
  <1>7. CASE FinishPop
    <2> DEFINE id == StackID(cur["trace"])
               qu == buckets[id]
    <2>1. /\ cur["trace"] \in Event /\ popped \in Event
          /\ pc["trace"] = "resume" /\ pc["flusher"] = "idle"
      BY <1>t, <1>7 DEF TypeInv, TypeOK, Control, FinishPop
    <2>2. id \in Word /\ buckets \in [Word -> Seq(Event)]
      BY <1>t, <2>1, StackIDType DEF TypeInv, TypeOK
    <2>4. /\ lost' = lost \cup {e \in Event : /\ InSeq(e, qu) /\ ~Stays(e, popped.tpid)
                                             /\ handled[e] = 0}
          /\ toCome' = toCome /\ handled' = handled
          /\ CallPush("trace", popped)
      BY <1>7 DEF FinishPop
    <2>5. pc'["trace"] = "push" /\ cur'["trace"] = popped /\ pc'["flusher"] = "idle"
      BY <1>t, <2>1, <2>4 DEF TypeInv, TypeOK, CallPush
    <2>7. ASSUME NEW x \in Event, NEW j \in Word, InSeq(x, buckets[j])
          PROVE  InSeq(x, buckets'[j]) \/ x \in lost' \/ handled'[x] > 0
      <3>1. CASE j # id \/ Stays(x, popped.tpid)
        BY <1>t, <1>7, <2>7, <3>1, FinishPopBuckets
      <3>2. CASE j = id /\ ~Stays(x, popped.tpid)
        BY <1>t, <2>4, <2>7, <3>2 DEF TypeInv, TypeOK
      <3> QED
        BY <3>1, <3>2
    <2> QED
      BY <2>1, <2>4, <2>5, <2>7, Zenon
  <1>8. CASE PopPanics
    BY <1>8, SMT DEF PopPanics
  <1>9. ASSUME NEW t \in Thread, Listen(t) PROVE Accounted' /\ FlushAccounted'
    <2>1. /\ cur[t] \in Event /\ handled \in [Event -> Nat]
          /\ pc[t] = "push"
          /\ handled' = [handled EXCEPT ![cur[t]] = @ + 1]
          /\ UNCHANGED <<toCome, buckets, cur, popped, fid, rest, keep, lost>>
      BY <1>t, <1>9 DEF TypeInv, TypeOK, Control, Listen
    <2>2. \A x \in Event : handled[x] > 0 => handled'[x] > 0
      BY <2>1, SMT
    <2>3. handled'[cur[t]] > 0
      BY <2>1, SMT
    <2>4. \A u \in Thread : u # t => pc'[u] = pc[u]
      BY <1>t, <1>9 DEF Listen, TypeInv, TypeOK
    <2>5. Accounted'
      <3> SUFFICES ASSUME NEW x \in Event \ toCome, x.kind # "StackWalk", ~Queued(x),
                          ~(handled'[x] > 0), x \notin lost, popped # x
                   PROVE  \E u \in Thread : pc'[u] = "push" /\ cur[u] = x
        BY <2>1 DEF Accounted
      <3>1. PICK u \in Thread : pc[u] = "push" /\ cur[u] = x
        BY <2>2 DEF Accounted
      <3>2. u # t
        BY <2>3, <3>1
      <3> QED
        BY <2>4, <3>1, <3>2
    <2>6. pc'["flusher"] \in {"scan", "push", "remove", "send"} =>
             pc["flusher"] \in {"scan", "push", "remove", "send"}
      BY <2>1, <2>4
    <2>7. FlushAccounted'
      <3> SUFFICES ASSUME pc'["flusher"] \in {"scan", "push", "remove", "send"},
                          NEW x \in Event, InSeq(x, buckets[fid]), ~InSeq(x, keep),
                          ~InSeq(x, rest), ~(handled'[x] > 0)
                   PROVE  pc'["flusher"] = "push" /\ cur["flusher"] = x
        BY <2>1 DEF FlushAccounted
      <3>1. pc["flusher"] = "push" /\ cur["flusher"] = x
        BY <2>2, <2>6 DEF FlushAccounted
      <3>2. t # "flusher"
        BY <2>3, <3>1
      <3> QED
        BY <2>4, <3>1, <3>2
    <2> QED
      BY <2>5, <2>7
  <1>10. ASSUME NEW t \in Thread, RemoveBucket(t) PROVE Accounted' /\ FlushAccounted'
    <2>1. /\ cur[t] \in Event /\ buckets \in [Word -> Seq(Event)]
          /\ pc[t] = "remove" /\ pc["flusher"] = "idle" /\ t = "trace"
          /\ pc' = [pc EXCEPT ![t] = IF enq[t] THEN "send" ELSE ReturnPC(t)]
          /\ UNCHANGED <<toCome, cur, popped, handled>>
          /\ lost' = lost \cup {e \in Event : InSeq(e, buckets[RemovedID(cur[t])])}
          /\ buckets' = [buckets EXCEPT ![RemovedID(cur[t])] = <<>>]
      BY <1>t, <1>10 DEF TypeInv, TypeOK, Control, RemoveBucket
    <2>2. pc'["flusher"] = "idle"
      BY <1>t, <2>1 DEF TypeInv, TypeOK
    <2>3. \A x \in Event, j \in Word :
             InSeq(x, buckets[j]) => InSeq(x, buckets'[j]) \/ x \in lost'
      BY <2>1
    <2> QED
      BY <2>1, <2>2, <2>3, Zenon
  <1>11. ASSUME NEW t \in Thread, Send(t) PROVE Accounted' /\ FlushAccounted'
    <2>1. /\ pc[t] = "send" /\ \A u \in Thread : u # t => pc'[u] = pc[u]
          /\ UNCHANGED <<toCome, buckets, cur, popped, fid, rest, keep, handled, lost>>
      BY <1>t, <1>11 DEF TypeInv, TypeOK, Send
    <2>2. pc'["flusher"] \in {"scan", "push", "remove", "send"} =>
             pc["flusher"] \in {"scan", "push", "remove", "send"}
      BY <2>1
    <2> QED
      <3>1. Accounted'
        <4> SUFFICES ASSUME NEW x \in Event \ toCome', x.kind # "StackWalk", ~Queued(x)'
                     PROVE  \/ handled'[x] > 0 \/ x \in lost' \/ popped' = x
                            \/ \E u \in Thread : pc'[u] = "push" /\ cur'[u] = x
          OBVIOUS
        <4>1. ~Queued(x)
          BY <2>1
        <4>2. ASSUME NEW u \in Thread, pc[u] = "push", cur[u] = x
              PROVE  pc'[u] = "push" /\ cur'[u] = x
          BY <2>1, <4>2
        <4> QED
          BY <2>1, <4>1, <4>2
      <3>2. FlushAccounted'
        BY <2>1, <2>2, Zenon
      <3> QED
        BY <3>1, <3>2
  <1>12. CASE Dequeue
    BY <1>12, SMT DEF Dequeue
  <1>13. CASE FlushStart
    BY <1>t, <1>13, SMT DEF FlushStart, TypeInv, TypeOK
  <1>14. ASSUME NEW id \in Word, FlushBucket(id) PROVE Accounted' /\ FlushAccounted'
    BY <1>t, <1>14, SMT DEF FlushBucket, TypeInv, TypeOK
  <1>15. CASE FlushKeep
    <2>1. /\ rest \in Seq(Event) /\ keep \in Seq(Event) /\ rest # <<>>
          /\ keep' = Append(keep, Head(rest)) /\ rest' = Tail(rest)
          /\ pc["flusher"] = "scan"
          /\ UNCHANGED <<toCome, buckets, pc, cur, popped, fid, handled, lost>>
      BY <1>t, <1>15 DEF TypeInv, TypeOK, FlushKeep
    <2>2. \A x : InSeq(x, rest) <=> x = Head(rest) \/ InSeq(x, rest')
      BY <2>1, InTail
    <2>3. \A x : InSeq(x, keep') <=> x = Head(rest) \/ InSeq(x, keep)
      BY <2>1, HeadTail, InAppend
    <2> QED
      BY <2>1, <2>2, <2>3, Zenon
  <1>16. CASE FlushEvict
    <2>1. /\ rest \in Seq(Event) /\ rest # <<>> /\ rest' = Tail(rest)
          /\ pc["flusher"] = "scan" /\ pc'["flusher"] = "push"
          /\ cur'["flusher"] = Head(rest)
          /\ pc'["trace"] = pc["trace"] /\ cur'["trace"] = cur["trace"]
          /\ UNCHANGED <<toCome, buckets, popped, fid, keep, handled, lost>>
      BY <1>t, <1>16 DEF TypeInv, TypeOK, FlushEvict, CallPush
    <2>2. \A x : InSeq(x, rest) <=> x = Head(rest) \/ InSeq(x, rest')
      BY <2>1, InTail
    <2> QED
      BY <2>1, <2>2, Zenon
  <1>17. CASE FlushBucketDone
    <2>1. /\ rest = <<>> /\ pc["flusher"] = "scan" /\ pc'["flusher"] = "range"
          /\ buckets' = [buckets EXCEPT ![fid] = keep]
          /\ buckets \in [Word -> Seq(Event)] /\ fid \in Word
          /\ pc'["trace"] = pc["trace"]
          /\ UNCHANGED <<toCome, cur, popped, handled, lost>>
      BY <1>t, <1>17 DEF TypeInv, TypeOK, FlushBucketDone, FlushedBucket
    <2>2. \A x \in Event, j \in Word :
             InSeq(x, buckets[j]) => InSeq(x, buckets'[j]) \/ handled[x] > 0
      BY <2>1, InEmpty
    <2> QED
      <3>1. Accounted'
        <4> SUFFICES ASSUME NEW x \in Event \ toCome', x.kind # "StackWalk", ~Queued(x)'
                     PROVE  \/ handled'[x] > 0 \/ x \in lost' \/ popped' = x
                            \/ \E u \in Thread : pc'[u] = "push" /\ cur'[u] = x
          OBVIOUS
        <4>1. ~Queued(x) \/ handled[x] > 0
          BY <2>2
        <4> QED
          BY <2>1, <4>1
      <3>2. FlushAccounted'
        BY <2>1
      <3> QED
        BY <3>1, <3>2
  <1>18. CASE FlushEnd
    BY <1>t, <1>18, SMT DEF FlushEnd, TypeInv, TypeOK
  <1>19. CASE UNCHANGED vars
    BY <1>19, SMT DEF vars
  <1> QED
    BY <1>1, <1>2, <1>3, <1>4, <1>5, <1>6, <1>7, <1>8, <1>9, <1>10, <1>11, <1>12,
       <1>13, <1>14, <1>15, <1>16, <1>17, <1>18, <1>19
       DEF Next, TraceStep, PushStep, FlushStep, Halted

\* Whatever the two threads do, no accepted event disappears: it is waiting, on
\* its way to the listeners, handled, or in a bucket the code deleted.
THEOREM NothingVanishes == Spec => []Accounted
  <1>1. Init => AccountInv
    <2>1. Init => TypeInv
      BY TypeInit
    <2>2. Init => Accounted /\ FlushAccounted
      BY DEF Init, Accounted, FlushAccounted, Thread
    <2> QED
      BY <2>1, <2>2 DEF AccountInv
  <1>2. AccountInv /\ [Next]_vars => AccountInv'
    BY AccountStep, TypeStep DEF AccountInv
  <1>3. AccountInv => Accounted
    BY DEF AccountInv
  <1> QED
    BY <1>1, <1>2, <1>3, PTL DEF Spec
-----------------------------------------------------------------------------
(* Callstacks and losses stay within one stack id *)

(***************************************************************************)
(* Every bucket, also the one flush is rebuilding, holds events of its own *)
(* stack id, and what a thread is about to do follows from its event.      *)
(***************************************************************************)
BucketsKeyed ==
    \A id \in Word, x \in Event : InSeq(x, buckets[id]) => StackID(x) = id

FlushKeyed == \A x \in Event : InSeq(x, rest) \/ InSeq(x, keep) => StackID(x) = fid

ProcsSurrogate == \A p \in Word : procs[p] # None => IsSurrogateProcess(procs[p])

HandSurrogate == popped # None => IsSurrogateProcess(cur["trace"])

HandHandled ==
    \A t \in Thread :
       /\ pc[t] = "remove" => cur[t].kind = "TerminateThread"
       /\ pc[t] \in {"remove", "send", "resume"} => handled[cur[t]] > 0

KeyInv ==
    /\ TypeInv
    /\ BucketsKeyed
    /\ FlushKeyed
    /\ ProcsSurrogate
    /\ HandSurrogate
    /\ HandHandled
    /\ StackFromBucket
    /\ LostOnlyWith

LEMMA KeyInit == Init => KeyInv
  <1> SUFFICES ASSUME Init PROVE KeyInv
    OBVIOUS
  <1>1. TypeInv
    BY TypeInit
  <1>2. BucketsKeyed /\ FlushKeyed
    BY InEmpty DEF Init, BucketsKeyed, FlushKeyed
  <1>3. ProcsSurrogate /\ HandSurrogate /\ HandHandled /\ StackFromBucket /\ LostOnlyWith
    BY DEF Init, ProcsSurrogate, HandSurrogate, HandHandled, StackFromBucket,
           LostOnlyWith, Thread
  <1> QED
    BY <1>1, <1>2, <1>3 DEF KeyInv

LEMMA KeyBuckets == KeyInv /\ [Next]_vars => BucketsKeyed' /\ FlushKeyed'
  <1> SUFFICES ASSUME KeyInv, [Next]_vars
               PROVE  BucketsKeyed' /\ FlushKeyed'
    OBVIOUS
  <1> USE DEF decorVars, flushVars
  <1>t. TypeInv /\ TypeInv' /\ BucketsKeyed /\ FlushKeyed
    BY TypeStep DEF KeyInv
  <1>a. /\ buckets \in [Word -> Seq(Event)] /\ fid \in Word
        /\ rest \in Seq(Event) /\ keep \in Seq(Event)
    BY <1>t DEF TypeInv, TypeOK
  <1>b. ASSUME UNCHANGED <<buckets, rest, keep, fid>> PROVE BucketsKeyed' /\ FlushKeyed'
    BY <1>t, <1>b DEF BucketsKeyed, FlushKeyed
  <1>c. ASSUME UNCHANGED <<rest, keep, fid>>,
               \A id \in Word, x \in Event :
                  InSeq(x, buckets'[id]) => InSeq(x, buckets[id]) \/ StackID(x) = id
        PROVE  BucketsKeyed' /\ FlushKeyed'
    BY <1>t, <1>c DEF BucketsKeyed, FlushKeyed
  <1>1. ASSUME NEW e \in Event, PushPending(e) PROVE BucketsKeyed' /\ FlushKeyed'
    <2>1. buckets' = [buckets EXCEPT ![StackID(e)] = Append(@, e)]
          /\ UNCHANGED <<rest, keep, fid>>
      BY <1>1 DEF PushPending, ProcsAfterPush
    <2> QED
      BY <1>a, <1>c, <2>1, StackIDType, InAppend
  <1>2. ASSUME NEW e \in Event, PopStackWalk(e) \/ PopSurrogate(e)
        PROVE  BucketsKeyed' /\ FlushKeyed'
    <2>1. /\ buckets' = [buckets EXCEPT ![StackID(e)] = Tail(@)]
          /\ buckets[StackID(e)] # <<>>
          /\ UNCHANGED <<rest, keep, fid>>
      BY <1>2 DEF PopStackWalk, PopSurrogate
    <2> QED
      BY <1>a, <1>c, <2>1, StackIDType, InTail
  <1>3. CASE FinishPop
    <2>1. UNCHANGED <<rest, keep, fid>>
      BY <1>3 DEF FinishPop
    <2>2. \A id \in Word, x \in Event : InSeq(x, buckets'[id]) => InSeq(x, buckets[id])
      BY <1>t, <1>3, FinishPopBuckets
    <2> QED
      BY <1>c, <2>1, <2>2
  <1>4. ASSUME NEW t \in Thread, RemoveBucket(t) PROVE BucketsKeyed' /\ FlushKeyed'
    <2>1. /\ buckets' = [buckets EXCEPT ![RemovedID(cur[t])] = <<>>]
          /\ UNCHANGED <<rest, keep, fid>>
      BY <1>4 DEF RemoveBucket
    <2> QED
      BY <1>a, <1>c, <2>1, InEmpty
  <1>5. ASSUME NEW id \in Word, FlushBucket(id) PROVE BucketsKeyed' /\ FlushKeyed'
    <2>1. rest' = buckets[id] /\ keep' = <<>> /\ fid' = id /\ buckets' = buckets
      BY <1>5 DEF FlushBucket
    <2> QED
      BY <1>t, <2>1, InEmpty DEF BucketsKeyed, FlushKeyed
  <1>6. CASE FlushKeep
    <2>1. /\ rest # <<>> /\ keep' = Append(keep, Head(rest)) /\ rest' = Tail(rest)
          /\ UNCHANGED <<buckets, fid>>
      BY <1>6 DEF FlushKeep
    <2>2. \A x \in Event : InSeq(x, rest') \/ InSeq(x, keep') =>
                            InSeq(x, rest) \/ InSeq(x, keep)
      BY <1>a, <2>1, HeadTail, InTail, InAppend
    <2> QED
      BY <1>t, <2>1, <2>2 DEF BucketsKeyed, FlushKeyed
  <1>7. CASE FlushEvict
    <2>1. rest # <<>> /\ rest' = Tail(rest) /\ UNCHANGED <<buckets, fid, keep>>
      BY <1>7 DEF FlushEvict
    <2> QED
      BY <1>a, <1>t, <2>1, InTail DEF BucketsKeyed, FlushKeyed
  <1>8. CASE FlushBucketDone
    <2>1. buckets' = [buckets EXCEPT ![fid] = keep] /\ UNCHANGED <<rest, keep, fid>>
      BY <1>8 DEF FlushBucketDone, FlushedBucket
    <2> QED
      BY <1>a, <1>t, <2>1 DEF BucketsKeyed, FlushKeyed
  <1>9. CASE \/ \E e \in Event : Age(e) \/ DropStackWalk(e) \/ PushDirect(e)
             \/ \E t \in Thread : Listen(t) \/ Send(t)
             \/ PopPanics \/ Dequeue \/ FlushStart \/ FlushEnd \/ UNCHANGED vars
    <2>1. UNCHANGED <<buckets, rest, keep, fid>>
      BY <1>9 DEF Age, DropStackWalk, PushDirect, Listen, Send, PopPanics, Dequeue,
                  FlushStart, FlushEnd, vars
    <2> QED
      BY <1>b, <2>1
  <1> QED
    BY <1>1, <1>2, <1>3, <1>4, <1>5, <1>6, <1>7, <1>8, <1>9
       DEF Next, TraceStep, PushStep, FlushStep, Halted

LEMMA KeyHand ==
    KeyInv /\ [Next]_vars => ProcsSurrogate' /\ HandSurrogate' /\ HandHandled'
  <1> SUFFICES ASSUME KeyInv, [Next]_vars
               PROVE  ProcsSurrogate' /\ HandSurrogate' /\ HandHandled'
    OBVIOUS
  <1> USE NoneAssumption, EventAssumption DEF decorVars, flushVars, Thread
  <1>t. TypeInv /\ TypeInv' /\ ProcsSurrogate /\ HandSurrogate /\ HandHandled
    BY TypeStep DEF KeyInv
  <1>a. /\ procs \in [Word -> Event \cup {None}]
        /\ pc \in [Thread -> {"idle", "push", "remove", "send", "resume", "panicked",
                          "range", "scan"}]
        /\ cur \in [Thread -> Event \cup {None}]
        /\ handled \in [Event -> Nat]
    BY <1>t DEF TypeInv, TypeOK
  <1>b. ASSUME UNCHANGED <<procs, popped, cur, handled>>,
               \A t \in Thread : pc'[t] \in {"remove", "send", "resume"} => pc'[t] = pc[t]
        PROVE  ProcsSurrogate' /\ HandSurrogate' /\ HandHandled'
    BY <1>t, <1>b DEF ProcsSurrogate, HandSurrogate, HandHandled
  <1>1. ASSUME NEW e \in Event, PushPending(e)
        PROVE  ProcsSurrogate' /\ HandSurrogate' /\ HandHandled'
    <2>1. /\ procs' = IF IsSurrogateProcess(e) THEN [procs EXCEPT ![e.tpid] = e] ELSE procs
          /\ UNCHANGED <<popped, cur, handled, pc>>
      BY <1>1 DEF PushPending, ProcsAfterPush
    <2>2. ProcsSurrogate'
      BY <1>a, <1>t, <2>1 DEF ProcsSurrogate
    <2> QED
      BY <1>t, <2>1, <2>2 DEF HandSurrogate, HandHandled
  <1>2. ASSUME NEW e \in Event, PopStackWalk(e)
        PROVE  ProcsSurrogate' /\ HandSurrogate' /\ HandHandled'
    <2>1. /\ procs' = procs \/ \E p : procs' = [procs EXCEPT ![p] = None]
          /\ pc' = [pc EXCEPT !["trace"] = "push"]
          /\ \E x : cur' = [cur EXCEPT !["trace"] = x]
          /\ UNCHANGED <<popped, handled>> /\ mux = None
      BY <1>2 DEF PopStackWalk, ProcsAfterPop, CallPush
    <2>2. popped = None
      BY <1>t, <2>1 DEF TypeInv, Control
    <2>3. ProcsSurrogate'
      BY <1>a, <1>t, <2>1 DEF ProcsSurrogate
    <2> QED
      BY <1>a, <1>t, <2>1, <2>2, <2>3 DEF HandSurrogate, HandHandled
  <1>3. ASSUME NEW e \in Event, PopSurrogate(e)
        PROVE  ProcsSurrogate' /\ HandSurrogate' /\ HandHandled'
    <2> DEFINE evt == Head(buckets[StackID(e)])
    <2>1. /\ procs' = procs /\ handled' = handled
          /\ pc' = [pc EXCEPT !["trace"] = "push"]
          /\ cur' = [cur EXCEPT !["trace"] = procs[evt.tpid]]
          /\ procs[evt.tpid] # None
      BY <1>3 DEF PopSurrogate, CallPush, HasSurrogate
    <2>2. evt \in Event
      <3>1. buckets[StackID(e)] \in Seq(Event) /\ buckets[StackID(e)] # <<>>
        BY <1>3, <1>t, StackIDType DEF TypeInv, TypeOK, PopSurrogate
      <3> QED
        BY <3>1, HeadTail
    <2>3. evt.tpid \in Word
      BY <2>2 DEF EventRecord
    <2>4. IsSurrogateProcess(cur'["trace"])
      BY <1>a, <1>t, <2>1, <2>3 DEF ProcsSurrogate
    <2> QED
      BY <1>a, <1>t, <2>1, <2>4 DEF ProcsSurrogate, HandSurrogate, HandHandled
  <1>4. ASSUME NEW e \in Event, PushDirect(e)
        PROVE  ProcsSurrogate' /\ HandSurrogate' /\ HandHandled'
    <2>1. /\ pc["trace"] = "idle"
          /\ pc' = [pc EXCEPT !["trace"] = "push"]
          /\ cur' = [cur EXCEPT !["trace"] = e]
          /\ UNCHANGED <<popped, procs, handled>>
      BY <1>4 DEF PushDirect, CallPush, Receive
    <2>2. popped = None
      BY <1>t, <2>1 DEF TypeInv, Control
    <2> QED
      BY <1>a, <1>t, <2>1, <2>2 DEF ProcsSurrogate, HandSurrogate, HandHandled
  <1>5. CASE FinishPop
    <2>1. /\ procs' = [procs EXCEPT ![popped.tpid] = None]
          /\ pc' = [pc EXCEPT !["trace"] = "push"]
          /\ cur' = [cur EXCEPT !["trace"] = popped]
          /\ popped' = None /\ handled' = handled
      BY <1>5 DEF FinishPop, CallPush
    <2>2. ProcsSurrogate'
      BY <1>a, <1>t, <2>1 DEF ProcsSurrogate
    <2> QED
      BY <1>a, <1>t, <2>1, <2>2 DEF HandSurrogate, HandHandled
  <1>6. ASSUME NEW t \in Thread, Listen(t)
        PROVE  ProcsSurrogate' /\ HandSurrogate' /\ HandHandled'
    <2>1. /\ handled' = [handled EXCEPT ![cur[t]] = @ + 1]
          /\ UNCHANGED <<procs, cur, popped>>
          /\ cur[t] \in Event
          /\ \A u \in Thread : u # t => pc'[u] = pc[u]
          /\ pc'[t] = "remove" => cur[t].kind = "TerminateThread"
      BY <1>6, <1>a, <1>t DEF Listen, TypeInv, Control, ReturnPC
    <2>2. \A x \in Event : handled[x] > 0 \/ x = cur[t] => handled'[x] > 0
      BY <1>a, <2>1, SMT
    <2>3. \A u \in Thread : pc[u] \in {"remove", "send", "resume"} => cur[u] \in Event
      BY <1>t DEF TypeInv, Control
    <2>4. HandHandled'
      BY <1>t, <2>1, <2>2, <2>3 DEF HandHandled
    <2> QED
      BY <1>t, <2>1, <2>4 DEF ProcsSurrogate, HandSurrogate
  <1>7. ASSUME NEW t \in Thread, RemoveBucket(t) \/ Send(t)
        PROVE  ProcsSurrogate' /\ HandSurrogate' /\ HandHandled'
    <2>1. /\ UNCHANGED <<procs, cur, popped, handled>>
          /\ pc[t] \in {"remove", "send"}
          /\ \A u \in Thread : u # t => pc'[u] = pc[u]
          /\ pc'[t] # "remove"
      BY <1>7, <1>a DEF RemoveBucket, Send, ReturnPC
    <2> QED
      BY <1>t, <2>1 DEF ProcsSurrogate, HandSurrogate, HandHandled
  <1>8. CASE FlushEvict
    <2>1. /\ pc' = [pc EXCEPT !["flusher"] = "push"]
          /\ cur' = [cur EXCEPT !["flusher"] = Head(rest)]
          /\ UNCHANGED <<popped, procs, handled>>
      BY <1>8 DEF FlushEvict, CallPush
    <2> QED
      BY <1>a, <1>t, <2>1 DEF ProcsSurrogate, HandSurrogate, HandHandled
  <1>9. CASE \/ \E e \in Event : Age(e) \/ DropStackWalk(e)
             \/ Dequeue \/ FlushKeep \/ UNCHANGED vars
    <2>1. UNCHANGED <<procs, popped, cur, handled, pc>>
      BY <1>9 DEF Age, DropStackWalk, Dequeue, FlushKeep, vars
    <2> QED
      BY <1>b, <2>1
  <1>10. CASE FlushStart \/ (\E id \in Word : FlushBucket(id)) \/ FlushBucketDone \/ FlushEnd
    <2>1. /\ UNCHANGED <<procs, popped, cur, handled>>
          /\ \E l \in {"idle", "range", "scan"} : pc' = [pc EXCEPT !["flusher"] = l]
      BY <1>10 DEF FlushStart, FlushBucket, FlushBucketDone, FlushEnd
    <2> QED
      BY <1>a, <1>b, <2>1
  <1>11. CASE PopPanics
    <2>1. /\ UNCHANGED <<procs, popped, cur, handled>>
          /\ pc' = [pc EXCEPT !["trace"] = "panicked"]
      BY <1>11 DEF PopPanics
    <2> QED
      BY <1>a, <1>b, <2>1
  <1> QED
    BY <1>1, <1>2, <1>3, <1>4, <1>5, <1>6, <1>7, <1>8, <1>9, <1>10, <1>11
       DEF Next, TraceStep, PushStep, FlushStep, Halted

LEMMA KeyStack == KeyInv /\ [Next]_vars => StackFromBucket'
  <1> SUFFICES ASSUME KeyInv, [Next]_vars
               PROVE  StackFromBucket'
    OBVIOUS
  <1> USE NoneAssumption, EventAssumption DEF decorVars, flushVars
  <1>t. TypeInv /\ BucketsKeyed /\ ProcsSurrogate /\ StackFromBucket
    BY DEF KeyInv
  <1>a. buckets \in [Word -> Seq(Event)] /\ stack \in [Event -> Event \cup {None}]
        /\ procs \in [Word -> Event \cup {None}]
    BY <1>t DEF TypeInv, TypeOK
  <1>b. ASSUME NEW e \in Event, buckets[StackID(e)] # <<>>
        PROVE  /\ Head(buckets[StackID(e)]) \in Event
               /\ StackID(Head(buckets[StackID(e)])) = StackID(e)
    <2>1. StackID(e) \in Word /\ buckets[StackID(e)] \in Seq(Event)
      BY <1>a, StackIDType
    <2> QED
      BY <1>t, <1>b, <2>1, HeadTail, InTail DEF BucketsKeyed
  <1>1. ASSUME NEW e \in Event, PopStackWalk(e) PROVE StackFromBucket'
    <2> DEFINE evt == Head(buckets[StackID(e)])
    <2>1. stack' = [stack EXCEPT ![evt] = e] /\ e.kind = "StackWalk"
          /\ buckets[StackID(e)] # <<>>
      BY <1>1 DEF PopStackWalk
    <2>2. evt \in Event /\ StackID(evt) = StackID(e)
      BY <1>b, <2>1
    <2> HIDE DEF evt
    <2> QED
      BY <1>a, <1>t, <2>1, <2>2 DEF StackFromBucket
  <1>2. ASSUME NEW e \in Event, PopSurrogate(e) PROVE StackFromBucket'
    <2> DEFINE evt == Head(buckets[StackID(e)])
               ev == procs[evt.tpid]
    <2>1. /\ stack' = [stack EXCEPT ![evt] = e, ![ev] = e] /\ e.kind = "StackWalk"
          /\ buckets[StackID(e)] # <<>> /\ ev # None
      BY <1>2 DEF PopSurrogate, HasSurrogate
    <2>2. evt \in Event /\ StackID(evt) = StackID(e)
      BY <1>b, <2>1
    <2>3. evt.tpid \in Word
      BY <2>2 DEF EventRecord
    <2>4. ev \in Event /\ IsSurrogateProcess(ev)
      BY <1>a, <1>t, <2>1, <2>3 DEF ProcsSurrogate
    <2> HIDE DEF evt, ev
    <2> QED
      BY <1>a, <1>t, <2>1, <2>2, <2>4 DEF StackFromBucket
  <1>3. CASE UNCHANGED stack
    BY <1>3, <1>t DEF StackFromBucket
  <1>4. \/ UNCHANGED stack
        \/ \E e \in Event : PopStackWalk(e) \/ PopSurrogate(e)
    BY DEF Next, TraceStep, PushStep, FlushStep, Halted, Age, PushPending, DropStackWalk,
           PushDirect, FinishPop, PopPanics, Listen, RemoveBucket, Send, Dequeue,
           FlushStart, FlushBucket, FlushKeep, FlushEvict, FlushBucketDone, FlushEnd, vars
  <1> QED
    BY <1>1, <1>2, <1>3, <1>4

LEMMA KeyLost == KeyInv /\ [Next]_vars => LostOnlyWith'
  <1> SUFFICES ASSUME KeyInv, [Next]_vars
               PROVE  LostOnlyWith'
    OBVIOUS
  <1> USE NoneAssumption DEF decorVars, flushVars
  <1>t. /\ TypeInv /\ BucketsKeyed /\ HandSurrogate /\ HandHandled /\ LostOnlyWith
        /\ handled \in [Event -> Nat] /\ buckets \in [Word -> Seq(Event)]
    BY DEF KeyInv, TypeInv, TypeOK
  <1>h. \A x \in Event : handled[x] > 0 => handled'[x] > 0
    <2>1. handled' = handled \/ \E t \in Thread : Listen(t)
      BY DEF Next, TraceStep, PushStep, FlushStep, Halted, Age, PushPending,
             DropStackWalk, PopStackWalk, PopSurrogate, PushDirect, FinishPop, PopPanics,
             RemoveBucket, Send, Dequeue, FlushStart, FlushBucket, FlushKeep,
             FlushEvict, FlushBucketDone, FlushEnd, vars
    <2>2. ASSUME NEW t \in Thread, Listen(t)
          PROVE  \A x \in Event : handled[x] > 0 => handled'[x] > 0
      BY <1>t, <2>2, SMT DEF Listen
    <2> QED
      BY <2>1, <2>2
  <1>1. ASSUME NEW e \in Event, e \in lost, lost \subseteq lost'
        PROVE  \E x \in Event :
                  /\ handled'[x] > 0
                  /\ \/ x.kind = "TerminateThread" /\ RemovedID(x) = StackID(e)
                     \/ IsSurrogateProcess(x) /\ StackID(x) = StackID(e)
    BY <1>t, <1>h, <1>1 DEF LostOnlyWith
  <1>2. CASE FinishPop
    <2> DEFINE ev == cur["trace"]
               new == {e \in Event : /\ InSeq(e, buckets[StackID(ev)])
                                     /\ ~Stays(e, popped.tpid)
                                     /\ handled[e] = 0}
    <2>1. ev \in Event /\ popped # None /\ handled[ev] > 0 /\ IsSurrogateProcess(ev)
      BY <1>2, <1>t DEF FinishPop, TypeInv, Control, HandSurrogate, HandHandled, Thread
    <2>2. lost' = lost \cup new
      BY <1>2 DEF FinishPop
    <2>3. \A e \in new : StackID(e) = StackID(ev)
      BY <1>t, <2>1, StackIDType DEF BucketsKeyed
    <2>4. lost \subseteq Event
      BY <1>t DEF TypeInv, TypeOK
    <2> QED
      BY <1>1, <1>h, <2>1, <2>2, <2>3, <2>4 DEF LostOnlyWith
  <1>3. ASSUME NEW t \in Thread, RemoveBucket(t) PROVE LostOnlyWith'
    <2> DEFINE new == {e \in Event : InSeq(e, buckets[RemovedID(cur[t])])}
    <2>1. cur[t] \in Event /\ handled[cur[t]] > 0 /\ cur[t].kind = "TerminateThread"
      BY <1>3, <1>t DEF RemoveBucket, TypeInv, Control, HandHandled
    <2>2. lost' = lost \cup new
      BY <1>3 DEF RemoveBucket
    <2>3. \A e \in new : StackID(e) = RemovedID(cur[t])
      BY <1>t, <2>1, StackIDType DEF BucketsKeyed
    <2>4. lost \subseteq Event
      BY <1>t DEF TypeInv, TypeOK
    <2> QED
      BY <1>1, <1>h, <2>1, <2>2, <2>3, <2>4 DEF LostOnlyWith
  <1>4. CASE lost' = lost
    BY <1>1, <1>4, <1>t DEF LostOnlyWith, TypeInv, TypeOK
  <1>5. lost' = lost \/ FinishPop \/ \E t \in Thread : RemoveBucket(t)
    BY DEF Next, TraceStep, PushStep, FlushStep, Halted, Age, PushPending, DropStackWalk,
           PopStackWalk, PopSurrogate, PushDirect, PopPanics, Listen, Send, Dequeue,
           FlushStart, FlushBucket, FlushKeep, FlushEvict, FlushBucketDone, FlushEnd, vars
  <1> QED
    BY <1>2, <1>3, <1>4, <1>5

LEMMA KeyStep == KeyInv /\ [Next]_vars => KeyInv'
  BY TypeStep, KeyBuckets, KeyHand, KeyStack, KeyLost DEF KeyInv

\* A callstack reaches only an event of the StackWalk's own stack id or a
\* surrogate's CreateProcess event.
THEOREM StacksStayInBucket == Spec => []StackFromBucket
  <1>1. KeyInv => StackFromBucket
    BY DEF KeyInv
  <1> QED
    BY <1>1, KeyInit, KeyStep, PTL DEF Spec

\* An event is dropped unseen only next to a terminated thread or a surrogate
\* of its own stack id that the listeners have seen.
THEOREM LossesHaveACause == Spec => []LostOnlyWith
  <1>1. KeyInv => LostOnlyWith
    BY DEF KeyInv
  <1> QED
    BY <1>1, KeyInit, KeyStep, PTL DEF Spec
-----------------------------------------------------------------------------
(* Waiting for the mutex *)

\* flush gives push nothing but expired events.
FlusherExpired ==
    pc["flusher"] \in {"push", "remove", "send"} => cur["flusher"] \in aged

LEMMA ExpiredStep == TypeInv /\ FlusherExpired /\ [Next]_vars => FlusherExpired'
  <1> SUFFICES ASSUME TypeInv, FlusherExpired, [Next]_vars
               PROVE  FlusherExpired'
    OBVIOUS
  <1> USE DEF decorVars, flushVars, Thread
  <1>a. /\ pc \in [Thread -> {"idle", "push", "remove", "send", "resume", "panicked",
                          "range", "scan"}]
        /\ cur \in [Thread -> Event \cup {None}]
    BY DEF TypeInv, TypeOK
  <1>b. ASSUME aged \subseteq aged', cur'["flusher"] = cur["flusher"],
               pc'["flusher"] \in {"push", "remove", "send"} =>
                  pc["flusher"] \in {"push", "remove", "send"}
        PROVE  FlusherExpired'
    BY <1>b DEF FlusherExpired
  <1>1. CASE \/ \E e \in Event : \/ Age(e) \/ PushPending(e) \/ DropStackWalk(e)
                                 \/ PopStackWalk(e) \/ PopSurrogate(e) \/ PushDirect(e)
             \/ FinishPop \/ PopPanics \/ Dequeue \/ UNCHANGED vars
    <2>1. /\ aged \subseteq aged'
          /\ cur' = cur \/ \E x : cur' = [cur EXCEPT !["trace"] = x]
          /\ pc' = pc \/ \E l : pc' = [pc EXCEPT !["trace"] = l]
      BY <1>1 DEF Age, PushPending, DropStackWalk, PopStackWalk, PopSurrogate, PushDirect,
                  FinishPop, PopPanics, Dequeue, CallPush, vars
    <2> QED
      BY <1>a, <1>b, <2>1
  <1>2. ASSUME NEW t \in Thread, PushStep(t) PROVE FlusherExpired'
    <2>1. /\ UNCHANGED <<aged, cur>>
          /\ pc[t] \in {"push", "remove", "send"}
          /\ \A u \in Thread : u # t => pc'[u] = pc[u]
      BY <1>2, <1>a DEF PushStep, Listen, RemoveBucket, Send
    <2> QED
      BY <1>b, <2>1
  <1>3. CASE FlushEvict
    <2>1. cur'["flusher"] \in aged /\ aged' = aged
      BY <1>3, <1>a DEF FlushEvict, CallPush, Expired
    <2> QED
      BY <2>1 DEF FlusherExpired
  <1>4. CASE \/ FlushStart \/ (\E id \in Word : FlushBucket(id)) \/ FlushKeep
             \/ FlushBucketDone \/ FlushEnd
    <2>1. /\ UNCHANGED <<aged, cur>>
          /\ pc' = pc \/ \E l \in {"idle", "range", "scan"} : pc' = [pc EXCEPT !["flusher"] = l]
      BY <1>4 DEF FlushStart, FlushBucket, FlushKeep, FlushBucketDone, FlushEnd
    <2> QED
      BY <1>a, <1>b, <2>1
  <1> QED
    BY <1>1, <1>2, <1>3, <1>4 DEF Next, TraceStep, FlushStep, Halted

\* The owner of the mutex waits for it only in flush's push of an expired end
\* of a thread (queue.go push, stackwalk.go RemoveBucket); a thread end that
\* gets its callstack in time, and a surrogate pushed by Pop, never do.
THEOREM OwnerWaitsOnlyOnExpiry == Spec => []SelfBlockedOnlyByExpiry
  <1>1. Init => FlusherExpired
    BY DEF Init, FlusherExpired, Thread
  <1>2. KeyInv /\ FlusherExpired /\ [Next]_vars => KeyInv' /\ FlusherExpired'
    BY KeyStep, ExpiredStep DEF KeyInv
  <1>3. KeyInv /\ FlusherExpired => SelfBlockedOnlyByExpiry
    <2> SUFFICES ASSUME KeyInv, FlusherExpired,
                        NEW t \in Thread, mux = t, pc[t] = "remove"
                 PROVE  t = "flusher" /\ cur[t].kind = "TerminateThread" /\ Expired(cur[t])
      BY DEF SelfBlockedOnlyByExpiry
    <2>1. cur[t].kind = "TerminateThread"
      BY DEF KeyInv, HandHandled
    <2>2. t # "trace"
      BY <2>1 DEF KeyInv, TypeInv, Control, HandSurrogate, IsSurrogateProcess
    <2> QED
      BY <2>1, <2>2 DEF Thread, FlusherExpired, Expired
  <1> QED
    BY <1>1, <1>2, <1>3, KeyInit, PTL DEF Spec
=============================================================================
