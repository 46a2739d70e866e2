----------------------- MODULE StackwalkDeliveryProofs -----------------------
(***************************************************************************)
(* Proofs that the queue hands an event to the listeners once, and that    *)
(* StackwalkQueue implements EventDelivery.                                *)
(***************************************************************************)
EXTENDS StackwalkQueueProofs

(***************************************************************************)
(* An event is in at most one of the places that lead to the listeners.    *)
(* Two places hold a second copy: procs keeps a surrogate's CreateProcess  *)
(* event that is also in its bucket, and while flush works on a bucket the *)
(* bucket still holds the events flush has already taken out of rest.      *)
(***************************************************************************)
Scanning == pc["flusher"] \in {"scan", "push", "remove", "send"}

\* The flusher has not decided yet, or has decided to keep the event.
Unread(x) == InSeq(x, rest) \/ InSeq(x, keep)

\* Pop pushes the surrogate x while it holds the mutex.
Brokered(x) == popped # None /\ cur["trace"] = x

Distinct(s) == \A i, j \in 1 .. Len(s) : s[i] = s[j] => i = j

BucketsDistinct == \A id \in Word : Distinct(buckets[id])

FlushDistinct ==
    Scanning =>
       /\ Distinct(rest)
       /\ \A x \in Event : InSeq(x, rest) => ~InSeq(x, keep)
       /\ Distinct(keep)
       /\ \A x \in Event : Unread(x) => InSeq(x, buckets[fid])

Untouched ==
    \A x \in toCome :
       /\ ~Queued(x) /\ handled[x] = 0 /\ popped # x
       /\ \A p \in Word : procs[p] # x
       /\ \A t \in Thread : pc[t] = "push" => cur[t] # x

QueuedUnseen ==
    \A x \in Event : Queued(x) =>
       /\ popped # x
       /\ pc["trace"] = "push" /\ cur["trace"] = x => popped # None
       /\ \/ handled[x] = 0
          \/ Brokered(x)
          \/ Scanning /\ InSeq(x, buckets[fid]) /\ ~Unread(x)

Evicting ==
    pc["flusher"] = "push" =>
       /\ InSeq(cur["flusher"], buckets[fid])
       /\ ~Unread(cur["flusher"])
       /\ cur["flusher"] \in aged
       /\ handled[cur["flusher"]] = 0

Pushing ==
    pc["trace"] = "push" =>
       \/ handled[cur["trace"]] = 0
       \/ /\ IsSurrogateProcess(cur["trace"])
          /\ cur["trace"] \in aged
          /\ handled[cur["trace"]] = 1

Cached ==
    \A p \in Word, x \in Event : procs[p] = x =>
       /\ x.tpid = p
       /\ pc["trace"] = "push" /\ cur["trace"] = x => popped # None
       /\ Brokered(x) \/ handled[x] = 0 \/ (x \in aged /\ handled[x] = 1)

PoppedUnseen ==
    popped # None =>
       /\ popped.kind = "CreateThread"
       /\ procs[popped.tpid] = cur["trace"]
       /\ handled[popped] = 0

\* HandledOnce without its conditional expression.
TwiceAtMost ==
    \A x \in Event :
       \/ handled[x] <= 1
       \/ IsSurrogateProcess(x) /\ x \in aged /\ handled[x] <= 2

\* A dropped event has left the queue for good, unless procs remembers it.
LostSettled ==
    \A x \in lost : ~IsSurrogateProcess(x) =>
       /\ x \notin toCome /\ ~Queued(x) /\ popped # x
       /\ \A t \in Thread : pc[t] = "push" => cur[t] # x

NoCarrier ==
    /\ \A x \in Event : Queued(x) => x.kind # "StackWalk"
    /\ \A t \in Thread : pc[t] = "push" => cur[t].kind # "StackWalk"

OneCopy ==
    /\ BucketsDistinct
    /\ FlushDistinct
    /\ Untouched
    /\ QueuedUnseen
    /\ Evicting
    /\ Pushing
    /\ Cached
    /\ PoppedUnseen
    /\ TwiceAtMost
    /\ LostSettled
    /\ NoCarrier

OnceInv == KeyInv /\ OneCopy
-----------------------------------------------------------------------------
(* Sequences without repetition *)

LEMMA DistinctEmpty == Distinct(<<>>)
  BY SMT DEF Distinct

LEMMA DistinctAppend ==
    ASSUME NEW s \in Seq(Event), NEW e \in Event, Distinct(s), ~InSeq(e, s)
    PROVE  Distinct(Append(s, e))
  BY SMT DEF Distinct, InSeq

LEMMA DistinctTail ==
    ASSUME NEW s \in Seq(Event), s # <<>>, Distinct(s)
    PROVE  Distinct(Tail(s)) /\ ~InSeq(Head(s), Tail(s))
  <1>1. \A i \in 1 .. Len(Tail(s)) : i + 1 \in 1 .. Len(s) /\ Tail(s)[i] = s[i + 1]
    BY SMT
  <1>2. Distinct(Tail(s))
    BY <1>1, SMT DEF Distinct
  <1>3. 1 \in 1 .. Len(s) /\ s[1] = Head(s)
    BY SMT
  <1>4. ~InSeq(Head(s), Tail(s))
    BY <1>1, <1>3, SMT DEF Distinct, InSeq
  <1> QED
    BY <1>2, <1>4

\* The bucket FinishPop writes back repeats no event either.
LEMMA DistinctCleaned ==
    ASSUME NEW qu \in Seq(Event), NEW new \in Seq(Event), NEW f, NEW pid, Distinct(qu),
           Enumerates(f, StayAt(qu, pid)),
           \A i \in DOMAIN f : f[i] \in StayAt(qu, pid),
           DOMAIN new = DOMAIN f,
           \A i \in DOMAIN f : new[i] = qu[f[i]]
    PROVE  Distinct(new)
  <1>1. DOMAIN new = 1 .. Len(new)
    OBVIOUS
  <1> SUFFICES ASSUME NEW i \in 1 .. Len(new), NEW j \in 1 .. Len(new), new[i] = new[j]
               PROVE  i = j
    BY DEF Distinct
  <1>2. f[i] \in 1 .. Len(qu) /\ f[j] \in 1 .. Len(qu) /\ qu[f[i]] = qu[f[j]]
    BY <1>1 DEF StayAt
  <1>3. f[i] = f[j]
    BY <1>2 DEF Distinct
  <1>4. ~(i < j) /\ ~(j < i)
    BY <1>1, <1>2, <1>3, SMT DEF Enumerates
  <1> QED
    BY <1>4, SMT
-----------------------------------------------------------------------------
(* Every step keeps the invariant *)

\* The steps that move no event between the places.
LEMMA OnceFrame ==
    ASSUME OnceInv, toCome' \subseteq toCome, aged \subseteq aged',
           UNCHANGED <<buckets, procs, cur, popped, rest, keep, fid, handled, lost>>,
           \A t \in Thread : pc'[t] = "push" <=> pc[t] = "push",
           Scanning' <=> Scanning
    PROVE  OneCopy'
  <1> USE DEF OnceInv, OneCopy, Thread
  <1>q. \A x \in Event : (Queued(x)' <=> Queued(x)) /\ (Unread(x)' <=> Unread(x))
                         /\ (Brokered(x)' <=> Brokered(x))
    BY DEF Queued, Unread, Brokered
  <1>t. toCome \subseteq Event /\ lost \subseteq Event /\ cur \in [Thread -> Event \cup {None}]
    BY DEF KeyInv, TypeInv, TypeOK
  <1>1. BucketsDistinct' /\ FlushDistinct'
    BY <1>q DEF BucketsDistinct, FlushDistinct
  <1>2. Untouched'
    BY <1>q, <1>t DEF Untouched
  <1>3. QueuedUnseen'
    BY <1>q DEF QueuedUnseen
  <1>4. Evicting'
    BY DEF Evicting, Unread
  <1>5. Pushing'
    BY DEF Pushing
  <1>6. Cached'
    BY <1>q DEF Cached
  <1>7. PoppedUnseen' /\ TwiceAtMost'
    BY DEF PoppedUnseen, TwiceAtMost
  <1>8. LostSettled'
    BY <1>q, <1>t DEF LostSettled
  <1>9. NoCarrier'
    BY <1>q DEF NoCarrier
  <1> QED
    BY <1>1, <1>2, <1>3, <1>4, <1>5, <1>6, <1>7, <1>8, <1>9

\* The types the following proofs use.
LEMMA OnceTypes ==
    ASSUME KeyInv
    PROVE  /\ toCome \subseteq Event /\ lost \subseteq Event
           /\ buckets \in [Word -> Seq(Event)] /\ fid \in Word
           /\ rest \in Seq(Event) /\ keep \in Seq(Event)
           /\ procs \in [Word -> Event \cup {None}]
           /\ cur \in [Thread -> Event \cup {None}]
           /\ pc \in [Thread -> {"idle", "push", "remove", "send", "resume", "panicked",
                                 "range", "scan"}]
           /\ popped \in Event \cup {None}
           /\ handled \in [Event -> Nat]
  BY DEF KeyInv, TypeInv, TypeOK

\* While nobody holds the mutex no flush is under way and no surrogate is
\* being pushed.
LEMMA Unlocked ==
    ASSUME KeyInv, mux = None
    PROVE  pc["flusher"] = "idle" /\ popped = None /\ ~Scanning
  BY NoneAssumption DEF KeyInv, TypeInv, Control, Scanning, Thread

LEMMA OncePushPending ==
    ASSUME OnceInv, NEW e \in Event, PushPending(e)
    PROVE  OneCopy'
  <1> USE NoneAssumption DEF OnceInv, OneCopy, Thread
  <1>t. StackID(e) \in Word /\ e.tpid \in Word
    BY StackIDType, EventAssumption DEF EventRecord
  <1>1. /\ pc["trace"] = "idle" /\ e \in toCome /\ toCome' = toCome \ {e}
        /\ CanEnrichStack(e) /\ mux = None
        /\ procs' = ProcsAfterPush(e)
        /\ buckets' = [buckets EXCEPT ![StackID(e)] = Append(@, e)]
        /\ UNCHANGED <<aged, pc, cur, popped, rest, keep, fid, handled, lost>>
    BY DEF PushPending, Receive, flushVars
  <1>2. pc["flusher"] = "idle" /\ popped = None /\ ~Scanning /\ ~Scanning'
    BY <1>1, Unlocked DEF Scanning
  <1>3. ~Queued(e) /\ handled[e] = 0 /\ \A p \in Word : procs[p] # e
    BY <1>1 DEF Untouched
  <1>4. \A x : \A id \in Word : InSeq(x, buckets'[id]) <=>
                         InSeq(x, buckets[id]) \/ (id = StackID(e) /\ x = e)
    BY <1>1, <1>t, OnceTypes, InAppend
  <1>5. \A x : Queued(x)' <=> Queued(x) \/ x = e
    BY <1>4, <1>t DEF Queued
  <1>6. BucketsDistinct'
    <2>1. Distinct(Append(buckets[StackID(e)], e))
      BY <1>3, <1>t, OnceTypes, DistinctAppend DEF BucketsDistinct, Queued
    <2> QED
      BY <1>1, <1>t, <2>1, OnceTypes DEF BucketsDistinct
  <1>7. FlushDistinct' /\ Evicting' /\ Pushing' /\ TwiceAtMost' /\ PoppedUnseen'
    BY <1>1, <1>2 DEF FlushDistinct, Evicting, Pushing, TwiceAtMost, PoppedUnseen
  <1>8. \A p \in Word : \A x : procs'[p] = x => procs[p] = x \/ (x = e /\ p = e.tpid)
    BY <1>1, <1>t, OnceTypes DEF ProcsAfterPush
  <1>9. Untouched'
    <2> SUFFICES ASSUME NEW x \in toCome'
                 PROVE  /\ ~Queued(x)' /\ handled'[x] = 0 /\ popped' # x
                        /\ \A p \in Word : procs'[p] # x
                        /\ \A t \in Thread : pc'[t] = "push" => cur'[t] # x
      BY DEF Untouched
    <2>1. x \in toCome /\ x # e
      BY <1>1
    <2>2. /\ ~Queued(x) /\ handled[x] = 0 /\ popped # x /\ \A p \in Word : procs[p] # x
          /\ \A t \in Thread : pc[t] = "push" => cur[t] # x
      BY <2>1 DEF Untouched
    <2> QED
      BY <1>1, <1>5, <1>8, <2>1, <2>2
  <1>10. QueuedUnseen'
    BY <1>1, <1>2, <1>3, <1>5 DEF QueuedUnseen, Brokered
  <1>11. Cached'
    BY <1>1, <1>2, <1>3, <1>8 DEF Cached, Brokered
  <1>12. LostSettled'
    BY <1>1, <1>5 DEF LostSettled
  <1>13. NoCarrier'
    BY <1>1, <1>5 DEF NoCarrier, CanEnrichStack
  <1> QED
    BY <1>6, <1>7, <1>9, <1>10, <1>11, <1>12, <1>13

\* Pop takes the head of a bucket: no copy of it is left in the buckets.
LEMMA PoppedHead ==
    ASSUME OnceInv, NEW e \in Event, buckets[StackID(e)] # <<>>, mux = None,
           pc["trace"] = "idle",
           buckets' = [buckets EXCEPT ![StackID(e)] = Tail(@)]
    PROVE  LET evt == Head(buckets[StackID(e)]) IN
           /\ evt \in Event /\ Queued(evt) /\ handled[evt] = 0
           /\ \A x : Queued(x)' <=> Queued(x) /\ x # evt
           /\ BucketsDistinct'
  <1> DEFINE id == StackID(e)
             evt == Head(buckets[id])
  <1> USE NoneAssumption DEF OnceInv, OneCopy
  <1>1. id \in Word /\ buckets[id] \in Seq(Event)
    BY StackIDType, OnceTypes
  <1>2. evt \in Event /\ \A x : InSeq(x, buckets[id]) <=> x = evt \/ InSeq(x, Tail(buckets[id]))
    BY <1>1, HeadTail, InTail
  <1>3. Distinct(Tail(buckets[id])) /\ ~InSeq(evt, Tail(buckets[id]))
    BY <1>1, DistinctTail DEF BucketsDistinct
  <1>4. BucketsDistinct'
    BY <1>1, <1>3, OnceTypes DEF BucketsDistinct
  <1>5. buckets'[id] = Tail(buckets[id]) /\ \A j \in Word : j # id => buckets'[j] = buckets[j]
    BY <1>1, OnceTypes
  <1>6. Queued(evt)
    BY <1>1, <1>2 DEF Queued
  <1>7. StackID(evt) = id
    BY <1>1, <1>2 DEF KeyInv, BucketsKeyed
  <1>8. handled[evt] = 0
    BY <1>2, <1>6, Unlocked DEF QueuedUnseen, Brokered
  <1> HIDE DEF id, evt
  <1>9. ASSUME NEW x PROVE Queued(x)' <=> Queued(x) /\ x # evt
    <2>1. ASSUME Queued(x)' PROVE Queued(x) /\ x # evt
      <3>1. PICK j \in Word : InSeq(x, buckets'[j])
        BY <2>1 DEF Queued
      <3>2. CASE j = id
        BY <1>1, <1>2, <1>3, <1>5, <3>1, <3>2 DEF Queued
      <3>3. CASE j # id
        BY <1>2, <1>5, <1>7, <3>1, <3>3 DEF Queued, KeyInv, BucketsKeyed
      <3> QED
        BY <3>2, <3>3
    <2>2. ASSUME Queued(x), x # evt PROVE Queued(x)'
      BY <1>1, <1>2, <1>5, <2>2 DEF Queued
    <2> QED
      BY <2>1, <2>2
  <1> QED
    BY <1>2, <1>4, <1>6, <1>8, <1>9 DEF id, evt

LEMMA OncePopStackWalk ==
    ASSUME OnceInv, NEW e \in Event, PopStackWalk(e)
    PROVE  OneCopy'
  <1> DEFINE evt == Head(buckets[StackID(e)])
  <1> USE NoneAssumption DEF OnceInv, OneCopy, Thread
  <1>1. /\ pc["trace"] = "idle" /\ e \in toCome /\ toCome' = toCome \ {e} /\ mux = None
        /\ buckets[StackID(e)] # <<>>
        /\ procs' = ProcsAfterPop(evt)
        /\ pc' = [pc EXCEPT !["trace"] = "push"] /\ cur' = [cur EXCEPT !["trace"] = evt]
        /\ buckets' = [buckets EXCEPT ![StackID(e)] = Tail(@)]
        /\ UNCHANGED <<aged, popped, rest, keep, fid, handled, lost>>
    BY DEF PopStackWalk, Receive, CallPush, flushVars
  <1>2. /\ evt \in Event /\ Queued(evt) /\ handled[evt] = 0
        /\ \A x : Queued(x)' <=> Queued(x) /\ x # evt
        /\ BucketsDistinct'
    BY <1>1, PoppedHead
  <1>3. evt.tpid \in Word
    BY <1>2, EventAssumption DEF EventRecord
  <1> HIDE DEF evt
  <1>4. pc["flusher"] = "idle" /\ popped = None /\ ~Scanning
    BY <1>1, Unlocked
  <1>5. /\ pc'["trace"] = "push" /\ cur'["trace"] = evt
        /\ pc'["flusher"] = "idle" /\ cur'["flusher"] = cur["flusher"] /\ ~Scanning'
    BY <1>1, <1>4, OnceTypes DEF Scanning
  <1>6. FlushDistinct' /\ Evicting' /\ Pushing' /\ TwiceAtMost' /\ PoppedUnseen'
    BY <1>1, <1>2, <1>4, <1>5
       DEF FlushDistinct, Evicting, Pushing, TwiceAtMost, PoppedUnseen
  <1>7. \A p \in Word : \A x \in Event : procs'[p] = x => procs[p] = x /\ x # evt
    <2>1. \A p \in Word : procs[p] = evt => p = evt.tpid /\ IsSurrogateProcess(evt)
      BY <1>2 DEF Cached, KeyInv, ProcsSurrogate
    <2> QED
      BY <1>1, <1>2, <1>3, <2>1, OnceTypes DEF ProcsAfterPop
  <1>8. evt \notin toCome
    BY <1>2 DEF Untouched
  <1>9. Untouched'
    <2> SUFFICES ASSUME NEW x \in toCome'
                 PROVE  /\ ~Queued(x)' /\ handled'[x] = 0 /\ popped' # x
                        /\ \A p \in Word : procs'[p] # x
                        /\ \A t \in Thread : pc'[t] = "push" => cur'[t] # x
      BY DEF Untouched
    <2>1. x \in toCome /\ x \in Event /\ x # evt
      BY <1>1, <1>8, OnceTypes
    <2>2. ~Queued(x) /\ handled[x] = 0 /\ popped # x /\ \A p \in Word : procs[p] # x
      BY <2>1 DEF Untouched
    <2> QED
      BY <1>1, <1>2, <1>4, <1>5, <1>7, <2>1, <2>2
  <1>10. QueuedUnseen'
    BY <1>1, <1>2, <1>4, <1>5 DEF QueuedUnseen, Brokered
  <1>11. Cached'
    BY <1>1, <1>4, <1>5, <1>7 DEF Cached, Brokered
  <1>12. LostSettled'
    BY <1>1, <1>2, <1>4, <1>5 DEF LostSettled
  <1>13. NoCarrier'
    BY <1>1, <1>2, <1>4, <1>5 DEF NoCarrier
  <1> QED
    BY <1>2, <1>6, <1>9, <1>10, <1>11, <1>12, <1>13

LEMMA OncePopSurrogate ==
    ASSUME OnceInv, NEW e \in Event, PopSurrogate(e)
    PROVE  OneCopy'
  <1> DEFINE evt == Head(buckets[StackID(e)])
             sur == procs[evt.tpid]
  <1> USE NoneAssumption DEF OnceInv, OneCopy, Thread
  <1>1. /\ pc["trace"] = "idle" /\ e \in toCome /\ toCome' = toCome \ {e} /\ mux = None
        /\ buckets[StackID(e)] # <<>>
        /\ evt.kind = "CreateThread" /\ sur # None
        /\ popped' = evt
        /\ pc' = [pc EXCEPT !["trace"] = "push"] /\ cur' = [cur EXCEPT !["trace"] = sur]
        /\ buckets' = [buckets EXCEPT ![StackID(e)] = Tail(@)]
        /\ UNCHANGED <<aged, procs, rest, keep, fid, handled, lost>>
    BY DEF PopSurrogate, Receive, CallPush, flushVars, HasSurrogate, IsCreateRemoteThread
  <1>2. /\ evt \in Event /\ Queued(evt) /\ handled[evt] = 0
        /\ \A x : Queued(x)' <=> Queued(x) /\ x # evt
        /\ BucketsDistinct'
    BY <1>1, PoppedHead
  <1>3. evt.tpid \in Word
    BY <1>2, EventAssumption DEF EventRecord
  <1>4. /\ sur \in Event /\ IsSurrogateProcess(sur) /\ sur.kind = "CreateProcess"
        /\ sur # evt /\ procs[evt.tpid] = sur
    BY <1>1, <1>3, OnceTypes DEF KeyInv, ProcsSurrogate, IsSurrogateProcess
  <1> HIDE DEF evt, sur
  <1>5. pc["flusher"] = "idle" /\ popped = None /\ ~Scanning
    BY <1>1, Unlocked
  <1>6. /\ pc'["trace"] = "push" /\ cur'["trace"] = sur
        /\ pc'["flusher"] = "idle" /\ cur'["flusher"] = cur["flusher"] /\ ~Scanning'
    BY <1>1, <1>5, OnceTypes DEF Scanning
  <1>7. handled[sur] = 0 \/ (sur \in aged /\ handled[sur] = 1)
    BY <1>3, <1>4, <1>5 DEF Cached, Brokered
  <1>8. FlushDistinct' /\ Evicting' /\ Pushing' /\ TwiceAtMost'
    BY <1>1, <1>4, <1>6, <1>7 DEF FlushDistinct, Evicting, Pushing, TwiceAtMost
  <1>9. PoppedUnseen'
    BY <1>1, <1>2, <1>4, <1>6 DEF PoppedUnseen
  <1>10. evt \notin toCome /\ sur \notin toCome
    BY <1>2, <1>3, <1>4 DEF Untouched
  <1>11. Untouched'
    BY <1>1, <1>2, <1>5, <1>6, <1>10, OnceTypes DEF Untouched
  <1>12. QueuedUnseen'
    BY <1>1, <1>2, <1>5, <1>6 DEF QueuedUnseen, Brokered
  <1>13. Cached'
    BY <1>1, <1>2, <1>5, <1>6 DEF Cached, Brokered
  <1>14. LostSettled'
    BY <1>1, <1>2, <1>4, <1>5, <1>6 DEF LostSettled
  <1>15. NoCarrier'
    BY <1>1, <1>2, <1>4, <1>5, <1>6 DEF NoCarrier
  <1> QED
    BY <1>2, <1>8, <1>9, <1>11, <1>12, <1>13, <1>14, <1>15

LEMMA OncePushDirect ==
    ASSUME OnceInv, NEW e \in Event, PushDirect(e)
    PROVE  OneCopy'
  <1> USE NoneAssumption DEF OnceInv, OneCopy, Thread
  <1>1. /\ pc["trace"] = "idle" /\ e \in toCome /\ toCome' = toCome \ {e}
        /\ e.kind # "StackWalk"
        /\ pc' = [pc EXCEPT !["trace"] = "push"] /\ cur' = [cur EXCEPT !["trace"] = e]
        /\ UNCHANGED <<aged, buckets, procs, popped, rest, keep, fid, handled, lost>>
    BY DEF PushDirect, Receive, CallPush, flushVars, decorVars
  <1>2. popped = None
    BY <1>1 DEF KeyInv, TypeInv, Control
  <1>3. ~Queued(e) /\ handled[e] = 0 /\ (\A p \in Word : procs[p] # e)
        /\ (pc["flusher"] = "push" => cur["flusher"] # e)
    BY <1>1 DEF Untouched
  <1>4. /\ pc'["trace"] = "push" /\ cur'["trace"] = e
        /\ pc'["flusher"] = pc["flusher"] /\ cur'["flusher"] = cur["flusher"]
        /\ Scanning' = Scanning
    BY <1>1, OnceTypes DEF Scanning
  <1>5. \A x : (Queued(x)' <=> Queued(x)) /\ (Unread(x)' <=> Unread(x))
    BY <1>1 DEF Queued, Unread
  <1>6. BucketsDistinct' /\ FlushDistinct' /\ Pushing' /\ TwiceAtMost' /\ PoppedUnseen'
    BY <1>1, <1>2, <1>3, <1>4, <1>5
       DEF BucketsDistinct, FlushDistinct, Pushing, TwiceAtMost, PoppedUnseen
  <1>7. Evicting'
    BY <1>1, <1>4, <1>5 DEF Evicting
  <1>8. Untouched'
    BY <1>1, <1>4, <1>5, OnceTypes DEF Untouched
  <1>9. QueuedUnseen'
    BY <1>1, <1>2, <1>3, <1>4, <1>5 DEF QueuedUnseen, Brokered
  <1>10. Cached'
    BY <1>1, <1>2, <1>3, <1>4 DEF Cached, Brokered
  <1>11. LostSettled'
    BY <1>1, <1>4, <1>5 DEF LostSettled
  <1>12. NoCarrier'
    BY <1>1, <1>4, <1>5 DEF NoCarrier
  <1> QED
    BY <1>6, <1>7, <1>8, <1>9, <1>10, <1>11, <1>12

LEMMA OnceFinishPop ==
    ASSUME OnceInv, KeyInv', FinishPop
    PROVE  OneCopy'
  <1> DEFINE id == StackID(cur["trace"])
             sur == cur["trace"]
  <1> USE NoneAssumption DEF OnceInv, OneCopy, Thread
  <1>1. /\ pc["trace"] = "resume"
        /\ lost' = lost \cup {e \in Event : /\ InSeq(e, buckets[id])
                                            /\ ~Stays(e, popped.tpid) /\ handled[e] = 0}
        /\ procs' = [procs EXCEPT ![popped.tpid] = None]
        /\ pc' = [pc EXCEPT !["trace"] = "push"] /\ cur' = [cur EXCEPT !["trace"] = popped]
        /\ popped' = None
        /\ UNCHANGED <<toCome, aged, rest, keep, fid, handled>>
    BY DEF FinishPop, CallPush, flushVars
  <1>2. /\ popped \in Event /\ sur \in Event /\ pc["flusher"] = "idle"
        /\ IsSurrogateProcess(sur)
    BY <1>1, OnceTypes DEF KeyInv, TypeInv, Control, HandSurrogate
  <1>3. /\ popped.kind = "CreateThread" /\ procs[popped.tpid] = sur
        /\ handled[popped] = 0 /\ popped # sur /\ ~IsSurrogateProcess(popped)
    BY <1>2 DEF PoppedUnseen, IsSurrogateProcess
  <1>4. id \in Word /\ popped.tpid \in Word
    BY <1>2, StackIDType, EventAssumption DEF EventRecord
  <1>5. \A j \in Word : \A x : InSeq(x, buckets'[j]) <=>
           InSeq(x, buckets[j]) /\ (j = id => Stays(x, popped.tpid))
    BY FinishPopBuckets DEF KeyInv
  <1>6. \A x : Queued(x)' => Queued(x)
    BY <1>5 DEF Queued
  <1>7. \A x : x = sur => ~Queued(x)'
    <2>1. ~Stays(sur, popped.tpid)
      BY <1>2 DEF Stays, IsSurrogateProcess
    <2>2. \A j \in Word : InSeq(sur, buckets[j]) => j = id
      BY <1>2 DEF KeyInv, BucketsKeyed
    <2> QED
      BY <1>5, <2>1, <2>2 DEF Queued
  <1>8. ~Queued(popped) /\ popped \notin toCome
    BY <1>2 DEF QueuedUnseen, Untouched
  <1>9. BucketsDistinct'
    <2> DEFINE stay == StayAt(buckets[id], popped.tpid)
    <2>1. PICK f \in [1 .. Cardinality(stay) -> stay] :
             /\ Enumerates(f, stay)
             /\ buckets' = [buckets EXCEPT ![id] = [i \in DOMAIN f |-> buckets[id][f[i]]]]
      BY DEF FinishPop
    <2>2. buckets[id] \in Seq(Event) /\ buckets'[id] \in Seq(Event) /\ Distinct(buckets[id])
      BY <1>4, OnceTypes DEF BucketsDistinct, KeyInv, TypeInv, TypeOK
    <2>3. /\ \A i \in DOMAIN f : f[i] \in stay
          /\ DOMAIN buckets'[id] = DOMAIN f
          /\ \A i \in DOMAIN f : buckets'[id][i] = buckets[id][f[i]]
          /\ \A j \in Word : j # id => buckets'[j] = buckets[j]
      BY <1>4, <2>1, OnceTypes
    <2>4. Distinct(buckets'[id])
      <3> DEFINE qu == buckets[id]
                 new == buckets'[id]
      <3> HIDE DEF qu, new, stay
      <3>1. qu \in Seq(Event) /\ new \in Seq(Event) /\ Distinct(qu)
        BY <2>2 DEF qu, new
      <3>2. stay = StayAt(qu, popped.tpid)
        BY DEF stay, qu
      <3>3. /\ \A i \in DOMAIN f : f[i] \in stay
            /\ DOMAIN new = DOMAIN f
            /\ \A i \in DOMAIN f : new[i] = qu[f[i]]
        BY <2>3 DEF qu, new
      <3>4. Distinct(new)
        BY <2>1, <3>1, <3>2, <3>3, DistinctCleaned
      <3> QED
        BY <3>4 DEF new
    <2> QED
      BY <2>3, <2>4 DEF BucketsDistinct
  <1> HIDE DEF id, sur
  <1>10. /\ pc'["trace"] = "push" /\ cur'["trace"] = popped
         /\ pc'["flusher"] = "idle" /\ ~Scanning /\ ~Scanning'
    BY <1>1, <1>2, OnceTypes DEF Scanning
  <1>11. FlushDistinct' /\ Evicting' /\ Pushing' /\ TwiceAtMost' /\ PoppedUnseen'
    BY <1>1, <1>3, <1>10
       DEF FlushDistinct, Evicting, Pushing, TwiceAtMost, PoppedUnseen
  <1>12. \A p \in Word : \A x \in Event :
            procs'[p] = x => procs[p] = x /\ x # sur /\ x # popped
    <2>1. \A p \in Word : procs[p] = sur => p = popped.tpid
      BY <1>2, <1>3, <1>4 DEF Cached
    <2>2. \A p \in Word : procs[p] # popped
      BY <1>2, <1>3 DEF KeyInv, ProcsSurrogate
    <2> QED
      BY <1>1, <1>4, <2>1, <2>2, OnceTypes
  <1>13. Untouched'
    <2> SUFFICES ASSUME NEW x \in toCome'
                 PROVE  /\ ~Queued(x)' /\ handled'[x] = 0 /\ popped' # x
                        /\ \A p \in Word : procs'[p] # x
                        /\ \A t \in Thread : pc'[t] = "push" => cur'[t] # x
      BY DEF Untouched
    <2>1. x \in toCome /\ x \in Event /\ x # popped
      BY <1>1, <1>8, OnceTypes
    <2>2. ~Queued(x) /\ handled[x] = 0 /\ \A p \in Word : procs[p] # x
      BY <2>1 DEF Untouched
    <2> QED
      BY <1>1, <1>6, <1>10, <1>12, <2>1, <2>2
  <1>14. QueuedUnseen'
    <2> SUFFICES ASSUME NEW x \in Event, Queued(x)'
                 PROVE  popped' # x /\ cur'["trace"] # x /\ handled'[x] = 0
      BY DEF QueuedUnseen
    <2>1. Queued(x) /\ x # sur /\ x # popped
      BY <1>6, <1>7, <1>8
    <2>2. handled[x] = 0
      BY <1>10, <2>1 DEF QueuedUnseen, Brokered, sur
    <2> QED
      BY <1>1, <1>10, <2>1, <2>2
  <1>15. Cached'
    BY <1>1, <1>10, <1>12 DEF Cached, Brokered, sur
  <1>16. LostSettled'
    <2> SUFFICES ASSUME NEW x \in lost', ~IsSurrogateProcess(x)
                 PROVE  x \notin toCome' /\ ~Queued(x)' /\ x # popped
      <3>1. \A u \in Thread : pc'[u] = "push" => cur'[u] = popped
        BY <1>10
      <3>2. lost' \subseteq Event
        BY DEF KeyInv, TypeInv, TypeOK
      <3> QED
        BY <1>1, <1>2, <3>1, <3>2 DEF LostSettled
    <2>1. CASE x \in lost
      BY <1>1, <1>6, <2>1 DEF LostSettled
    <2>2. CASE x \notin lost
      <3>1. x \in Event /\ InSeq(x, buckets[id]) /\ ~Stays(x, popped.tpid)
        BY <1>1, <2>2
      <3>2. Queued(x) /\ StackID(x) = id
        BY <1>4, <3>1 DEF Queued, KeyInv, BucketsKeyed
      <3>3. ~Queued(x)'
        BY <1>5, <3>1, <3>2 DEF Queued, KeyInv, BucketsKeyed
      <3>4. x \notin toCome /\ x # popped
        BY <3>1, <3>2 DEF Untouched, QueuedUnseen
      <3> QED
        BY <1>1, <3>3, <3>4
    <2> QED
      BY <2>1, <2>2
  <1>17. NoCarrier'
    BY <1>1, <1>3, <1>6, <1>10 DEF NoCarrier
  <1> QED
    BY <1>9, <1>11, <1>13, <1>14, <1>15, <1>16, <1>17

LEMMA OnceListen ==
    ASSUME OnceInv, NEW t \in Thread, Listen(t)
    PROVE  OneCopy'
  <1> USE NoneAssumption DEF OnceInv, OneCopy, Thread
  <1>1. /\ pc[t] = "push"
        /\ handled' = [handled EXCEPT ![cur[t]] = @ + 1]
        /\ pc'[t] \in {"remove", "send", "scan", "resume", "idle"}
        /\ t = "flusher" => pc'[t] \in {"remove", "send", "scan"}
        /\ \A u \in Thread : u # t => pc'[u] = pc[u]
        /\ UNCHANGED <<toCome, aged, buckets, procs, cur, popped, rest, keep, fid, lost>>
    BY OnceTypes DEF Listen, ReturnPC, decorVars, flushVars
  <1>2. cur[t] \in Event
    BY <1>1 DEF KeyInv, TypeInv, Control
  <1>3. /\ handled'[cur[t]] = handled[cur[t]] + 1
        /\ \A x \in Event : x # cur[t] => handled'[x] = handled[x]
    BY <1>1, <1>2, OnceTypes
  <1>4. (Scanning' <=> Scanning) /\ \A x : (Queued(x)' <=> Queued(x)) /\ (Unread(x)' <=> Unread(x))
                                           /\ (Brokered(x)' <=> Brokered(x))
    BY <1>1 DEF Scanning, Queued, Unread, Brokered
  <1>5. pc["flusher"] # "idle" => popped = None
    BY DEF KeyInv, TypeInv, Control
  <1>6. pc["flusher"] = "push" => cur["flusher"] \in Event /\ Queued(cur["flusher"])
    BY OnceTypes DEF KeyInv, TypeInv, Control, Evicting, Queued
  <1>7. pc["flusher"] = "push" /\ pc["trace"] = "push" => cur["flusher"] # cur["trace"]
    BY <1>5, <1>6 DEF QueuedUnseen
  <1>8. \A u \in Thread : pc'[u] = "push" => pc[u] = "push" /\ u # t /\ cur[u] # cur[t]
    BY <1>1, <1>7
  <1>9. BucketsDistinct' /\ FlushDistinct'
    BY <1>1, <1>4 DEF BucketsDistinct, FlushDistinct
  <1>10. cur[t] \notin toCome
    BY <1>1 DEF Untouched
  <1>11. Untouched'
    BY <1>1, <1>3, <1>4, <1>8, <1>10, OnceTypes DEF Untouched
  <1>12. Queued(cur[t]) =>
            Brokered(cur[t]) \/ (Scanning /\ InSeq(cur[t], buckets[fid]) /\ ~Unread(cur[t]))
    BY <1>1, <1>2 DEF QueuedUnseen, Brokered, Evicting, Scanning
  <1>13. QueuedUnseen'
    BY <1>1, <1>3, <1>4, <1>8, <1>12 DEF QueuedUnseen
  <1>14. Evicting'
    <2> SUFFICES ASSUME pc'["flusher"] = "push" PROVE Evicting'
      BY DEF Evicting
    <2>1. pc["flusher"] = "push" /\ cur["flusher"] # cur[t]
      BY <1>8
    <2> QED
      BY <1>1, <1>3, <1>4, <1>6, <2>1 DEF Evicting
  <1>15. Pushing'
    <2> SUFFICES ASSUME pc'["trace"] = "push" PROVE Pushing'
      BY DEF Pushing
    <2>1. pc["trace"] = "push" /\ cur["trace"] # cur[t] /\ cur["trace"] \in Event
      BY <1>8 DEF KeyInv, TypeInv, Control
    <2> QED
      BY <1>1, <1>3, <2>1 DEF Pushing
  <1>16. \/ handled[cur[t]] = 0
         \/ IsSurrogateProcess(cur[t]) /\ cur[t] \in aged /\ handled[cur[t]] = 1
    BY <1>1 DEF Pushing, Evicting
  <1>17. TwiceAtMost'
    BY <1>1, <1>2, <1>3, <1>16, OnceTypes DEF TwiceAtMost
  <1>18. Cached'
    <2> SUFFICES ASSUME NEW p \in Word, NEW x \in Event, procs[p] = x
                 PROVE  /\ x.tpid = p
                        /\ pc'["trace"] = "push" /\ cur["trace"] = x => popped # None
                        /\ Brokered(x) \/ handled'[x] = 0 \/ (x \in aged /\ handled'[x] = 1)
      BY <1>1, <1>4 DEF Cached
    <2>1. /\ x.tpid = p
          /\ pc["trace"] = "push" /\ cur["trace"] = x => popped # None
          /\ Brokered(x) \/ handled[x] = 0 \/ (x \in aged /\ handled[x] = 1)
      BY DEF Cached
    <2>2. CASE x # cur[t]
      BY <1>3, <1>8, <2>1, <2>2
    <2>3. CASE x = cur[t] /\ t = "trace"
      BY <1>1, <2>1, <2>3 DEF Brokered
    <2>4. CASE x = cur[t] /\ t = "flusher"
      BY <1>1, <1>3, <1>8, <2>1, <2>4, OnceTypes DEF Evicting
    <2> QED
      BY <2>2, <2>3, <2>4
  <1>19. PoppedUnseen'
    <2> SUFFICES ASSUME popped # None PROVE PoppedUnseen'
      BY <1>1 DEF PoppedUnseen
    <2>1. t = "trace" /\ popped \in Event
      BY <1>1, <1>5, OnceTypes
    <2>2. popped # cur[t]
      BY <2>1 DEF PoppedUnseen, KeyInv, HandSurrogate, IsSurrogateProcess
    <2> QED
      BY <1>1, <1>3, <2>1, <2>2 DEF PoppedUnseen
  <1>20. LostSettled' /\ NoCarrier'
    BY <1>1, <1>4, <1>8 DEF LostSettled, NoCarrier
  <1> QED
    BY <1>9, <1>11, <1>13, <1>14, <1>15, <1>17, <1>18, <1>19, <1>20

LEMMA OnceRemoveBucket ==
    ASSUME OnceInv, NEW t \in Thread, RemoveBucket(t)
    PROVE  OneCopy'
  <1> DEFINE id == RemovedID(cur[t])
  <1> USE NoneAssumption DEF OnceInv, OneCopy, Thread
  <1>1. /\ pc[t] = "remove" /\ mux = None
        /\ buckets' = [buckets EXCEPT ![id] = <<>>]
        /\ lost' = lost \cup {e \in Event : InSeq(e, buckets[id])}
        /\ pc'[t] # "push" /\ \A u \in Thread : u # t => pc'[u] = pc[u]
        /\ UNCHANGED <<toCome, aged, procs, cur, popped, rest, keep, fid, handled>>
    BY OnceTypes DEF RemoveBucket, ReturnPC, flushVars
  <1>2. /\ t = "trace" /\ pc["flusher"] = "idle" /\ pc'["flusher"] = "idle"
        /\ popped = None /\ ~Scanning /\ ~Scanning'
    BY <1>1, Unlocked DEF Scanning
  <1>3. cur[t] \in Event
    BY <1>1 DEF KeyInv, TypeInv, Control
  <1>4. id \in Word
    BY <1>3, StackIDType
  <1> HIDE DEF id
  <1>5. buckets'[id] = <<>> /\ \A j \in Word : j # id => buckets'[j] = buckets[j]
    BY <1>1, <1>4, OnceTypes
  <1>6. \A x : Queued(x)' => Queued(x) /\ ~InSeq(x, buckets[id])
    <2> SUFFICES ASSUME NEW x, NEW j \in Word, InSeq(x, buckets'[j])
                 PROVE  Queued(x) /\ ~InSeq(x, buckets[id])
      BY DEF Queued
    <2>1. j # id /\ InSeq(x, buckets[j])
      BY <1>5, InEmpty
    <2>2. x \in Event
      BY <2>1, OnceTypes DEF InSeq
    <2> QED
      BY <1>4, <2>1, <2>2 DEF Queued, KeyInv, BucketsKeyed
  <1>7. BucketsDistinct'
    BY <1>5, DistinctEmpty DEF BucketsDistinct
  <1>8. \A u \in Thread : pc'[u] # "push"
    BY <1>1, <1>2
  <1>9. FlushDistinct' /\ Evicting' /\ Pushing' /\ TwiceAtMost' /\ PoppedUnseen' /\ NoCarrier'
    BY <1>1, <1>2, <1>6, <1>8
       DEF FlushDistinct, Evicting, Pushing, TwiceAtMost, PoppedUnseen, NoCarrier
  <1>10. Untouched'
    BY <1>1, <1>6, <1>8, OnceTypes DEF Untouched
  <1>11. QueuedUnseen'
    BY <1>1, <1>2, <1>6, <1>8 DEF QueuedUnseen, Brokered
  <1>12. Cached'
    BY <1>1, <1>2, <1>8 DEF Cached, Brokered
  <1>13. LostSettled'
    <2> SUFFICES ASSUME NEW x \in lost', ~IsSurrogateProcess(x)
                 PROVE  x \notin toCome' /\ ~Queued(x)' /\ popped' # x
      BY <1>8 DEF LostSettled
    <2>1. CASE x \in lost
      BY <1>1, <1>6, <2>1 DEF LostSettled
    <2>2. CASE x \notin lost
      <3>1. x \in Event /\ InSeq(x, buckets[id])
        BY <1>1, <2>2
      <3>2. Queued(x)
        BY <1>4, <3>1 DEF Queued
      <3> QED
        BY <1>1, <1>2, <1>6, <3>1, <3>2 DEF Untouched
    <2> QED
      BY <2>1, <2>2
  <1> QED
    BY <1>7, <1>9, <1>10, <1>11, <1>12, <1>13

LEMMA OnceFlushBucket ==
    ASSUME OnceInv, NEW id \in Word, FlushBucket(id)
    PROVE  OneCopy'
  <1> USE NoneAssumption DEF OnceInv, OneCopy, Thread
  <1>1. /\ pc["flusher"] = "range" /\ fid' = id /\ rest' = buckets[id] /\ keep' = <<>>
        /\ pc'["flusher"] = "scan" /\ pc'["trace"] = pc["trace"]
        /\ UNCHANGED <<toCome, aged, buckets, procs, cur, popped, handled, lost>>
    BY OnceTypes DEF FlushBucket, decorVars
  <1>2. popped = None /\ ~Scanning
    BY <1>1 DEF KeyInv, TypeInv, Control, Scanning
  <1>3. \A u \in Thread : pc'[u] = "push" <=> pc[u] = "push"
    BY <1>1
  <1>4. \A x : Queued(x)' <=> Queued(x)
    BY <1>1 DEF Queued
  <1>5. BucketsDistinct' /\ FlushDistinct'
    BY <1>1, InEmpty, DistinctEmpty DEF BucketsDistinct, FlushDistinct, Unread
  <1>6. Evicting' /\ Pushing' /\ TwiceAtMost' /\ PoppedUnseen'
    BY <1>1 DEF Evicting, Pushing, TwiceAtMost, PoppedUnseen
  <1>7. Untouched'
    BY <1>1, <1>3, <1>4, OnceTypes DEF Untouched
  <1>8. QueuedUnseen'
    BY <1>1, <1>2, <1>4 DEF QueuedUnseen, Brokered
  <1>9. Cached'
    BY <1>1, <1>2 DEF Cached, Brokered
  <1>10. LostSettled' /\ NoCarrier'
    BY <1>1, <1>3, <1>4 DEF LostSettled, NoCarrier
  <1> QED
    BY <1>5, <1>6, <1>7, <1>8, <1>9, <1>10

LEMMA OnceFlushKeep ==
    ASSUME OnceInv, FlushKeep
    PROVE  OneCopy'
  <1> USE NoneAssumption DEF OnceInv, OneCopy, Thread
  <1>1. /\ pc["flusher"] = "scan" /\ rest # <<>>
        /\ keep' = Append(keep, Head(rest)) /\ rest' = Tail(rest)
        /\ UNCHANGED <<toCome, aged, buckets, procs, pc, cur, popped, fid, handled, lost>>
    BY DEF FlushKeep, decorVars
  <1>2. Scanning /\ Scanning'
    BY <1>1 DEF Scanning
  <1>3. \A x : InSeq(x, rest) <=> x = Head(rest) \/ InSeq(x, rest')
    BY <1>1, InTail, OnceTypes
  <1>4. \A x : InSeq(x, keep') <=> x = Head(rest) \/ InSeq(x, keep)
    BY <1>1, HeadTail, InAppend, OnceTypes
  <1>5. \A x : (Unread(x)' <=> Unread(x)) /\ (Queued(x)' <=> Queued(x))
               /\ (Brokered(x)' <=> Brokered(x))
    BY <1>1, <1>3, <1>4 DEF Unread, Queued, Brokered
  <1>6. BucketsDistinct' /\ FlushDistinct'
    <2>1. Distinct(rest') /\ ~InSeq(Head(rest), rest')
      BY <1>1, <1>2, DistinctTail, OnceTypes DEF FlushDistinct
    <2>2. Head(rest) \in Event /\ InSeq(Head(rest), rest)
      BY <1>1, <1>3, HeadTail, OnceTypes
    <2>3. Distinct(keep) /\ ~InSeq(Head(rest), keep)
      BY <1>2, <2>2 DEF FlushDistinct
    <2>4. Distinct(keep')
      BY <1>1, <2>2, <2>3, DistinctAppend, OnceTypes
    <2>5. \A x \in Event : InSeq(x, rest') => ~InSeq(x, keep')
      BY <1>2, <1>3, <1>4, <2>1 DEF FlushDistinct
    <2> QED
      BY <1>1, <1>2, <1>5, <2>1, <2>4, <2>5 DEF BucketsDistinct, FlushDistinct
  <1>7. Evicting' /\ Pushing' /\ TwiceAtMost' /\ PoppedUnseen'
    BY <1>1 DEF Evicting, Pushing, TwiceAtMost, PoppedUnseen
  <1>8. Untouched'
    BY <1>1, <1>5 DEF Untouched
  <1>9. QueuedUnseen'
    BY <1>1, <1>2, <1>5 DEF QueuedUnseen
  <1>10. Cached'
    BY <1>1, <1>5 DEF Cached
  <1>11. LostSettled' /\ NoCarrier'
    BY <1>1, <1>5 DEF LostSettled, NoCarrier
  <1> QED
    BY <1>6, <1>7, <1>8, <1>9, <1>10, <1>11

LEMMA OnceFlushEvict ==
    ASSUME OnceInv, FlushEvict
    PROVE  OneCopy'
  <1> DEFINE e == Head(rest)
  <1> USE NoneAssumption DEF OnceInv, OneCopy, Thread
  <1>1. /\ pc["flusher"] = "scan" /\ rest # <<>> /\ e \in aged /\ rest' = Tail(rest)
        /\ pc'["flusher"] = "push" /\ cur'["flusher"] = e
        /\ pc'["trace"] = pc["trace"] /\ cur'["trace"] = cur["trace"]
        /\ UNCHANGED <<toCome, aged, buckets, procs, popped, fid, keep, handled, lost>>
    BY OnceTypes DEF FlushEvict, CallPush, Expired, decorVars
  <1>2. popped = None /\ Scanning /\ Scanning'
    BY <1>1 DEF KeyInv, TypeInv, Control, Scanning
  <1>3. e \in Event /\ \A x : InSeq(x, rest) <=> x = e \/ InSeq(x, rest')
    BY <1>1, InTail, HeadTail, OnceTypes
  <1>4. Distinct(rest') /\ ~InSeq(e, rest')
    BY <1>1, <1>2, DistinctTail, OnceTypes DEF FlushDistinct
  <1> HIDE DEF e
  <1>5. Unread(e) /\ ~InSeq(e, keep) /\ InSeq(e, buckets[fid])
    BY <1>2, <1>3 DEF FlushDistinct, Unread
  <1>6. \A x : (Unread(x)' <=> Unread(x) /\ x # e) /\ (Queued(x)' <=> Queued(x))
    BY <1>1, <1>3, <1>4, <1>5 DEF Unread, Queued
  <1>7. Queued(e)
    BY <1>5, OnceTypes DEF Queued
  <1>8. handled[e] = 0 /\ e.kind # "StackWalk" /\ e \notin toCome
    BY <1>2, <1>3, <1>5, <1>7 DEF QueuedUnseen, Brokered, NoCarrier, Untouched
  <1>9. \A u \in Thread : pc'[u] = "push" =>
           (u = "flusher" /\ cur'[u] = e) \/ (u = "trace" /\ pc[u] = "push" /\ cur'[u] = cur[u])
    BY <1>1
  <1>10. BucketsDistinct' /\ FlushDistinct'
    BY <1>1, <1>2, <1>3, <1>4, <1>6 DEF BucketsDistinct, FlushDistinct
  <1>11. Evicting'
    BY <1>1, <1>4, <1>5, <1>8 DEF Evicting, Unread
  <1>12. Pushing' /\ TwiceAtMost' /\ PoppedUnseen'
    BY <1>1 DEF Pushing, TwiceAtMost, PoppedUnseen
  <1>13. Untouched'
    BY <1>1, <1>6, <1>8, <1>9 DEF Untouched
  <1>14. QueuedUnseen'
    BY <1>1, <1>2, <1>5, <1>6 DEF QueuedUnseen, Brokered
  <1>15. Cached'
    BY <1>1, <1>2 DEF Cached, Brokered
  <1>16. LostSettled'
    <2>1. e \in lost => IsSurrogateProcess(e)
      BY <1>7 DEF LostSettled
    <2> QED
      BY <1>1, <1>6, <1>9, <2>1 DEF LostSettled
  <1>17. NoCarrier'
    BY <1>6, <1>8, <1>9 DEF NoCarrier
  <1> QED
    BY <1>10, <1>11, <1>12, <1>13, <1>14, <1>15, <1>16, <1>17

LEMMA OnceFlushBucketDone ==
    ASSUME OnceInv, FlushBucketDone
    PROVE  OneCopy'
  <1> USE NoneAssumption DEF OnceInv, OneCopy, Thread
  <1>1. /\ pc["flusher"] = "scan" /\ pc'["flusher"] = "range" /\ pc'["trace"] = pc["trace"]
        /\ buckets' = [buckets EXCEPT ![fid] = keep]
        /\ UNCHANGED <<toCome, aged, procs, cur, popped, rest, keep, fid, handled, lost>>
    BY OnceTypes DEF FlushBucketDone, FlushedBucket, flushVars
  <1>2. popped = None /\ Scanning /\ ~Scanning'
    BY <1>1 DEF KeyInv, TypeInv, Control, Scanning
  <1>3. buckets'[fid] = keep /\ \A j \in Word : j # fid => buckets'[j] = buckets[j]
    BY <1>1, OnceTypes
  <1>4. ASSUME NEW x, Queued(x)'
        PROVE  Queued(x) /\ x \in Event /\ (InSeq(x, buckets[fid]) => InSeq(x, keep))
    <2>1. PICK j \in Word : InSeq(x, buckets'[j])
      BY <1>4 DEF Queued
    <2>2. CASE j = fid
      <3>1. InSeq(x, keep) /\ x \in Event
        BY <1>3, <2>1, <2>2, OnceTypes DEF InSeq
      <3>2. InSeq(x, buckets[fid])
        BY <1>2, <3>1 DEF FlushDistinct, Unread
      <3> QED
        BY <3>1, <3>2, OnceTypes DEF Queued
    <2>3. CASE j # fid
      <3>1. InSeq(x, buckets[j]) /\ x \in Event
        BY <1>3, <2>1, <2>3, OnceTypes DEF InSeq
      <3> QED
        BY <2>3, <3>1, OnceTypes DEF Queued, KeyInv, BucketsKeyed
    <2> QED
      BY <2>2, <2>3
  <1>5. \A u \in Thread : pc'[u] = "push" <=> u = "trace" /\ pc[u] = "push"
    BY <1>1
  <1>6. BucketsDistinct' /\ FlushDistinct'
    BY <1>2, <1>3 DEF BucketsDistinct, FlushDistinct
  <1>7. Evicting' /\ Pushing' /\ TwiceAtMost' /\ PoppedUnseen'
    BY <1>1 DEF Evicting, Pushing, TwiceAtMost, PoppedUnseen
  <1>8. Untouched'
    BY <1>1, <1>4, <1>5 DEF Untouched
  <1>9. QueuedUnseen'
    BY <1>1, <1>2, <1>4 DEF QueuedUnseen, Brokered, Unread
  <1>10. Cached'
    BY <1>1, <1>2 DEF Cached, Brokered
  <1>11. LostSettled' /\ NoCarrier'
    BY <1>1, <1>4, <1>5 DEF LostSettled, NoCarrier
  <1> QED
    BY <1>6, <1>7, <1>8, <1>9, <1>10, <1>11

LEMMA OnceQuiet ==
    ASSUME OnceInv,
           \/ \E e \in Event : Age(e) \/ DropStackWalk(e)
           \/ \E t \in Thread : Send(t)
           \/ PopPanics \/ Dequeue \/ FlushStart \/ FlushEnd \/ UNCHANGED vars
    PROVE  OneCopy'
  <1> USE DEF Thread
  <1>t. pc \in [Thread -> {"idle", "push", "remove", "send", "resume", "panicked",
                           "range", "scan"}]
    BY OnceTypes DEF OnceInv
  <1>1. /\ toCome' \subseteq toCome /\ aged \subseteq aged'
        /\ UNCHANGED <<buckets, procs, cur, popped, rest, keep, fid, handled, lost>>
    BY DEF Age, DropStackWalk, Receive, Send, PopPanics, Dequeue, FlushStart, FlushEnd,
           vars, decorVars, flushVars
  <1>2. \/ pc' = pc
        \/ \E t \in Thread : Send(t)
        \/ pc["trace"] = "resume" /\ pc' = [pc EXCEPT !["trace"] = "panicked"]
        \/ pc["flusher"] = "idle" /\ pc' = [pc EXCEPT !["flusher"] = "range"]
        \/ pc["flusher"] = "range" /\ pc' = [pc EXCEPT !["flusher"] = "idle"]
    BY DEF Age, DropStackWalk, PopPanics, Dequeue, FlushStart, FlushEnd, vars
  <1>3. (\A t \in Thread : pc'[t] = "push" <=> pc[t] = "push") /\ (Scanning' <=> Scanning)
    <2>1. ASSUME NEW t \in Thread, Send(t)
          PROVE  /\ \A u \in Thread : pc'[u] = "push" <=> pc[u] = "push"
                 /\ Scanning' <=> Scanning
      BY <1>t, <2>1 DEF Send, ReturnPC, Scanning
    <2>2. ASSUME ~ \E t \in Thread : Send(t)
          PROVE  /\ \A u \in Thread : pc'[u] = "push" <=> pc[u] = "push"
                 /\ Scanning' <=> Scanning
      BY <1>t, <1>2, <2>2 DEF Scanning
    <2> QED
      BY <2>1, <2>2
  <1> QED
    BY <1>1, <1>3, OnceFrame

LEMMA OnceStep == OnceInv /\ [Next]_vars => OnceInv'
  <1> SUFFICES ASSUME OnceInv, [Next]_vars
               PROVE  OnceInv'
    OBVIOUS
  <1>1. KeyInv'
    BY KeyStep DEF OnceInv
  <1>2. OneCopy'
    BY <1>1, OncePushPending, OncePopStackWalk, OncePopSurrogate, OncePushDirect,
       OnceFinishPop, OnceListen, OnceRemoveBucket, OnceFlushBucket, OnceFlushKeep,
       OnceFlushEvict, OnceFlushBucketDone, OnceQuiet
       DEF Next, TraceStep, PushStep, FlushStep, Halted
  <1> QED
    BY <1>1, <1>2 DEF OnceInv

LEMMA OnceInit == Init => OnceInv
  <1> SUFFICES ASSUME Init PROVE OnceInv
    OBVIOUS
  <1> USE DEF Init, Thread
  <1>1. \A x : ~Queued(x)
    BY InEmpty DEF Queued
  <1>2. BucketsDistinct /\ FlushDistinct
    BY DistinctEmpty DEF BucketsDistinct, FlushDistinct, Scanning
  <1>3. Untouched /\ LostSettled
    BY <1>1, NoneAssumption DEF Untouched, LostSettled
  <1>4. QueuedUnseen /\ NoCarrier
    BY <1>1 DEF QueuedUnseen, NoCarrier
  <1>5. Evicting /\ Pushing /\ PoppedUnseen /\ TwiceAtMost
    BY DEF Evicting, Pushing, PoppedUnseen, TwiceAtMost
  <1>6. Cached
    BY NoneAssumption DEF Cached
  <1> QED
    BY <1>2, <1>3, <1>4, <1>5, <1>6, KeyInit DEF OnceInv, OneCopy

\* The listeners get an event at most once, whichever thread brings it, and
\* never a third time the creation of a brokered process that expired.
THEOREM ListenersOnce == Spec => []HandledOnce
  <1>1. OnceInv => HandledOnce
    BY DEF OnceInv, OneCopy, TwiceAtMost, HandledOnce, KeyInv, TypeInv, TypeOK
  <1> QED
    BY <1>1, OnceInit, OnceStep, PTL DEF Spec
-----------------------------------------------------------------------------
(* StackwalkQueue implements EventDelivery *)

(***************************************************************************)
(* The mapping of module StackwalkQueue, by name.  The proof shows that a  *)
(* step of the queue is the step of EventDelivery it is meant to be:       *)
(* receiving an event accepts it, Listen hands it over, RemoveBucket and   *)
(* FinishPop drop waiting events, and every other step but Send and        *)
(* Dequeue is invisible.                                                   *)
(***************************************************************************)
SeenBar == {e \in Event : handled[e] > 0}
GoneBar == {e \in lost : handled[e] = 0}
PassBar == [t \in Thread |->
              IF pc[t] = "send" \/ (pc[t] = "remove" /\ enq[t]) THEN cur[t] ELSE None]

LEMMA WaitingBar ==
    D!Waiting = {e \in Event : /\ e \notin toCome /\ e \notin SeenBar /\ e \notin GoneBar
                               /\ e.kind # "StackWalk"}
  BY DEF D!Waiting, SeenBar, GoneBar

\* PassBar follows the program counters of the two threads.
LEMMA PassBarSame ==
    ASSUME \A t \in Thread :
              \/ pc'[t] = pc[t] /\ cur'[t] = cur[t] /\ enq'[t] = enq[t]
              \/ pc[t] \notin {"send", "remove"} /\ pc'[t] \notin {"send", "remove"}
    PROVE  PassBar' = PassBar
  BY DEF PassBar

LEMMA AcceptStep ==
    ASSUME OnceInv, NEW e \in Event,
           PushPending(e) \/ DropStackWalk(e) \/ PopStackWalk(e) \/ PopSurrogate(e)
           \/ PushDirect(e)
    PROVE  D!Accept(e)
  <1> USE DEF Thread, OnceInv
  <1>1. /\ pc["trace"] = "idle" /\ e \in toCome /\ toCome' = toCome \ {e}
        /\ UNCHANGED <<handled, lost, chan, enq>>
    BY DEF PushPending, DropStackWalk, PopStackWalk, PopSurrogate, PushDirect, Receive
  <1>2. \/ pc' = pc /\ cur' = cur
        \/ \E x : pc' = [pc EXCEPT !["trace"] = "push"] /\ cur' = [cur EXCEPT !["trace"] = x]
    BY DEF PushPending, DropStackWalk, PopStackWalk, PopSurrogate, PushDirect, CallPush
  <1>3. PassBar' = PassBar
    BY <1>1, <1>2, OnceTypes, PassBarSame
  <1> QED
    BY <1>1, <1>3 DEF D!Accept, PassBar

LEMMA HandStep ==
    ASSUME OnceInv, NEW t \in Thread, Listen(t), NEW e \in Event, e = cur[t]
    PROVE  D!Hand(t, e)
  <1> USE NoneAssumption DEF Thread, OnceInv, OneCopy
  <1>1. /\ pc[t] = "push" /\ handled' = [handled EXCEPT ![e] = @ + 1]
        /\ UNCHANGED <<toCome, chan, cur, lost>>
        /\ \A u \in Thread : u # t => pc'[u] = pc[u] /\ enq'[u] = enq[u]
        /\ pc'[t] \in {"send", "remove", "scan", "resume", "idle"}
    BY OnceTypes DEF Listen, ReturnPC, KeyInv, TypeInv, TypeOK
  <1>3. e \notin toCome /\ e.kind # "StackWalk" /\ (e \in lost => IsSurrogateProcess(e))
    BY <1>1 DEF Untouched, NoCarrier, LostSettled
  <1>4. handled[e] = 0 \/ IsSurrogateProcess(e)
    BY <1>1 DEF Pushing, Evicting
  <1>5. e \in D!Waiting \cup (Surrogate \ toCome)
    BY <1>3, <1>4, WaitingBar, OnceTypes DEF SeenBar, GoneBar, Surrogate
  <1>6. PassBar' = PassBar \/ PassBar' = [PassBar EXCEPT ![t] = e]
    BY <1>1 DEF PassBar
  <1>7. SeenBar' = SeenBar \cup {e} /\ GoneBar' = GoneBar \ {e}
    <2>1. \A x \in Event : handled'[x] = IF x = e THEN handled[x] + 1 ELSE handled[x]
      BY <1>1, OnceTypes
    <2> QED
      BY <1>1, <2>1, OnceTypes DEF SeenBar, GoneBar
  <1>8. PassBar[t] = None
    BY <1>1 DEF PassBar
  <1> QED
    BY <1>1, <1>5, <1>6, <1>7, <1>8 DEF D!Hand, PassBar, SeenBar, GoneBar

\* Dropped events were waiting, and one of the events that cause drops has been
\* seen.
LEMMA DropStep ==
    ASSUME OnceInv, NEW x \in Event, handled[x] > 0,
           IsSurrogateProcess(x) \/ x.kind = "TerminateThread",
           NEW S \in SUBSET Event, \A e \in S : Queued(e),
           {e \in lost' : handled'[e] = 0} = {e \in lost \cup S : handled[e] = 0},
           PassBar' = PassBar, UNCHANGED <<toCome, chan, handled>>
    PROVE  \E W \in SUBSET D!Waiting : D!DropWaiting(W)
  <1> USE DEF OnceInv, OneCopy
  <1> PICK W : W = {e \in S \ lost : handled[e] = 0}
    OBVIOUS
  <1>1. W \subseteq D!Waiting
    BY WaitingBar DEF SeenBar, GoneBar, Untouched, NoCarrier
  <1>2. GoneBar' = GoneBar \cup W
    BY DEF GoneBar
  <1>3. D!DropWaiting(W)
    BY <1>1, <1>2 DEF D!DropWaiting, PassBar, GoneBar, SeenBar, Surrogate
  <1> QED
    BY <1>1, <1>3

LEMMA FinishDrops ==
    ASSUME OnceInv, FinishPop
    PROVE  \E W \in SUBSET D!Waiting : D!DropWaiting(W)
  <1> DEFINE sur == cur["trace"]
             S == {e \in Event : /\ InSeq(e, buckets[StackID(sur)])
                                 /\ ~Stays(e, popped.tpid) /\ handled[e] = 0}
  <1> USE DEF Thread
  <1>1. /\ pc["trace"] = "resume" /\ lost' = lost \cup S
        /\ pc' = [pc EXCEPT !["trace"] = "push"] /\ cur' = [cur EXCEPT !["trace"] = popped]
        /\ UNCHANGED <<toCome, chan, handled, enq>>
    BY DEF FinishPop, CallPush
  <1>2. sur \in Event /\ handled[sur] > 0 /\ IsSurrogateProcess(sur)
    BY <1>1 DEF OnceInv, KeyInv, TypeInv, Control, HandSurrogate, HandHandled
  <1>3. \A e \in S : Queued(e)
    BY <1>2, StackIDType DEF Queued
  <1>4. PassBar' = PassBar
    BY <1>1, OnceTypes, PassBarSame DEF OnceInv
  <1>5. S \in SUBSET Event
    OBVIOUS
  <1> HIDE DEF S, sur
  <1>6. {e \in lost' : handled'[e] = 0} = {e \in lost \cup S : handled[e] = 0}
    BY <1>1
  <1> QED
    BY <1>1, <1>2, <1>3, <1>4, <1>5, <1>6, DropStep

LEMMA RemoveDrops ==
    ASSUME OnceInv, NEW t \in Thread, RemoveBucket(t)
    PROVE  \E W \in SUBSET D!Waiting : D!DropWaiting(W)
  <1> DEFINE S == {e \in Event : InSeq(e, buckets[RemovedID(cur[t])])}
  <1> USE DEF Thread
  <1>1. /\ pc[t] = "remove" /\ lost' = lost \cup S
        /\ pc' = [pc EXCEPT ![t] = IF enq[t] THEN "send" ELSE ReturnPC(t)]
        /\ UNCHANGED <<toCome, chan, handled, cur, enq>>
    BY DEF RemoveBucket
  <1>2. cur[t] \in Event /\ handled[cur[t]] > 0 /\ cur[t].kind = "TerminateThread"
    BY <1>1 DEF OnceInv, KeyInv, TypeInv, Control, HandHandled
  <1>3. \A e \in S : Queued(e)
    BY <1>2, StackIDType DEF Queued
  <1>4. PassBar' = PassBar
    BY <1>1, OnceTypes DEF PassBar, ReturnPC, OnceInv
  <1>5. S \in SUBSET Event
    OBVIOUS
  <1> HIDE DEF S
  <1>6. {e \in lost' : handled'[e] = 0} = {e \in lost \cup S : handled[e] = 0}
    BY <1>1
  <1> QED
    BY <1>1, <1>2, <1>3, <1>4, <1>5, <1>6, DropStep

LEMMA SendStep ==
    ASSUME OnceInv, NEW t \in Thread, Send(t)
    PROVE  D!SendOn(t)
  <1> USE NoneAssumption DEF Thread
  <1>1. /\ pc[t] = "send" /\ Len(chan) < QueueCap /\ chan' = Append(chan, cur[t])
        /\ pc' = [pc EXCEPT ![t] = ReturnPC(t)]
        /\ UNCHANGED <<toCome, handled, lost, cur, enq>>
    BY DEF Send
  <1>2. cur[t] \in Event
    BY <1>1 DEF OnceInv, KeyInv, TypeInv, Control
  <1>3. PassBar[t] = cur[t]
    BY <1>1 DEF PassBar
  <1>4. PassBar' = [PassBar EXCEPT ![t] = None]
    BY <1>1, OnceTypes DEF PassBar, ReturnPC, OnceInv
  <1> QED
    BY <1>1, <1>2, <1>3, <1>4 DEF D!SendOn, PassBar

\* Ageing, the flusher's walk over the buckets and a panic are invisible.
LEMMA InvisibleStep ==
    ASSUME OnceInv,
           \/ \E e \in Event : Age(e)
           \/ PopPanics \/ FlushStart \/ (\E id \in Word : FlushBucket(id)) \/ FlushKeep
           \/ FlushEvict \/ FlushBucketDone \/ FlushEnd \/ UNCHANGED vars
    PROVE  UNCHANGED D!deliveryVars
  <1> USE DEF Thread
  <1>1. UNCHANGED <<toCome, handled, lost, chan, enq>>
    BY DEF Age, PopPanics, FlushStart, FlushBucket, FlushKeep, FlushEvict,
           FlushBucketDone, FlushEnd, vars
  <1>2. \/ pc' = pc /\ cur' = cur
        \/ \E t \in Thread, l \in {"idle", "range", "scan", "panicked"} :
              /\ pc[t] \in {"idle", "range", "scan", "resume"}
              /\ pc' = [pc EXCEPT ![t] = l] /\ cur' = cur
        \/ /\ pc["flusher"] = "scan"
           /\ \E x : pc' = [pc EXCEPT !["flusher"] = "push"]
                     /\ cur' = [cur EXCEPT !["flusher"] = x]
    BY DEF Age, PopPanics, FlushStart, FlushBucket, FlushKeep, FlushEvict,
           FlushBucketDone, FlushEnd, vars, CallPush
  <1>3. PassBar' = PassBar
    <2>1. \A t \in Thread :
              \/ pc'[t] = pc[t] /\ cur'[t] = cur[t] /\ enq'[t] = enq[t]
              \/ pc[t] \notin {"send", "remove"} /\ pc'[t] \notin {"send", "remove"}
      BY <1>1, <1>2, OnceTypes DEF OnceInv
    <2> QED
      BY <2>1, PassBarSame
  <1> QED
    BY <1>1, <1>3 DEF D!deliveryVars, PassBar

LEMMA DeliveryStep == OnceInv /\ [Next]_vars => [D!DeliveryNext]_(D!deliveryVars)
  <1> SUFFICES ASSUME OnceInv, [Next]_vars
               PROVE  D!DeliveryNext \/ UNCHANGED D!deliveryVars
    OBVIOUS
  <1>1. ASSUME NEW e \in Event,
               PushPending(e) \/ DropStackWalk(e) \/ PopStackWalk(e) \/ PopSurrogate(e)
               \/ PushDirect(e)
        PROVE  D!DeliveryNext
    BY <1>1, AcceptStep DEF D!DeliveryNext
  <1>2. ASSUME NEW t \in Thread, Listen(t) PROVE D!DeliveryNext
    <2>1. PICK e \in Event : e = cur[t]
      BY <1>2 DEF Listen, OnceInv, KeyInv, TypeInv, Control
    <2>2. D!Hand(t, e)
      BY <1>2, <2>1, HandStep
    <2> QED
      BY <2>2 DEF D!DeliveryNext
  <1>3. ASSUME FinishPop \/ \E t \in Thread : RemoveBucket(t) PROVE D!DeliveryNext
    BY <1>3, FinishDrops, RemoveDrops DEF D!DeliveryNext
  <1>4. ASSUME NEW t \in Thread, Send(t) PROVE D!DeliveryNext
    BY <1>4, SendStep DEF D!DeliveryNext
  <1>5. ASSUME Dequeue PROVE D!DeliveryNext
    <2>1. D!Take
      BY <1>5 DEF D!Take, Dequeue
    <2> QED
      BY <2>1 DEF D!DeliveryNext
  <1> QED
    BY <1>1, <1>2, <1>3, <1>4, <1>5, InvisibleStep
       DEF Next, TraceStep, PushStep, FlushStep, Halted

\* The queue implements EventDelivery: whatever callstacks arrive, are lost or
\* come late, an accepted event is handed over once (a brokered process creation
\* possibly again), is dropped only because of a terminated thread or a brokered
\* process creation the listeners saw, and is sent once each time they let it pass.
THEOREM QueueDelivers == Spec => Delivers
  <1>1. Init => D!DeliveryInit
    BY NoneAssumption DEF Init, D!DeliveryInit
  <1> QED
    BY <1>1, OnceInit, OnceStep, DeliveryStep, PTL DEF Spec, Delivers, D!DeliverySpec
=============================================================================
