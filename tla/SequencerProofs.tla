-------------------------- MODULE SequencerProofs --------------------------
(***************************************************************************)
(* Theorems about the sequence numbers, for any number of consumers, of    *)
(* I/O request packets and of sessions of the program.                     *)
(***************************************************************************)
EXTENDS Sequencer, TLAPS

\* The step relation is a disjunction of the actions; naming the disjuncts
\* once spares each proof of an invariant the quantifiers.
LEMMA SqCases ==
    ASSUME SqNext
    PROVE  \/ \E c \in SqConsumer : GetNumber(c)
           \/ \E c \in SqConsumer : Drop(c)
           \/ \E c \in SqConsumer : Increment(c)
           \/ \E c \in SqConsumer : PushEvent(c)
           \/ \E c \in SqConsumer, i \in SqIrp : Defer(c, i)
           \/ \E c \in SqConsumer, i \in SqIrp : Resume(c, i)
           \/ \E x \in SqStorer : StoreGet(x)
           \/ \E x \in SqStorer : StoreCheck(x)
           \/ \E x \in SqStorer : StoreSet(x)
           \/ \E x \in SqStorer : StoreFails(x)
           \/ StoreNoKey \/ CloseSequencer \/ Quit \/ Terminate \/ Restart
  BY DEF SqNext

\* The fields of the sequencer, the events in hand and the deferred ones keep
\* their types in every step of SqNext.
THEOREM TypeCorrect == SqSpec => []SqTypeOK
<1>1. SqInit => SqTypeOK
  BY DEF SqInit, SqTypeOK, Idle, NotStoring, SqStorer
<1>2. SqTypeOK /\ [SqNext]_sqVars => SqTypeOK'
  <2> SUFFICES ASSUME SqTypeOK, [SqNext]_sqVars PROVE SqTypeOK'
    OBVIOUS
  <2>1. CASE UNCHANGED sqVars
    BY <2>1 DEF SqTypeOK, sqVars
  <2>2. CASE \E c \in SqConsumer : GetNumber(c)
    BY <2>2 DEF SqTypeOK, GetNumber
  <2>3. CASE \E c \in SqConsumer : Drop(c)
    BY <2>3 DEF SqTypeOK, Drop, Idle
  <2>4. CASE \E c \in SqConsumer : Increment(c)
    BY <2>4 DEF SqTypeOK, Increment
  <2>5. CASE \E c \in SqConsumer : PushEvent(c)
    <3>1. PICK c \in SqConsumer : PushEvent(c)
      BY <2>5
    <3>2. /\ got[c].n \in Nat /\ pushed' = pushed \cup {got[c].n} /\ pushed \subseteq Nat
          /\ again' = again \cup (pushed \cap {got[c].n}) /\ again \subseteq pushed
      BY <3>1 DEF SqTypeOK, PushEvent
    <3>3. pushed' \subseteq Nat /\ again' \subseteq pushed'
      BY <3>2
    <3>4. QED
      BY <3>1, <3>3 DEF SqTypeOK, PushEvent, Idle
  <2>6. CASE \E c \in SqConsumer, i \in SqIrp : Defer(c, i)
    BY <2>6 DEF SqTypeOK, Defer, Idle
  <2>7. CASE \E c \in SqConsumer, i \in SqIrp : Resume(c, i)
    BY <2>7 DEF SqTypeOK, Resume
  <2>8. CASE \E x \in SqStorer : StoreGet(x)
    BY <2>8 DEF SqTypeOK, StoreGet, SqStorer
  <2>9. CASE \E x \in SqStorer : StoreCheck(x)
    BY <2>9 DEF SqTypeOK, StoreCheck, AfterStore, NotStoring, SqStorer
  <2>10. CASE \E x \in SqStorer : StoreSet(x)
    BY <2>10 DEF SqTypeOK, StoreSet, AfterStore, NotStoring, SqStorer
  <2>17. CASE \E x \in SqStorer : StoreFails(x)
    <3>1. PICK x \in SqStorer : StoreFails(x)
      BY <2>17
    <3>2. orderly' \in BOOLEAN
      BY <3>1, Zenon DEF StoreFails
    <3> QED BY <3>1, <3>2 DEF SqTypeOK, StoreFails, AfterStore, NotStoring, SqStorer
  <2>11. CASE StoreNoKey
    BY <2>11 DEF SqTypeOK, StoreNoKey, AfterStore, NotStoring, SqStorer
  <2>12. CASE CloseSequencer
    BY <2>12 DEF SqTypeOK, CloseSequencer, SqStorer
  <2>13. CASE Quit
    BY <2>13 DEF SqTypeOK, Quit, SqStorer
  <2>14. CASE Terminate
    BY <2>14 DEF SqTypeOK, Terminate, Idle, NotStoring, SqStorer
  <2>15. CASE Restart
    BY <2>15 DEF SqTypeOK, Restart, NewSequencer, NotStoring, SqStorer
  <2>16. QED
    BY <2>1, <2>2, <2>3, <2>4, <2>5, <2>6, <2>7, <2>8, <2>9, <2>10, <2>11, <2>12,
       <2>13, <2>14, <2>15, <2>17, SqCases
<1>3. QED
  BY <1>1, <1>2, PTL DEF SqSpec
-----------------------------------------------------------------------------
\* No number in hand is ahead of the counter, and the number of an event that
\* is about to be queued is behind it; a program that does not run has nothing
\* in hand.
Behind ==
    /\ \A c \in SqConsumer : got[c].n <= seq /\ (got[c].at = "push" => got[c].n < seq)
    /\ \A i \in DOMAIN irps : irps[i] <= seq
    /\ \A n \in pushed : n < seq
    /\ ~running => /\ pushed = {} /\ DOMAIN irps = {}
                   /\ \A c \in SqConsumer : got[c].n = 0 /\ got[c].at = "idle"

\* Each step keeps the numbers in hand behind the counter: ProcessEvent
\* increments before it pushes, and nothing lowers the counter while it runs.
LEMMA BehindStep == SqTypeOK /\ Behind /\ [SqNext]_sqVars => Behind'
<1> SUFFICES ASSUME SqTypeOK, Behind, [SqNext]_sqVars PROVE Behind'
  OBVIOUS
<1>1. CASE UNCHANGED <<seq, got, irps, pushed, running>>
  BY <1>1 DEF Behind
<1>2. CASE \E c \in SqConsumer : GetNumber(c)
  BY <1>2 DEF Behind, SqTypeOK, GetNumber
<1>3. CASE \E c \in SqConsumer : Drop(c)
  BY <1>3 DEF Behind, SqTypeOK, Drop, Idle
<1>4. CASE \E c \in SqConsumer : Increment(c)
  BY <1>4 DEF Behind, SqTypeOK, Increment
<1>5. CASE \E c \in SqConsumer : PushEvent(c)
  BY <1>5 DEF Behind, SqTypeOK, PushEvent, Idle
<1>6. CASE \E c \in SqConsumer, i \in SqIrp : Defer(c, i)
  BY <1>6 DEF Behind, SqTypeOK, Defer, Idle
<1>7. CASE \E c \in SqConsumer, i \in SqIrp : Resume(c, i)
  BY <1>7 DEF Behind, SqTypeOK, Resume
<1>8. CASE Terminate
  BY <1>8 DEF Behind, SqTypeOK, Terminate, Idle
<1>9. CASE Restart
  BY <1>9 DEF Behind, SqTypeOK, Restart, NewSequencer
<1>10. QED
  BY <1>1, <1>2, <1>3, <1>4, <1>5, <1>6, <1>7, <1>8, <1>9, SqCases
     DEF sqVars, StoreGet, StoreCheck, StoreSet, StoreFails, StoreNoKey, CloseSequencer, Quit

\* An event that a consumer creates gets a number no counted event of the
\* session carries, for any number of consumers and deferred events.
THEOREM FreshNumbers == SqSpec => []SqFresh
<1>1. SqInit => Behind
  BY DEF SqInit, Behind, Idle
<1>2. Behind => SqFresh
  BY DEF Behind, SqFresh
<1>3. QED
  BY <1>1, <1>2, BehindStep, TypeCorrect, PTL DEF SqSpec
-----------------------------------------------------------------------------
\* What Store has checked still holds when it writes, unless the other storer
\* has written since.
Checked ==
    \A x \in SqStorer : storing[x].at = "set" /\ x \notin raced => storing[x].next >= stored

\* Each step keeps what was checked: only a write of the other storer raises the
\* stored number.
LEMMA CheckedStep == SqTypeOK /\ Checked /\ [SqNext]_sqVars => Checked'
<1> SUFFICES ASSUME SqTypeOK, Checked, [SqNext]_sqVars PROVE Checked'
  OBVIOUS
<1>1. CASE UNCHANGED <<stored, storing, raced>>
  BY <1>1 DEF Checked
<1>2. CASE \E x \in SqStorer : StoreGet(x)
  BY <1>2 DEF Checked, SqTypeOK, StoreGet, SqStorer
<1>3. CASE \E x \in SqStorer : StoreCheck(x)
  BY <1>3 DEF Checked, SqTypeOK, StoreCheck, Lower, AfterStore, NotStoring, SqStorer
<1>4. CASE \E x \in SqStorer : StoreSet(x)
  BY <1>4 DEF Checked, SqTypeOK, StoreSet, AfterStore, NotStoring, SqStorer
<1>11. CASE \E x \in SqStorer : StoreFails(x)
  BY <1>11 DEF Checked, SqTypeOK, StoreFails, AfterStore, NotStoring, SqStorer
<1>5. CASE StoreNoKey
  BY <1>5 DEF Checked, SqTypeOK, StoreNoKey, AfterStore, NotStoring, SqStorer
<1>6. CASE CloseSequencer
  BY <1>6 DEF Checked, SqTypeOK, CloseSequencer, SqStorer
<1>7. CASE Quit
  BY <1>7 DEF Checked, SqTypeOK, Quit, SqStorer
<1>8. CASE Terminate
  BY <1>8 DEF Checked, SqTypeOK, Terminate, NotStoring, SqStorer
<1>9. CASE Restart
  BY <1>9 DEF Checked, SqTypeOK, Restart, NewSequencer, NotStoring, SqStorer
<1>10. QED
  BY <1>1, <1>2, <1>3, <1>4, <1>5, <1>6, <1>7, <1>8, <1>9, <1>11, SqCases
     DEF sqVars, GetNumber, Drop, Increment, PushEvent, Defer, Resume

\* Store never lowers the registry value, for any consumers and sessions, but by
\* a write that the other storer's has overtaken since the comparison.
THEOREM StoredForward == SqSpec => SqStoredForward
<1> DEFINE Forward == stored' < stored => \E x \in raced : storing[x].at = "set"
<1>1. SqInit => Checked
  BY DEF SqInit, Checked, NotStoring, SqStorer
<1>2. SqTypeOK /\ Checked /\ [SqNext]_sqVars => [Forward]_sqVars
  <2> SUFFICES ASSUME SqTypeOK, Checked, SqNext PROVE Forward
    BY DEF sqVars
  <2>1. CASE \E x \in SqStorer : StoreSet(x)
    BY <2>1 DEF Checked, SqTypeOK, StoreSet, SqStorer
  <2>2. CASE UNCHANGED stored
    BY <2>2 DEF SqTypeOK
  <2>3. QED
    BY <2>1, <2>2, SqCases DEF GetNumber, Drop, Increment, PushEvent, Defer, Resume,
       StoreGet, StoreCheck, StoreFails, StoreNoKey, CloseSequencer, Quit, Terminate, Restart
<1>3. QED
  BY <1>1, <1>2, CheckedStep, TypeCorrect, PTL DEF SqSpec, SqStoredForward
-----------------------------------------------------------------------------
\* As long as nothing has happened that may repeat a number: nothing is ahead of
\* the counter; once Shutdown has read the number no event is in hand and both
\* storers have the final number, which is stored when Shutdown is through; and
\* a program that has ended has stored more than it has given out.
Orderly ==
    orderly =>
      /\ running =>
           /\ key # "invalid" /\ stored <= seq
           /\ \A x \in SqStorer : storing[x].next <= seq
           /\ \A n \in old : n < seq
           /\ storing["main"].at # "idle" =>
                /\ \A c \in SqConsumer : got[c].at = "idle"
                /\ \A x \in SqStorer : storing[x].at \in {"check", "set"} => storing[x].next = seq
           /\ storing["main"].at \in {"close", "done"} => stored = seq
      /\ ~running => \A n \in old : n < stored

\* Each step keeps an orderly history orderly.
LEMMA OrderlyStep ==
    SqTypeOK /\ Behind /\ Checked /\ Orderly /\ [SqNext]_sqVars => Orderly'
<1> SUFFICES ASSUME SqTypeOK, Behind, Checked, Orderly, [SqNext]_sqVars, orderly'
             PROVE  Orderly'
  BY DEF Orderly
<1>1. CASE UNCHANGED sqVars
  BY <1>1 DEF Orderly, sqVars
<1>2. CASE \E c \in SqConsumer : GetNumber(c)
  <2>1. PICK c \in SqConsumer : GetNumber(c)
    BY <1>2
  <2>2. orderly /\ storing["main"].at = "idle"
    BY <2>1, Zenon DEF GetNumber
  <2>3. QED
    BY <2>1, <2>2 DEF Orderly, SqTypeOK, GetNumber, SqStorer
<1>3. CASE \E c \in SqConsumer : Drop(c)
  BY <1>3 DEF Orderly, SqTypeOK, Drop, Idle
<1>4. CASE \E c \in SqConsumer : Increment(c)
  BY <1>4 DEF Orderly, SqTypeOK, Increment, SqStorer
<1>5. CASE \E c \in SqConsumer : PushEvent(c)
  BY <1>5 DEF Orderly, SqTypeOK, PushEvent, Idle
<1>6. CASE \E c \in SqConsumer, i \in SqIrp : Defer(c, i)
  BY <1>6 DEF Orderly, SqTypeOK, Defer, Idle
<1>7. CASE \E c \in SqConsumer, i \in SqIrp : Resume(c, i)
  BY <1>7 DEF Orderly, SqTypeOK, Resume
<1>8. CASE \E x \in SqStorer : StoreGet(x)
  <2>1. PICK x \in SqStorer : StoreGet(x)
    BY <1>8
  <2>2. /\ orderly
        /\ x = "main" => /\ \A c \in SqConsumer : got[c].at = "idle"
                         /\ storing["ticker"].at \in {"idle", "done"}
    BY <2>1, Zenon DEF StoreGet
  <2>3. QED
    BY <2>1, <2>2 DEF Orderly, SqTypeOK, StoreGet, SqStorer
<1>9. CASE \E x \in SqStorer : StoreCheck(x)
  BY <1>9 DEF Orderly, SqTypeOK, StoreCheck, Lower, AfterStore, NotStoring, SqStorer
<1>10. CASE \E x \in SqStorer : StoreSet(x)
  BY <1>10 DEF Orderly, Checked, SqTypeOK, StoreSet, AfterStore, NotStoring, SqStorer
<1>17. CASE \E x \in SqStorer : StoreFails(x)
  <2>1. PICK x \in SqStorer : StoreFails(x)
    BY <1>17
  <2>2. orderly /\ x = "ticker"
    BY <2>1, Zenon DEF StoreFails, SqStorer
  <2> QED BY <2>1, <2>2 DEF Orderly, SqTypeOK, StoreFails, AfterStore, NotStoring, SqStorer
<1>11. CASE StoreNoKey
  BY <1>11 DEF Orderly, SqTypeOK, StoreNoKey
<1>12. CASE CloseSequencer
  BY <1>12 DEF Orderly, SqTypeOK, CloseSequencer, SqStorer
<1>13. CASE Quit
  BY <1>13 DEF Orderly, SqTypeOK, Quit, SqStorer
<1>14. CASE Terminate
  BY <1>14 DEF Orderly, Behind, SqTypeOK, Terminate
<1>15. CASE Restart
  BY <1>15 DEF Orderly, SqTypeOK, Restart, NewSequencer, NotStoring, SqStorer
<1>16. QED
  BY <1>1, <1>2, <1>3, <1>4, <1>5, <1>6, <1>7, <1>8, <1>9, <1>10, <1>11, <1>12,
     <1>13, <1>14, <1>15, <1>17, SqCases

\* After orderly sessions the next one gives out no number again.
THEOREM NumbersNotReused == SqSpec => []SqNoReuse
<1>1. SqInit => Behind /\ Checked /\ Orderly
  BY DEF SqInit, Behind, Checked, Orderly, Idle, NotStoring, SqStorer
<1>2. Orderly => SqNoReuse
  BY DEF Orderly, SqNoReuse
<1>3. QED
  BY <1>1, <1>2, BehindStep, CheckedStep, OrderlyStep, TypeCorrect, PTL DEF SqSpec

\* A new event gets a number above all that were queued in its session and,
\* after orderly ones, in earlier sessions: ProcessEvent increments before it
\* pushes, and Store never falls behind at an orderly end.
THEOREM NumbersGoUp == SqSpec => []SqAhead
<1>1. SqFresh /\ SqNoReuse => SqAhead
  BY DEF SqAhead
<1>2. QED
  BY <1>1, FreshNumbers, NumbersNotReused, PTL
=============================================================================
