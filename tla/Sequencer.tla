----------------------------- MODULE Sequencer -----------------------------
(***************************************************************************)
(* The sequence numbers of events (pkg/event/sequencer_windows.go) and the *)
(* consumers that give them out (internal/etw/consumer.go).  A consumer    *)
(* reads the number when it creates an event and increments it once the    *)
(* event is known to be queued; a CreateFile event keeps its number while  *)
(* it waits for the end of its operation.  A goroutine stores the number   *)
(* in a volatile registry value every five seconds, Shutdown stores it     *)
(* once more, and a restarted program continues from the stored value.     *)
(***************************************************************************)
EXTENDS Naturals

CONSTANTS
    SqConsumer,   \* the consumers, one for each trace
    SqIrp,        \* I/O request packets of CreateFile events
    SqMax,        \* bound: numbers given out
    SqSessions    \* bound: times the program is started

ASSUME SqAssumption == SqMax \in Nat /\ SqSessions \in Nat

SqStorer == {"ticker", "main"}

VARIABLES
    seq,      \* Sequencer.seq
    stored,   \* the registry value EventSequence, 0 when there is none
    key,      \* Sequencer.key: "valid", "invalid" or "closed"
    got,      \* consumer -> the event it processes: [at, n]
    irps,     \* I/O request packet -> number of the event that waits for it
    storing,  \* the goroutine and Shutdown in Store: [at, next]
    session,  \* the number of times the program was started
    running,  \* the program runs
    pushed,   \* history: numbers of the counted events queued in this session
    again,    \* history: numbers that a second counted event was queued with
    raced,    \* history: storers whose check the other's write has overtaken
    old,      \* history: numbers of the counted events queued in earlier sessions
    orderly   \* history: nothing has happened that may repeat a number

sqVars == <<seq, stored, key, got, irps, storing, session, running, pushed, again, raced,
          old, orderly>>

Idle == [at |-> "idle", n |-> 0]
NotStoring == [at |-> "idle", next |-> 0]
-----------------------------------------------------------------------------
NewSequencerAtZero(k) ==
    key' = k /\ seq' = 0 /\ storing' = [x \in SqStorer |-> NotStoring]

\* NewSequencer: without the key there is no goroutine, and the number is 0.
NewSequencer(k) ==
    /\ key' = k
    /\ seq' = IF k = "valid" THEN stored ELSE 0
    /\ storing' = [x \in SqStorer |->
                     IF x = "ticker" /\ k = "invalid" THEN [NotStoring EXCEPT !.at = "done"]
                     ELSE NotStoring]

SqInit ==
    /\ seq = 0 /\ stored = 0 /\ key = "valid"
    /\ got = [c \in SqConsumer |-> Idle]
    /\ irps = [i \in {} |-> 0]
    /\ storing = [x \in SqStorer |-> NotStoring]
    /\ session = 1 /\ running = TRUE
    /\ pushed = {} /\ again = {} /\ raced = {} /\ old = {} /\ orderly = TRUE

Restart ==
    /\ ~running /\ session < SqSessions
    /\ \E k \in {"valid", "invalid"} :
          NewSequencer(k) /\ orderly' = (orderly /\ k = "valid")
    /\ session' = session + 1 /\ running' = TRUE
    /\ UNCHANGED <<stored, got, irps, pushed, again, raced, old>>
-----------------------------------------------------------------------------
\* The flag isClosing is written and read without synchronization: a consumer
\* may still take an event once Shutdown has begun.
GetNumber(c) ==
    /\ running /\ got[c].at = "idle" /\ seq < SqMax
    /\ got' = [got EXCEPT ![c] = [at |-> "process", n |-> seq]]
    /\ orderly' = (orderly /\ storing["main"].at = "idle")
    /\ UNCHANGED <<seq, stored, key, irps, storing, session, running, pushed, again, raced, old>>

\* A processor fails, or the event is excluded, filtered out or only state.  A
\* state event that a capture wants is queued, but not counted.
Drop(c) ==
    /\ running /\ got[c].at = "process"
    /\ got' = [got EXCEPT ![c] = Idle]
    /\ UNCHANGED <<seq, stored, key, irps, storing, session, running, pushed, again, raced, old, orderly>>

\* A CreateFile event waits for the end of its operation (WaitEnqueue).
Defer(c, i) ==
    /\ running /\ got[c].at = "process"
    /\ irps' = [j \in DOMAIN irps \cup {i} |-> IF j = i THEN got[c].n ELSE irps[j]]
    /\ got' = [got EXCEPT ![c] = Idle]
    /\ UNCHANGED <<seq, stored, key, storing, session, running, pushed, again, raced, old, orderly>>

\* A FileOpEnd event is replaced by the CreateFile event that waits for it.
Resume(c, i) ==
    /\ running /\ got[c].at = "process" /\ i \in DOMAIN irps
    /\ got' = [got EXCEPT ![c].n = irps[i]]
    /\ irps' = [j \in DOMAIN irps \ {i} |-> irps[j]]
    /\ UNCHANGED <<seq, stored, key, storing, session, running, pushed, again, raced, old, orderly>>

NoIncrement(c) ==
    /\ running /\ got[c].at = "process"
    /\ got' = [got EXCEPT ![c].at = "push"]
    /\ UNCHANGED <<seq, stored, key, irps, storing, session, running, pushed, again, raced, old, orderly>>

Increment(c) ==
    /\ running /\ got[c].at = "process"
    /\ seq' = seq + 1
    /\ got' = [got EXCEPT ![c].at = "push"]
    /\ UNCHANGED <<stored, key, irps, storing, session, running, pushed, again, raced, old, orderly>>

PushEvent(c) ==
    /\ running /\ got[c].at = "push"
    /\ pushed' = pushed \cup {got[c].n}
    /\ again' = again \cup (pushed \cap {got[c].n})
    /\ got' = [got EXCEPT ![c] = Idle]
    /\ UNCHANGED <<seq, stored, key, irps, storing, session, running, raced, old, orderly>>
-----------------------------------------------------------------------------
\* Store, by the goroutine on its tick and by Shutdown, which opens an invalid
\* key first.
StoreGet(x) ==
    /\ running /\ storing[x].at = "idle"
    /\ x = "ticker" => key = "valid"
    /\ key' = IF key = "invalid" THEN "valid" ELSE key
    /\ storing' = [storing EXCEPT ![x] = [at |-> "check", next |-> seq]]
    /\ orderly' = (orderly /\ (x = "main" =>
                      /\ \A c \in SqConsumer : got[c].at = "idle"
                      /\ storing["ticker"].at \in {"idle", "done"}))
    /\ UNCHANGED <<seq, stored, got, irps, session, running, pushed, again, raced, old>>

StoreOnce(x) == [NotStoring EXCEPT !.at = IF x = "ticker" THEN "done" ELSE "close"]

\* The goroutine goes back to its ticker, Shutdown on to Close.
AfterStore(x) == IF x = "ticker" THEN NotStoring ELSE [NotStoring EXCEPT !.at = "close"]

\* Shutdown cannot open the key either: Store returns an error.
StoreNoKey ==
    /\ running /\ storing["main"].at = "idle" /\ key = "invalid"
    /\ storing' = [storing EXCEPT !["main"] = AfterStore("main")]
    /\ UNCHANGED <<seq, stored, key, got, irps, session, running, pushed, again, raced, old, orderly>>

AnyOrder(x) == FALSE
Lower(x) == storing[x].next < stored

StoreCheck(x) ==
    /\ running /\ storing[x].at = "check"
    /\ storing' = [storing EXCEPT ![x] =
                     IF Lower(x) THEN AfterStore(x) ELSE [@ EXCEPT !.at = "set"]]
    /\ raced' = raced \ {x}
    /\ UNCHANGED <<seq, stored, key, got, irps, session, running, pushed, again, old, orderly>>

StoreSet(x) ==
    /\ running /\ storing[x].at = "set" /\ key # "closed"
    /\ stored' = storing[x].next
    /\ storing' = [storing EXCEPT ![x] = AfterStore(x)]
    /\ raced' = {y \in SqStorer : storing'[y].at = "set"}
    /\ UNCHANGED <<seq, key, got, irps, session, running, pushed, again, old, orderly>>

\* The value cannot be written: the key is closed, or SetQWordValue fails.
StoreFails(x) ==
    /\ running /\ storing[x].at = "set"
    /\ storing' = [storing EXCEPT ![x] = AfterStore(x)]
    /\ orderly' = (orderly /\ x # "main")
    /\ UNCHANGED <<seq, stored, key, got, irps, session, running, pushed, again, raced, old>>

\* Close signals the goroutine and closes the key.
CloseSequencer ==
    /\ running /\ storing["main"].at = "close"
    /\ key' = "closed"
    /\ storing' = [storing EXCEPT !["main"].at = "done"]
    /\ UNCHANGED <<seq, stored, got, irps, session, running, pushed, again, raced, old, orderly>>

Quit ==
    /\ running /\ key = "closed" /\ storing["ticker"].at = "idle"
    /\ storing' = [storing EXCEPT !["ticker"].at = "done"]
    /\ UNCHANGED <<seq, stored, key, got, irps, session, running, pushed, again, raced, old, orderly>>

\* The program ends after Shutdown, or at any moment, and its memory is lost.
Terminate ==
    /\ running
    /\ running' = FALSE /\ seq' = 0 /\ key' = "closed"
    /\ got' = [c \in SqConsumer |-> Idle]
    /\ irps' = [i \in {} |-> 0]
    /\ storing' = [x \in SqStorer |-> NotStoring]
    /\ old' = old \cup pushed /\ pushed' = {} /\ again' = {} /\ raced' = {}
    /\ orderly' = (orderly /\ storing["main"].at = "done")
    /\ UNCHANGED <<stored, session>>

SqNext ==
    \/ \E c \in SqConsumer :
          \/ GetNumber(c) \/ Drop(c) \/ Increment(c) \/ PushEvent(c)
          \/ \E i \in SqIrp : Defer(c, i) \/ Resume(c, i)
    \/ \E x \in SqStorer : StoreGet(x) \/ StoreCheck(x) \/ StoreSet(x) \/ StoreFails(x)
    \/ StoreNoKey \/ CloseSequencer \/ Quit \/ Terminate \/ Restart

SqSpec == SqInit /\ [][SqNext]_sqVars

\* The goroutine is scheduled, and its ticker ticks, while the program runs.
SqTicker ==
    \/ StoreGet("ticker") \/ StoreCheck("ticker")
    \/ StoreSet("ticker") \/ StoreFails("ticker")

SqFairness == WF_sqVars(SqTicker)
-----------------------------------------------------------------------------
SqTypeOK ==
    /\ seq \in Nat /\ stored \in Nat
    /\ key \in {"valid", "invalid", "closed"}
    /\ got \in [SqConsumer -> [at : {"idle", "process", "push"}, n : Nat]]
    /\ DOMAIN irps \subseteq SqIrp /\ \A i \in DOMAIN irps : irps[i] \in Nat
    /\ storing \in [SqStorer -> [at : {"idle", "check", "set", "close", "done"}, next : Nat]]
    /\ storing["ticker"].at # "close"
    /\ session \in Nat /\ running \in BOOLEAN /\ orderly \in BOOLEAN
    /\ again \subseteq pushed /\ pushed \subseteq Nat /\ old \subseteq Nat
    /\ raced \subseteq SqStorer

\* An event created now gets a number above those of all counted events queued
\* in this session, also with two consumers and with CreateFile events that were
\* held back: ProcessEvent increments the number before it pushes the event.
SqFresh == running => \A n \in pushed : n < seq

\* A session that follows orderly ones continues above every number they gave
\* out: numbers repeat only after a crash, a missing registry key, a write that
\* failed, an event in flight during the Store of Shutdown or a Store of the
\* goroutine that overlaps with it.
SqNoReuse == running /\ orderly => \A n \in old : n < seq

\* Numbers go up: an event that ProcessEvent creates gets one above those of all
\* events that were queued before in this session and, after orderly ones, in
\* earlier sessions.  Events in hand at the same time may share one.
SqAhead == SqFresh /\ SqNoReuse

\* The sequence number uniquely identifies an event: no two counted events of a
\* session are queued with the same one.
SqIdentifies == again = {}

\* The stored number goes back only by a write of Store that the write of the
\* other storer, Shutdown or the goroutine, has overtaken since Store compared
\* the numbers.  So a session that could not open the key and counts from 0 never
\* lowers the value an earlier one left.
SqStoredForward ==
    [][stored' < stored => \E x \in raced : storing[x].at = "set"]_sqVars

\* The registry does not refuse every write of the goroutine.
SqWritable == SF_sqVars(StoreSet("ticker"))

\* What the consumers have counted reaches the registry, if it can be written,
\* unless the program shuts down or crashes: the goroutine stores it at one of
\* its ticks.
SqCatchesUp ==
    SqWritable =>
      \A n \in 1 .. SqMax :
        (running /\ key = "valid" /\ storing["main"].at = "idle" /\ seq = n)
            ~> (stored >= n \/ ~running \/ storing["main"].at # "idle")
=============================================================================
