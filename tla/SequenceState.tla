---------------------------- MODULE SequenceState ----------------------------
(***************************************************************************)
(* The state of one sequence rule (pkg/rules/sequence.go) and the part of  *)
(* the engine that drives it (Engine.ProcessEvent in pkg/rules/engine.go). *)
(*                                                                         *)
(* The threads that run ProcessEvent are the trace threads and the queue   *)
(* flushers of the consumers; the span timers and the engine's scavenger   *)
(* run in goroutines of their own.  The lock mu is held across steps only  *)
(* by the loop over the out-of-order partials; smu and mmu never are.      *)
(***************************************************************************)
EXTENDS Integers, FiniteSets

CONSTANTS
    N,            \* number of expressions of the sequence
    Thread,       \* goroutines that call Engine.ProcessEvent
    Event,        \* the events they are given, each once
    None,         \* the Go nil
    By,           \* the sequence has a by statement (IsConstrained)
    Bound,        \* slot -> slot of the alias its bound fields refer to, or itself
    Unordered,    \* the expressions name event types of different sources
    MaxSpan,      \* the sequence has a maxspan statement
    MaxPartials,  \* maxOutstandingPartials
    GcEnabled     \* the scavenger ticks

Slot == 0 .. N - 1
Terminal == N
FsmState == 0 .. N

Kind == {"CreateProcess", "CreateThread", "TerminateProcess", "Other"}

(***************************************************************************)
(* slots: the expressions whose condition holds of the event, apart from   *)
(* its bound fields.  link: the value of the fields of the by statement,   *)
(* or the one that bound fields take from an event and compare with the    *)
(* other.  key: PartialKey, 0 for the types that have none.  pid is the    *)
(* event header's process, tpid the process the event is about.            *)
(***************************************************************************)
EventRecord ==
    [slots : SUBSET Slot, ts : Nat \ {0}, link : Nat, key : Nat,
     kind : Kind, pid : Nat, tpid : Nat]

ASSUME NAssumption == N \in Nat \ {0, 1}
ASSUME EventAssumption == Event \subseteq EventRecord
ASSUME NoneAssumption == None \notin Event
ASSUME FlagAssumption ==
    /\ By \in BOOLEAN /\ Unordered \in BOOLEAN
    /\ MaxSpan \in BOOLEAN /\ GcEnabled \in BOOLEAN
ASSUME BoundAssumption == MaxPartials \in Nat

\* Bound fields are modelled in ordered sequences without a by statement, with
\* one alias for an expression.
ASSUME AliasAssumption ==
    /\ Bound \in [Slot -> Slot]
    /\ \A k \in Slot : Bound[k] <= k /\ (Bound[k] < k => ~By /\ ~Unordered)

VARIABLES
    toCome,      \* events no thread has taken yet
    partials,    \* slot -> partials, a list the code keeps sorted by timestamp
    matches,     \* slot -> event of the match, or None
    states,      \* slot -> the expression has matched
    fsm,         \* the state machine; deadline and expired are left at once
    inDeadline,
    inExpired,
    lastMatch,   \* timestamp of the last matched event, or 0
    linked,      \* events whose metadata holds their sequence link
    ooo,         \* events whose metadata holds RuleSequenceOOOKey
    timers,      \* span timers that run: [state, gen]
    firing,      \* timer callbacks past their IsInState check
    span,        \* slot -> gen of the timer in spanDeadlines, or 0
    gen,         \* number of timers made so far
    pc,          \* thread -> where it is
    cur,         \* thread -> event it processes
    idx,         \* thread -> i, the loop variable of runSequence
    todo,        \* thread -> <<slot, event>> pairs its OOO loop has to visit
    oslot,       \* thread -> slot its OOO loop is in, N when it is in none
    seen,        \* history: slots matched since the FSM was last reset
    reached,     \* history: how many times Terminal was entered
    reported,    \* history: how many matches were appended
    alerts,      \* history: the matches that were appended
    overtaken    \* history: events let in by next and not added when clear ran

seqVars == <<partials, matches, states, lastMatch, span>>
fsmVars == <<fsm, inDeadline, inExpired>>
metaVars == <<linked, ooo>>
timerVars == <<timers, firing, gen>>
loopVars == <<todo, oslot>>
alertVars == <<reached, reported, alerts, overtaken>>
vars == <<toCome, seqVars, fsmVars, metaVars, timerVars, pc, cur, idx, loopVars,
          seen, alertVars>>
-----------------------------------------------------------------------------
NoPartials == [k \in Slot |-> {}]
NoMatches == [k \in Slot |-> None]
NoStates == [k \in Slot |-> FALSE]
NoSpan == [k \in Slot |-> 0]

Init ==
    /\ toCome = Event
    /\ partials = NoPartials /\ matches = NoMatches /\ states = NoStates
    /\ lastMatch = 0 /\ span = NoSpan
    /\ fsm = 0 /\ inDeadline = FALSE /\ inExpired = FALSE
    /\ linked = {} /\ ooo = {}
    /\ timers = {} /\ firing = {} /\ gen = 0
    /\ pc = [t \in Thread |-> "idle"]
    /\ cur = [t \in Thread |-> None]
    /\ idx = [t \in Thread |-> 0]
    /\ todo = [t \in Thread |-> {}]
    /\ oslot = [t \in Thread |-> N]
    /\ seen = {}
    /\ reached = 0 /\ reported = 0 /\ alerts = {} /\ overtaken = {}

ClearKeepingStates ==
    /\ partials' = NoPartials
    /\ matches' = NoMatches
    /\ lastMatch' = 0
    /\ span' = NoSpan
    /\ UNCHANGED <<states, overtaken>>

\* The threads that next let through, but for the first expression, and that
\* have not called addPartial.
LetIn == {t \in Thread : pc[t] \in {"run", "add"} /\ idx[t] > 0}

\* clear: the timers of the dropped spanDeadlines keep running.
Clear ==
    /\ partials' = NoPartials
    /\ matches' = NoMatches
    /\ states' = NoStates
    /\ lastMatch' = 0
    /\ span' = NoSpan
    /\ overtaken' = overtaken \cup {cur[t] : t \in LetIn}

\* Nobody holds mu for reading, so that Lock returns.
NoReaders == \A t \in Thread : pc[t] # "ooo"

Goto(t, where) == pc' = [pc EXCEPT ![t] = where]

\* The slots after i whose expression the event of t may satisfy; evaluating
\* any other expression changes nothing.
Later(t, i) == {k \in cur[t].slots : k > i}

\* The next iteration of runSequence's loop, or its end without a match.
Continue(t) ==
    IF Later(t, idx[t]) = {}
    THEN Goto(t, "idle") /\ UNCHANGED idx
    ELSE /\ Goto(t, "next")
         /\ \E k \in Later(t, idx[t]) :
              /\ \A j \in Later(t, idx[t]) : k <= j
              /\ idx' = [idx EXCEPT ![t] = k]
-----------------------------------------------------------------------------
(* Engine.ProcessEvent and sequenceState.expire *)

Take(t, e) ==
    /\ pc[t] = "idle"
    /\ e \in toCome
    /\ toCome' = toCome \ {e}
    /\ cur' = [cur EXCEPT ![t] = e]

Enter(t, e) ==
    \/ /\ e.slots = {}
       /\ Goto(t, "idle") /\ UNCHANGED idx
    \/ \E k \in e.slots :
         /\ \A j \in e.slots : k <= j
         /\ Goto(t, "next") /\ idx' = [idx EXCEPT ![t] = k]

\* Any event but TerminateProcess goes straight to runSequence.
Process(t, e) ==
    /\ e.kind # "TerminateProcess"
    /\ Take(t, e)
    /\ Enter(t, e)
    /\ UNCHANGED <<seqVars, fsmVars, metaVars, timerVars, loopVars, seen, alertVars>>

CanExpire(p, pid, isFinalSlot) ==
    IF p.kind = "CreateProcess" /\ isFinalSlot THEN p.tpid = pid
    ELSE IF p.kind = "CreateThread" /\ p.pid # p.tpid THEN p.tpid = pid
    ELSE p.pid = pid

Alive(k, e) ==
    {p \in partials[k] : ~CanExpire(p, e.tpid, k = N - 1)}

Retracted(k, e) == partials[k] # {} /\ Alive(k, e) = {}

PartialsAfterExpire(V, e) ==
    [k \in Slot |-> IF k \in V THEN Alive(k, e) ELSE partials[k]]

\* The process is in partials of the sequence, but no slot loses its last one.
ExpirePartials(t, e) ==
    /\ e.kind = "TerminateProcess"
    /\ NoReaders
    /\ Take(t, e)
    /\ \A k \in Slot : ~Retracted(k, e)
    /\ partials' = PartialsAfterExpire(Slot, e)
    /\ Enter(t, e)
    /\ UNCHANGED <<matches, states, lastMatch, span, fsmVars, metaVars, timerVars,
                   loopVars, seen, alertVars>>

\* A slot lost its last partial: the FSM goes to expired and back to 0.  From
\* 0 itself the transition turns the deadline and expired marks off again.
ExpireSequence(t, e) ==
    /\ e.kind = "TerminateProcess"
    /\ NoReaders
    /\ Take(t, e)
    /\ \E k \in Slot : Retracted(k, e)
    /\ fsm # Terminal
    /\ Clear
    /\ fsm' = 0 /\ seen' = {}
    /\ inExpired' = (fsm # 0)
    /\ inDeadline' = (inDeadline /\ fsm # 0)
    /\ Enter(t, e)
    /\ UNCHANGED <<metaVars, timerVars, loopVars, reached, reported, alerts>>

\* Terminal does not permit the expire trigger, but it permits the reset that
\* follows.  The slots are visited in map order until one is empty.
ExpireTerminal(t, e) ==
    /\ e.kind = "TerminateProcess"
    /\ NoReaders
    /\ Take(t, e)
    /\ fsm = Terminal
    /\ \E z \in Slot : \E V \in SUBSET Slot :
         /\ Retracted(z, e)
         /\ \A k \in V : ~Retracted(k, e)
         /\ partials' = PartialsAfterExpire(V \cup {z}, e)
    /\ fsm' = 0 /\ seen' = {}
    /\ inExpired' = FALSE
    /\ Enter(t, e)
    /\ UNCHANGED <<matches, states, lastMatch, span, inDeadline, metaVars,
                   timerVars, loopVars, alertVars>>
-----------------------------------------------------------------------------
(* sequenceState.runSequence *)

\* next: the upstream expressions matched and the sequence is not blocked.
NextExpr(k) ==
    k = 0 \/ ((\A n \in 0 .. k - 1 : states[n]) /\ ~inDeadline /\ ~inExpired)

CheckNext(t) ==
    /\ pc[t] = "next"
    /\ NextExpr(idx[t])
    /\ Goto(t, "run")
    /\ UNCHANGED <<toCome, seqVars, fsmVars, metaVars, timerVars, cur, idx, loopVars,
                   seen, alertVars>>

\* An ordered sequence skips the expression.
SkipExpr(t) ==
    /\ pc[t] = "next"
    /\ ~NextExpr(idx[t]) /\ ~Unordered
    /\ Continue(t)
    /\ UNCHANGED <<toCome, seqVars, fsmVars, metaVars, timerVars, cur, loopVars,
                   seen, alertVars>>

\* An unordered one keeps the event, which satisfies the raw condition.
KeepOutOfOrder(t) ==
    /\ pc[t] = "next"
    /\ ~NextExpr(idx[t]) /\ Unordered
    /\ Goto(t, "addooo")
    /\ UNCHANGED <<toCome, seqVars, fsmVars, metaVars, timerVars, cur, idx, loopVars,
                   seen, alertVars>>

JoinedOnce(e, k) ==
    k = 0 \/ \E i \in 0 .. k - 1 :
               \E p \in partials[i] : p \in linked /\ p.link = e.link

IsBound(k) == Bound[k] # k

\* evalBoundSequence: the partials of the alias for which the expression holds.
\* With none left the code evaluates what an earlier use left in the valuer,
\* and panics if that holds: here it does not.
BoundPartials(e, k) == {p \in partials[Bound[k]] : p.link = e.link}

\* RunSequence.  evalSequence: with a by statement every upstream slot holds a
\* partial with the link of the event.
Joined(e, k) ==
    IF IsBound(k) THEN BoundPartials(e, k) # {}
    ELSE \/ ~By
         \/ \A i \in 0 .. k - 1 :
              \E p \in partials[i] : p \in linked /\ p.link = e.link

\* The event gets its link; with bound fields it and the first partial that it
\* is bound to do, and that link is the same for all events, since it hashes
\* only the fields whose alias starts with a $, which the parser has cut off.
LinkedAfter(e, k) ==
    IF IsBound(k)
    THEN {linked \cup {e, p} : p \in
            {b \in BoundPartials(e, k) : \A c \in BoundPartials(e, k) : b.ts <= c.ts}}
    ELSE {IF By THEN linked \cup {e} ELSE linked}

AnyTime(e) == TRUE

\* The temporal monotonicity check of ordered sequences.
Monotonic(e) == Unordered \/ lastMatch = 0 \/ e.ts > lastMatch

RunExpr(t) ==
    /\ pc[t] = "run"
    /\ Joined(cur[t], idx[t])
    /\ linked' \in LinkedAfter(cur[t], idx[t])
    /\ \/ Monotonic(cur[t]) /\ Goto(t, "add") /\ UNCHANGED idx
       \/ ~Monotonic(cur[t]) /\ Continue(t)
    /\ UNCHANGED <<toCome, seqVars, fsmVars, ooo, timerVars, cur, loopVars,
                   seen, alertVars>>

RunFails(t) ==
    /\ pc[t] = "run"
    /\ ~Joined(cur[t], idx[t])
    /\ Continue(t)
    /\ UNCHANGED <<toCome, seqVars, fsmVars, metaVars, timerVars, cur, loopVars,
                   seen, alertVars>>

\* addPartial drops the event if the slot is full or holds its key.
Dropped(k, e) ==
    \/ Cardinality(partials[k]) > MaxPartials
    \/ e.key # 0 /\ \E p \in partials[k] : p.key = e.key

PartialsAfterAdd(k, e) ==
    IF Dropped(k, e) THEN partials
    ELSE [partials EXCEPT ![k] = @ \cup {e}]

AddPartial(t) ==
    /\ pc[t] = "add"
    /\ NoReaders
    /\ partials' = PartialsAfterAdd(idx[t], cur[t])
    /\ Goto(t, "fire")
    /\ UNCHANGED <<toCome, matches, states, lastMatch, span, fsmVars, metaVars,
                   timerVars, cur, idx, loopVars, seen, alertVars>>

AddOutOfOrder(t) ==
    /\ pc[t] = "addooo"
    /\ NoReaders
    /\ partials' = PartialsAfterAdd(idx[t], cur[t])
    /\ ooo' = IF Dropped(idx[t], cur[t]) THEN ooo ELSE ooo \cup {cur[t]}
    /\ Continue(t)
    /\ UNCHANGED <<toCome, matches, states, lastMatch, span, fsmVars, linked,
                   timerVars, cur, loopVars, seen, alertVars>>

\* The target configureFSM permits for the match trigger in state k.
StateAfter(k) == k + 1

TargetStates(k) == [i \in Slot |-> states[i] \/ i = k + 1]

\* OnTransitioned saves the match under the source of the transition.
MatchedStates(k) == [states EXCEPT ![k] = TRUE]

UnblockNever(flag, k) == flag

\* The first match after a deadline or an expiration clears the mark.
Unblock(flag, k) == flag /\ k # 0

SchedulableInner(k) == k \in 1 .. N - 2

\* isStateSchedulable
Schedulable(k) == k \in 1 .. N - 1

\* matchTransition: the trigger fires in whatever state the FSM is in, unless
\* the expression has matched before.
MatchTransition(k) ==
    /\ seen' = seen \cup {k}
    /\ IF states[k] \/ fsm = Terminal
       THEN UNCHANGED <<states, fsmVars, timers, gen, span, reached>>
       ELSE LET target == StateAfter(fsm)
                armed == MaxSpan /\ Schedulable(target)
            IN  /\ fsm' = target
                /\ reached' = IF target = Terminal THEN reached + 1 ELSE reached
                /\ states' = MatchedStates(fsm)
                /\ inDeadline' = Unblock(inDeadline, fsm)
                /\ inExpired' = Unblock(inExpired, fsm)
                /\ gen' = IF armed THEN gen + 1 ELSE gen
                /\ timers' = {r \in timers : r # [state |-> fsm, gen |-> span[fsm]]}
                             \cup (IF armed THEN {[state |-> target, gen |-> gen + 1]}
                                   ELSE {})
                /\ span' = [k2 \in Slot |-> IF k2 = fsm THEN 0
                                            ELSE IF armed /\ k2 = target THEN gen + 1
                                            ELSE span[k2]]

Fire(t) ==
    /\ pc[t] = "fire"
    /\ MatchTransition(idx[t])
    /\ Goto(t, "after")
    /\ UNCHANGED <<toCome, partials, matches, lastMatch, metaVars, firing, cur, idx,
                   loopVars, reported, alerts, overtaken>>

SaveLastMatch(t) ==
    /\ pc[t] = "after"
    /\ ~Unordered
    /\ lastMatch' = cur[t].ts
    /\ Goto(t, "check")
    /\ UNCHANGED <<toCome, partials, matches, states, span, fsmVars, metaVars,
                   timerVars, cur, idx, loopVars, seen, alertVars>>

\* The loop over the partials that arrived out of order starts, unless the
\* sequence is in its terminal state.  It holds mu for reading.
StartOutOfOrder(t) ==
    /\ pc[t] = "after"
    /\ Unordered
    /\ IF fsm = Terminal
       THEN Goto(t, "check") /\ UNCHANGED loopVars
       ELSE /\ Goto(t, "ooo")
            /\ todo' = [todo EXCEPT ![t] =
                          {r \in Slot \X Event : r[2] \in partials[r[1]]}]
            /\ UNCHANGED oslot
    /\ UNCHANGED <<toCome, seqVars, fsmVars, metaVars, timerVars, cur, idx, seen,
                   alertVars>>

\* One iteration: the slots come in map order, the partials of a slot in the
\* order of their timestamps.
NextOutOfOrder(t, k, p) ==
    /\ pc[t] = "ooo"
    /\ <<k, p>> \in todo[t]
    /\ \A r \in todo[t] : r[1] = k => p.ts <= r[2].ts
    /\ k = oslot[t] \/ \A r \in todo[t] : r[1] # oslot[t]
    /\ todo' = [todo EXCEPT ![t] = @ \ {<<k, p>>}]
    /\ oslot' = [oslot EXCEPT ![t] = k]

SkipOutOfOrder(t, k, p) ==
    /\ NextOutOfOrder(t, k, p)
    /\ p \notin ooo \/ ~Joined(p, k)
    /\ UNCHANGED <<toCome, seqVars, fsmVars, metaVars, timerVars, pc, cur, idx, seen,
                   alertVars>>

\* RunSequence does not ask whether the upstream expressions have matched.
FireOutOfOrder(t, k, p) ==
    /\ NextOutOfOrder(t, k, p)
    /\ p \in ooo /\ Joined(p, k)
    /\ linked' \in LinkedAfter(p, k)
    /\ MatchTransition(k)
    /\ ooo' = ooo \ {p}
    /\ UNCHANGED <<toCome, partials, matches, lastMatch, firing, pc, cur, idx,
                   reported, alerts, overtaken>>

EndOutOfOrder(t) ==
    /\ pc[t] = "ooo"
    /\ todo[t] = {}
    /\ oslot' = [oslot EXCEPT ![t] = N]
    /\ Goto(t, "check")
    /\ UNCHANGED <<toCome, seqVars, fsmVars, metaVars, timerVars, cur, idx, todo,
                   seen, alertVars>>

\* isTerminalState reads the state and then fires the reset trigger.
CheckTerminal(t) ==
    /\ pc[t] = "check"
    /\ \/ fsm = Terminal /\ Goto(t, "reset") /\ UNCHANGED idx
       \/ fsm # Terminal /\ Continue(t)
    /\ UNCHANGED <<toCome, seqVars, fsmVars, metaVars, timerVars, cur, loopVars, seen,
                   alertVars>>

NoReset == fsm

\* Only Terminal permits the trigger: deadline and expired are left at once.
AfterReset == IF fsm = Terminal THEN 0 ELSE fsm

ResetTerminal(t) ==
    /\ pc[t] = "reset"
    /\ fsm' = AfterReset
    /\ seen' = IF fsm = Terminal THEN {} ELSE seen
    /\ Goto(t, "collect")
    /\ UNCHANGED <<toCome, seqVars, inDeadline, inExpired, metaVars, timerVars, cur,
                   idx, loopVars, alertVars>>

AnyPair(o, i) == TRUE

\* CompareSeqLinks, or neither event of an unconstrained sequence has links.
JoinPair(o, i) ==
    \/ o \in linked /\ i \in linked /\ (By => o.link = i.link)
    \/ ~By /\ o \notin linked /\ i \notin linked

\* The first pair of partials of slots k and k + 1 that join, if any.
FirstPairs(k) ==
    LET pairs == {r \in partials[k] \X partials[k + 1] : JoinPair(r[1], r[2])}
    IN  {r \in pairs : \A q \in pairs :
           r[1].ts < q[1].ts \/ (r[1].ts = q[1].ts /\ r[2].ts <= q[2].ts)}

\* The loop ends at the number of slots in the map of partials: the ones that
\* hold an event, and any that held one before, for a slot that the scavenger or
\* an expiration has emptied stays in the map.
Lengths == Cardinality({k \in Slot : partials[k] # {}}) .. N

\* Slot k takes the event that joined its upstream slot, or else the one that
\* joined its downstream slot, unless it has one already.
Collectable(k, n) ==
    IF matches[k] # None THEN {matches[k]}
    ELSE IF k > 0 /\ k - 1 < n /\ FirstPairs(k - 1) # {} THEN {r[2] : r \in FirstPairs(k - 1)}
    ELSE IF k < N - 1 /\ k < n /\ FirstPairs(k) # {} THEN {r[1] : r \in FirstPairs(k)}
    ELSE {None}

Collect(t) ==
    /\ pc[t] = "collect"
    /\ matches' \in [Slot -> Event \cup {None}]
    /\ \E n \in Lengths : \A k \in Slot : matches'[k] \in Collectable(k, n)
    /\ Goto(t, "report")
    /\ UNCHANGED <<toCome, partials, states, lastMatch, span, fsmVars, metaVars,
                   timerVars, cur, idx, loopVars, seen, alertVars>>

\* events() and appendMatch
Report(t) ==
    /\ pc[t] = "report"
    /\ reported' = reported + 1
    /\ alerts' = alerts \cup {matches}
    /\ Goto(t, "clear")
    /\ UNCHANGED <<toCome, seqVars, fsmVars, metaVars, timerVars, cur, idx, loopVars,
                   seen, reached, overtaken>>

ClearLocked(t) ==
    /\ pc[t] = "clear"
    /\ NoReaders
    /\ Clear
    /\ Goto(t, "idle")
    /\ UNCHANGED <<toCome, fsmVars, metaVars, timerVars, cur, idx, loopVars, seen,
                   reached, reported, alerts>>
-----------------------------------------------------------------------------
(* The span timers and the scavenger *)

TimerRearmed(r) ==
    /\ r \in timers
    /\ timers' = IF fsm = r.state THEN timers ELSE timers \ {r}
    /\ UNCHANGED <<toCome, seqVars, fsmVars, metaVars, firing, gen, pc, cur, idx,
                   loopVars, seen, alertVars>>

\* A timer expires and its callback asks whether the FSM is in its state.
TimerCheck(r) ==
    /\ r \in timers
    /\ timers' = timers \ {r}
    /\ IF fsm = r.state
       THEN firing' = firing \cup {r} /\ inDeadline' = TRUE
       ELSE UNCHANGED <<firing, inDeadline>>
    /\ UNCHANGED <<toCome, seqVars, fsm, inExpired, metaVars, gen, pc, cur, idx,
                   loopVars, seen, alertVars>>

\* The callback got the locks: cancel and reset, in whatever state the FSM is.
TimerCancel(r) ==
    /\ r \in firing
    /\ NoReaders
    /\ firing' = firing \ {r}
    /\ fsm # Terminal
    /\ Clear
    /\ fsm' = 0 /\ seen' = {}
    /\ inDeadline' = (inDeadline /\ fsm # 0)
    /\ inExpired' = (inExpired /\ fsm # 0)
    /\ UNCHANGED <<toCome, metaVars, timers, gen, pc, cur, idx, loopVars, reached,
                   reported, alerts>>

\* Terminal refuses the cancel trigger and accepts the reset that follows.
TimerCancelTerminal(r) ==
    /\ r \in firing
    /\ NoReaders
    /\ firing' = firing \ {r}
    /\ fsm = Terminal
    /\ fsm' = 0 /\ seen' = {}
    /\ inDeadline' = FALSE
    /\ UNCHANGED <<toCome, seqVars, inExpired, metaVars, timers, gen, pc, cur, idx,
                   loopVars, alertVars>>

\* The partials older than the sequence's time span go; states is not touched.
Gc(cut) ==
    /\ GcEnabled
    /\ NoReaders
    /\ partials' = [k \in Slot |-> {p \in partials[k] : p.ts > cut}]
    /\ partials' # partials
    /\ UNCHANGED <<toCome, matches, states, lastMatch, span, fsmVars, metaVars,
                   timerVars, pc, cur, idx, loopVars, seen, alertVars>>

ThreadStep(t) ==
    \/ CheckNext(t) \/ SkipExpr(t) \/ KeepOutOfOrder(t)
    \/ RunExpr(t) \/ RunFails(t) \/ AddPartial(t) \/ AddOutOfOrder(t)
    \/ Fire(t) \/ SaveLastMatch(t) \/ StartOutOfOrder(t)
    \/ \E k \in Slot, p \in Event : SkipOutOfOrder(t, k, p) \/ FireOutOfOrder(t, k, p)
    \/ EndOutOfOrder(t) \/ CheckTerminal(t) \/ ResetTerminal(t)
    \/ Collect(t) \/ Report(t) \/ ClearLocked(t)

Finished == toCome = {} /\ \A t \in Thread : pc[t] = "idle"

\* No event is left (TLC: not a deadlock).
Rest == Finished /\ timers = {} /\ firing = {} /\ UNCHANGED vars

Next ==
    \/ \E t \in Thread, e \in Event : Process(t, e)
    \/ \E t \in Thread, e \in Event : ExpirePartials(t, e)
    \/ \E t \in Thread, e \in Event : ExpireSequence(t, e)
    \/ \E t \in Thread, e \in Event : ExpireTerminal(t, e)
    \/ \E t \in Thread : ThreadStep(t)
    \/ \E r \in timers : TimerCheck(r)
    \/ \E r \in firing : TimerCancel(r)
    \/ \E r \in firing : TimerCancelTerminal(r)
    \/ \E e \in Event : Gc(e.ts)
    \/ Rest

Spec == Init /\ [][Next]_vars

\* The goroutines are scheduled, a timer expires, and mu, which is not held
\* for ever, is granted; nothing is promised about the arrival of events.
FairSpec ==
    /\ Spec
    /\ \A t \in Thread : WF_vars(ThreadStep(t))
    /\ WF_vars(\E r \in timers : TimerCheck(r))
    /\ SF_vars(\E r \in firing : TimerCancel(r) \/ TimerCancelTerminal(r))
-----------------------------------------------------------------------------
(* Properties *)

Timer == [state : 1 .. N - 1, gen : Nat]

PCs == {"idle", "next", "run", "add", "addooo", "fire", "after", "ooo", "check",
        "reset", "collect", "report", "clear"}

\* The variables hold what the fields of sequenceState and the locals of
\* runSequence can hold; a thread inside the loop of runSequence has an event.
TypeOK ==
    /\ toCome \subseteq Event
    /\ partials \in [Slot -> SUBSET Event]
    /\ matches \in [Slot -> Event \cup {None}]
    /\ states \in [Slot -> BOOLEAN]
    /\ fsm \in FsmState
    /\ inDeadline \in BOOLEAN /\ inExpired \in BOOLEAN
    /\ lastMatch \in Nat
    /\ linked \subseteq Event /\ ooo \subseteq Event
    /\ timers \subseteq Timer /\ firing \subseteq Timer
    /\ span \in [Slot -> Nat] /\ gen \in Nat
    /\ pc \in [Thread -> PCs]
    /\ cur \in [Thread -> Event \cup {None}]
    /\ \A t \in Thread : pc[t] # "idle" => cur[t] \in Event
    /\ idx \in [Thread -> Slot]
    /\ todo \in [Thread -> SUBSET (Slot \X Event)]
    /\ oslot \in [Thread -> 0 .. N]
    /\ seen \subseteq Slot
    /\ reached \in Nat /\ reported \in Nat
    /\ alerts \subseteq [Slot -> Event \cup {None}]
    /\ overtaken \subseteq Event

\* The states map agrees with the state machine: exactly the expressions before
\* the current state have matched, except that the marks of a complete match
\* survive the reset (or a cancel refused in Terminal) until they are cleared.
StatesPrefix ==
    \/ \A k \in Slot : states[k] <=> k < fsm
    \/ fsm = 0 /\ \A k \in Slot : states[k]

\* Only one thread has run the sequence so far.
Alone == \A t, u \in Thread : cur[t] # None /\ cur[u] # None => t = u

\* The terminal state is reached only if an event matched every expression
\* since the state machine was last reset (next, matchTransition).
Genuine == Alone /\ fsm = Terminal => seen = Slot

\* A sequence under way is not stuck behind the mark of an earlier deadline or
\* expiration: next would refuse every further expression.
NotBlocked ==
    fsm \in 1 .. N - 1 => /\ inDeadline => firing # {}
                          /\ ~inExpired

\* Every time the terminal state is entered at most one match is appended.
AtMostOneReport == reported <= reached

Collecting == {t \in Thread : pc[t] \in {"collect", "report"}}

\* Every time the terminal state is entered one match is appended: it is not
\* left by anything but the reset of isTerminalState, as long as one thread
\* runs the sequence.
TerminalYields ==
    Alone => reached = reported + Cardinality(Collecting) + (IF fsm = Terminal THEN 1 ELSE 0)

\* The marks of a finished match are cleared by the thread that found it; left
\* behind they would keep every later match from firing.
Restartable ==
    Alone /\ fsm = 0 /\ (\E k \in Slot : states[k]) =>
        \E t \in Thread : pc[t] \in {"collect", "report", "clear"}

MatchEvents(m) == {m[k] : k \in Slot} \ {None}

\* The events of a match share the fields of the by statement (runSequence's
\* collection of joinable partials).
JoinedMatches ==
    By => \A m \in alerts : \A x, y \in MatchEvents(m) : x.link = y.link

\* An event of a match whose expression has bound fields satisfies them with the
\* event that the match has for the alias (evalBoundSequence, the collection of
\* joinable partials).
BoundMatches ==
    \A m \in alerts : \A k \in Slot :
        m[k] # None /\ m[Bound[k]] # None => m[k].link = m[Bound[k]].link

\* The events of a match of an ordered sequence succeed each other in time, in
\* the order of the expressions (lastMatch, the sorted partials), but for one
\* that was let in before the sequence was cleared: it stays in its slot, and a
\* later attempt that gets to the slot takes it.  With three expressions or more
\* the scavenger breaks the order too: it may leave a slot only its newer events.
Chronological ==
    ~Unordered => \A m \in alerts : \A j, k \in Slot :
        j < k /\ m[j] # None /\ m[k] # None /\ m[k] \notin overtaken => m[j].ts < m[k].ts

\* The events of a match belong together: joined and, if the sequence is
\* ordered, in the order of the expressions.
Coherent == JoinedMatches /\ Chronological

\* The event has arrived and satisfies the expression of the slot.
Arrived(e, k) == k \in e.slots /\ e \notin toCome

\* Every event of a match satisfies the expression it is shown for, whichever
\* thread put it there and whatever was cleared, expired or collected by another
\* thread meanwhile (addPartial, the collection of joinable partials, events).
Satisfied == \A m \in alerts : \A k \in Slot : m[k] # None => Arrived(m[k], k)

\* A slot holds at most one partial more than maxOutstandingPartials, since
\* addPartial compares before it appends, and never two with one PartialKey.
SlotsBounded ==
    \A k \in Slot :
        /\ Cardinality(partials[k]) <= MaxPartials + 1
        /\ \A p, q \in partials[k] : p.key # 0 /\ p.key = q.key => p = q

\* A timer is pending for the state of a sequence with a maxspan.
SpanArmed ==
    MaxSpan /\ fsm \in 1 .. N - 1 =>
        firing # {} \/ \E r \in timers : r.state = fsm

\* A sequence with a maxspan does not stay in a state for ever: the next
\* expression matches, or the deadline or an expiration resets it.
SpanBounded ==
    \A k \in 1 .. N - 1 : MaxSpan /\ fsm = k ~> fsm # k
=============================================================================
