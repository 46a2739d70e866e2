----------------------------- MODULE RuleEngine -----------------------------
(***************************************************************************)
(* The rule engine (pkg/rules/engine.go) as a listener of the event queues.*)
(* Several goroutines, the trace threads and the queue flushers, call      *)
(* ProcessEvent at the same time.  They share the slice of rule matches,   *)
(* which the mutex mmu guards.  A match is appended, the actions of every  *)
(* match in the slice are executed with mmu held, and the slice is emptied *)
(* in a deferred call that runs after mmu has been released.               *)
(***************************************************************************)
EXTENDS Integers, Sequences, FiniteSets

CONSTANTS
    Thread,    \* goroutines that call ProcessEvent
    Event,     \* events they are given, each once
    Filters,   \* event -> the filters indexed by its type, in order
    Matching,  \* event -> the filters whose condition it satisfies
    Rule,      \* the rules
    WithAction,\* rules with a kill or isolate action
    MatchAll,  \* the match all strategy
    None       \* the Go nil

\* A match is the event that completed the rule and the rule.
Match == Event \X Rule

ASSUME ThreadAssumption == IsFiniteSet(Thread)
ASSUME FilterAssumption ==
    /\ Filters \in [Event -> Seq(Rule)]
    /\ Matching \in [Event -> SUBSET Rule]
ASSUME RuleAssumption == WithAction \subseteq Rule /\ MatchAll \in BOOLEAN
ASSUME NoneAssumption == None \notin Event

VARIABLES
    toCome,    \* events no thread has taken yet
    matches,   \* the slice of rule matches
    pc,        \* thread -> where it is
    cur,       \* thread -> event it processes, or None
    idx,       \* thread -> index of the filter it is at
    attempts,  \* history: match -> how many times its alert was sent or tried
    actions,   \* history: match -> how many times its actions were executed
    appended,  \* history: the matches appended so far
    exposed    \* history: the matches a clear may have removed unseen

vars == <<toCome, matches, pc, cur, idx, attempts, actions, appended, exposed>>

Elems(s) == {s[i] : i \in 1 .. Len(s)}
-----------------------------------------------------------------------------
Init ==
    /\ toCome = Event
    /\ matches = <<>>
    /\ pc = [t \in Thread |-> "idle"]
    /\ cur = [t \in Thread |-> None]
    /\ idx = [t \in Thread |-> 1]
    /\ attempts = [m \in Match |-> 0]
    /\ actions = [m \in Match |-> 0]
    /\ appended = {}
    /\ exposed = {}

Goto(t, where) == pc' = [pc EXCEPT ![t] = where]

FirstFilter == 1

\* ProcessEvent: the filters for the event are collected; sequences expire in
\* the sequence module.
ProcessEvent(t, e) ==
    /\ pc[t] = "idle"
    /\ e \in toCome
    /\ toCome' = toCome \ {e}
    /\ cur' = [cur EXCEPT ![t] = e]
    /\ idx' = [idx EXCEPT ![t] = FirstFilter]
    /\ Goto(t, "run")
    /\ UNCHANGED <<matches, attempts, actions, appended, exposed>>

\* The filter thread t is at; only asked if there is one.
Filter(t) == Filters[cur[t]][idx[t]]

HasFilter(t) == idx[t] <= Len(Filters[cur[t]])

RunMiss(t) ==
    /\ pc[t] = "run"
    /\ HasFilter(t)
    /\ Filter(t) \notin Matching[cur[t]]
    /\ idx' = [idx EXCEPT ![t] = @ + 1]
    /\ UNCHANGED <<toCome, matches, pc, cur, attempts, actions, appended, exposed>>

\* appendMatch only waits for mmu, which no thread holds between two steps: a
\* thread that has released mmu and is about to clear the slice does not stop it.
Overtaken(t) == \E u \in Thread : pc[u] = "clear"

\* run returned true: appendMatch.
AppendMatch(t) ==
    /\ pc[t] = "run"
    /\ HasFilter(t)
    /\ Filter(t) \in Matching[cur[t]]
    /\ matches' = Append(matches, <<cur[t], Filter(t)>>)
    /\ appended' = appended \cup {<<cur[t], Filter(t)>>}
    /\ exposed' = IF Overtaken(t) THEN exposed \cup {<<cur[t], Filter(t)>>} ELSE exposed
    /\ Goto(t, "act")
    /\ UNCHANGED <<toCome, cur, idx, attempts, actions>>

Return(t) ==
    /\ pc[t] = "run"
    /\ ~HasFilter(t)
    /\ Goto(t, "idle")
    /\ UNCHANGED <<toCome, matches, cur, idx, attempts, actions, appended, exposed>>

\* A loop that stops one match too early.
ExecutedButLast(n, k) ==
    /\ attempts' = [m \in Match |->
         attempts[m] + Cardinality({i \in 1 .. n - 1 : matches[i] = m})]
    /\ actions' = [m \in Match |->
         actions[m] + Cardinality({i \in 1 .. k - 1 : matches[i] = m /\ m[2] \in WithAction})]

\* The alerts of the first n matches went out, and the actions of the first k.
Executed(n, k) ==
    /\ attempts' = [m \in Match |->
         attempts[m] + Cardinality({i \in 1 .. n : matches[i] = m})]
    /\ actions' = [m \in Match |->
         actions[m] + Cardinality({i \in 1 .. k : matches[i] = m /\ m[2] \in WithAction})]

\* processActions with mmu held: every match in the slice, this thread's or not.
ProcessActions(t) ==
    /\ pc[t] = "act"
    /\ Executed(Len(matches), Len(matches))
    /\ Goto(t, "clear")
    /\ UNCHANGED <<toCome, matches, cur, idx, appended, exposed>>

\* The alert, the decoding of the actions or an action of match n fails: an
\* early return, and the matches after it are not looked at.
ProcessActionsFails(t) ==
    /\ pc[t] = "act"
    /\ \E n \in 1 .. Len(matches) : \E k \in {n - 1, n} :
         /\ k = n => matches[n][2] \in WithAction
         /\ Executed(n, k)
         /\ exposed' = exposed \cup {matches[i] : i \in n + 1 .. Len(matches)}
    /\ Goto(t, "clear")
    /\ UNCHANGED <<toCome, matches, cur, idx, appended>>

\* A clearMatches that forgets to clear.
KeepMatches(t) == matches

\* The deferred clearMatches takes mmu again, after processActions released it.
ClearedMatches(t) == <<>>

\* After the first match ProcessEvent returns, unless MatchAll is set.
ContinueAfter(t) == IF MatchAll THEN "run" ELSE "idle"

ClearMatches(t) ==
    /\ pc[t] = "clear"
    /\ matches' = ClearedMatches(t)
    /\ Goto(t, ContinueAfter(t))
    /\ idx' = [idx EXCEPT ![t] = @ + 1]
    /\ UNCHANGED <<toCome, cur, attempts, actions, appended, exposed>>

Idle == \A t \in Thread : pc[t] = "idle"

\* No event is left.
Rest == toCome = {} /\ Idle /\ UNCHANGED vars

Next ==
    \/ \E t \in Thread, e \in Event : ProcessEvent(t, e)
    \/ \E t \in Thread : RunMiss(t)
    \/ \E t \in Thread : AppendMatch(t)
    \/ \E t \in Thread : Return(t)
    \/ \E t \in Thread : ProcessActions(t)
    \/ \E t \in Thread : ProcessActionsFails(t)
    \/ \E t \in Thread : ClearMatches(t)
    \/ Rest

Spec == Init /\ [][Next]_vars
-----------------------------------------------------------------------------
(* Properties *)

\* The fields of the engine and the locals of ProcessEvent have their types; a
\* thread inside ProcessEvent has an event.
TypeOK ==
    /\ toCome \subseteq Event
    /\ matches \in Seq(Match)
    /\ pc \in [Thread -> {"idle", "run", "act", "clear"}]
    /\ cur \in [Thread -> Event \cup {None}]
    /\ \A t \in Thread : pc[t] # "idle" => cur[t] \in Event
    /\ idx \in [Thread -> Nat \ {0}]
    /\ attempts \in [Match -> Nat]
    /\ actions \in [Match -> Nat]
    /\ appended \subseteq Match
    /\ exposed \subseteq appended

\* The slice holds at most one match per thread between append and clear: a
\* match is never left behind for a later, unrelated event to act on.
SliceBound ==
    Len(matches) <= Cardinality({t \in Thread : pc[t] \in {"act", "clear"}})

\* A match is alerted and acted on at most once per thread, each time the rule
\* is indexed for the event: a thread that acted on it empties the slice
\* before it acts again.
ActedBound ==
    \A m \in Match :
      /\ attempts[m] <= Cardinality(Thread) * Cardinality(
             {i \in DOMAIN Filters[m[1]] : Filters[m[1]][i] = m[2]})
      /\ actions[m] <= attempts[m]

\* A match leaves the slice without an alert only if it was appended between
\* another thread's processActions and that thread's deferred clearMatches, or
\* if it stood behind a match whose alert or action failed.
LostOnlyIfExposed ==
    \A m \in appended : m \in Elems(matches) \/ attempts[m] > 0 \/ m \in exposed

\* An alert is sent, or its sending fails, for every match that was appended
\* and is not in the slice any more (the comment of processActions).
EveryMatchAlerted ==
    \A m \in appended : m \in Elems(matches) \/ attempts[m] > 0
=============================================================================
