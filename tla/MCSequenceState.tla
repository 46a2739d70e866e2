--------------------------- MODULE MCSequenceState ---------------------------
(* Event sets on which TLC checks SequenceState. *)
EXTENDS SequenceState, TLC

Ev(slots, ts, link, key, kind, pid, tpid) ==
    [slots |-> slots, ts |-> ts, link |-> link, key |-> key, kind |-> kind,
     pid |-> pid, tpid |-> tpid]

On(slots, ts, link) == Ev(slots, ts, link, 0, "Other", link, link)
Exit(ts, pid) == Ev({}, ts, 0, 0, "TerminateProcess", pid, pid)

\* Two processes, each of which may satisfy both expressions.  One event
\* satisfies both; one repeats the key of another; one process creates a thread
\* in the other and a process of its own, and both terminate.  A second attempt
\* can start after a match or a deadline.
OneThread ==
    {Ev({0}, 1, 1, 5, "Other", 1, 1), Ev({0}, 4, 2, 5, "CreateThread", 1, 2),
     On({1}, 2, 1), On({0, 1}, 3, 1), Ev({1}, 5, 1, 0, "CreateProcess", 1, 2),
     Exit(6, 1), Exit(7, 2)}

\* An unordered sequence: the events of one provider come first.
OutOfOrder ==
    {On({2}, 3, 1), On({1}, 2, 1), On({0}, 1, 1), On({0, 1}, 4, 2), On({2}, 5, 1),
     Exit(6, 1)}

\* Two processes interleave, and the last expression matches for one of them.
Interleaved ==
    {On({0}, 1, 1), On({0}, 2, 2), On({1}, 3, 1), On({1}, 4, 2), On({2}, 5, 2)}

\* Two events and the end of their process, for two threads.
Concurrent == {On({0}, 1, 1), On({0, 1}, 2, 1), On({1}, 3, 1), Exit(4, 1)}

\* Two files are created, and a registry value names one of them, then the other.
Aliased == {On({0}, 1, 1), On({0}, 3, 2), On({1}, 2, 1), On({1}, 4, 2)}

NoAlias == [k \in Slot |-> k]
FirstAlias == [k \in Slot |-> 0]

\* Bound: the events that two threads share, at most three of them: one for each
\* expression, one for two of them and the end of the process.
SharedEvents == {On({2}, 3, 1), On({1}, 2, 1), On({0}, 1, 1), On({0, 1}, 4, 2), Exit(6, 1)}
SharedFew ==
    Alone \/ (Event \ toCome \subseteq SharedEvents /\ Cardinality(Event \ toCome) <= 3)
=============================================================================
