-------------------------- MODULE MCStackwalkQueue --------------------------
(* Event sets on which TLC checks StackwalkQueue. *)
EXTENDS StackwalkQueue

Ev(name, kind, pid, tid, ppid, rppid, tpid, ttid, of) ==
    [name |-> name, kind |-> kind, pid |-> pid, tid |-> tid, ppid |-> ppid,
     rppid |-> rppid, tpid |-> tpid, ttid |-> ttid, of |-> of]

\* Thread 2 of process 1 sets a registry value and terminates.
Reg1  == Ev("reg1", "Registry", 1, 2, 0, 0, 0, 0, "")
Term  == Ev("term", "TerminateThread", 1, 2, 0, 0, 1, 2, "")
WalkT == Ev("walkT", "StackWalk", 1, 2, 0, 0, 0, 0, "term")

\* Thread 2 of the broker, process 3, creates process 6 on behalf of process 1
\* and then the first thread of process 6.
SpawnEvent == Ev("spawn", "CreateProcess", 6, 2, 1, 3, 6, 0, "")
Thread1 == Ev("thread1", "CreateThread", 3, 2, 0, 0, 6, 7, "")
WalkS   == Ev("walkS", "StackWalk", 3, 2, 0, 0, 0, 0, "thread1")
\* Thread 3 of process 0 allocates memory in process 6; it shares the
\* surrogate's bucket since 0+3 = 1+2.
Alloc   == Ev("alloc", "VirtualAlloc", 0, 3, 0, 0, 6, 0, "")

\* An event that needs no callstack.
Plain1  == Ev("plain1", "Plain", 1, 2, 0, 0, 0, 0, "")

\* A thread sets a registry value and terminates; a broker creates process 6,
\* whose bucket is the terminated thread's.
QueueEvents == {SpawnEvent, Thread1, WalkS, Reg1, Term, WalkT, Plain1}
QueueAgeable == {SpawnEvent, Thread1}

\* Bound: a behaviour has the brokered process creation or the plain event.
SpawnOrPlain == {SpawnEvent, Plain1} \cap toCome # {}
TerminateEvents == {Reg1, Term, WalkT}
=============================================================================
