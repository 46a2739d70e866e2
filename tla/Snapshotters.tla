---------------------------- MODULE Snapshotters ----------------------------
(***************************************************************************)
(* The process snapshotter (pkg/ps/snapshotter_windows.go) with the scan   *)
(* of the handle snapshotter that calls it (pkg/handle/snapshotter.go).    *)
(* The system starts and ends processes and uses their pids again.  The    *)
(* trace thread of the kernel session writes and removes process states,   *)
(* the one of the telemetry session writes less detailed states, and both  *)
(* look up the process of other events, which stores what the system says  *)
(* when the snapshot has nothing.  A removed state is kept in the dirty    *)
(* map until a timer fires, a collector removes leftovers, and the scan    *)
(* adds file handles to the states.  Process states are pointers: ps is    *)
(* the heap, an index of it a pointer, 0 is nil.                           *)
(***************************************************************************)
EXTENDS Naturals, Sequences, FiniteSets

CONSTANTS
    PsMax,        \* bound: processes started; process n is the n-th
    PsPid,        \* process ids
    PsProtected,  \* the processes that can only be opened with limited access
    PsEnumerate,  \* config.EnumerateHandles
    PsLosses,     \* bound: events that are dropped
    PsLookups,    \* bound: events that only look a process up
    PsScan        \* the processes with a file handle in the initial scan, by pid

\* No process has the pid 0, which stands for a parent that is not known.
ASSUME PsAssumption ==
    /\ 0 \notin PsPid
    /\ PsMax \in Nat /\ PsLosses \in Nat /\ PsLookups \in Nat
    /\ PsProtected \subseteq 1 .. PsMax /\ PsEnumerate \in BOOLEAN
    /\ PsScan \subseteq PsPid

PsThread == {"kernel", "telemetry"}

VARIABLES
    os,        \* the processes of the system: [pid, parent, at]
    core,      \* events on their way in the kernel session: [kind, of]
    internal,  \* processes whose event is on its way in the telemetry session
    ps,        \* the heap of process states: [of, ppid, parent, core]
    procs,     \* pid -> process state
    dirty,     \* pid -> process state of a removed process
    timers,    \* pending removals from the dirty map: [pid, of]
    thread,    \* thread -> [at, pid, ps]: a lookup or a write under way
    scan,      \* the goroutine that consumes handles: [at, todo, pid, ps]
    removed,   \* history: processes whose TerminateProcess was handled
    revived,   \* history: processes stored again after they had left the snapshot
    dropped,   \* history: the number of events dropped
    lookups    \* history: the number of lookups

psSystem == <<os, core, internal>>
psMaps == <<ps, procs, dirty, timers>>
psHistory == <<removed, revived, dropped, lookups>>
psVars == <<psSystem, psMaps, thread, scan, psHistory>>

NoPs == 0
PsIdle == [at |-> "idle", pid |-> 0, ps |-> NoPs]
Erase(f, x) == [y \in DOMAIN f \ {x} |-> f[y]]
Store(f, x, v) == [y \in DOMAIN f \cup {x} |-> IF y = x THEN v ELSE f[y]]
Lookup(f, x) == IF x \in DOMAIN f THEN f[x] ELSE NoPs

PsInit ==
    /\ os = <<>> /\ core = <<>> /\ internal = <<>>
    /\ ps = <<>> /\ procs = <<>> /\ dirty = <<>> /\ timers = {}
    /\ thread = [t \in PsThread |-> PsIdle]
    /\ scan = [at |-> "wait", todo |-> PsScan, pid |-> 0, ps |-> NoPs]
    /\ removed = {} /\ revived = {} /\ dropped = 0 /\ lookups = 0
-----------------------------------------------------------------------------
\* The system.  A process that ended can be opened while someone has a handle
\* to it.
Openable(n) == os[n].at \in {"alive", "zombie"}
HasPid(p) == {n \in DOMAIN os : os[n].pid = p /\ Openable(n)}
PidOf(n) == IF n = 0 THEN 0 ELSE os[n].pid

StartProcess(p, parent) ==
    /\ Len(os) < PsMax /\ HasPid(p) = {}
    /\ os' = Append(os, [pid |-> p, parent |-> parent, at |-> "alive"])
    /\ core' = Append(core, [kind |-> "create", of |-> Len(os) + 1])
    /\ internal' = Append(internal, Len(os) + 1)
    /\ UNCHANGED <<psMaps, thread, scan, psHistory>>

ExitProcess(n) ==
    /\ os[n].at = "alive"
    /\ os' = [os EXCEPT ![n].at = "zombie"]
    /\ core' = Append(core, [kind |-> "terminate", of |-> n])
    /\ UNCHANGED <<internal, psMaps, thread, scan, psHistory>>

CloseLastHandle(n) ==
    /\ os[n].at = "zombie"
    /\ os' = [os EXCEPT ![n].at = "gone"]
    /\ UNCHANGED <<core, internal, psMaps, thread, scan, psHistory>>

\* An event is dropped before the session delivers it, never under the thread
\* that handles it.
LoseEvent ==
    /\ dropped < PsLosses /\ dropped' = dropped + 1
    /\ \/ /\ core # <<>> /\ thread["kernel"].at # "write"
          /\ core' = Tail(core) /\ UNCHANGED internal
       \/ internal # <<>> /\ internal' = Tail(internal) /\ UNCHANGED core
    /\ UNCHANGED <<os, psMaps, thread, scan, removed, revived, lookups>>
-----------------------------------------------------------------------------
\* The mutex of the process snapshotter is held across steps only by a write
\* or a lookup that waits for the mutex of the handle snapshotter, which the
\* scan holds while it calls onHandleCreated.
Unlocked == \A t \in PsThread : thread[t].at \notin {"write", "find"}
NoWriter == \A t \in PsThread : thread[t].at # "write"
Scanning == scan.at \in {"next", "add"}

\* FindHandles takes that mutex for a process it cannot open for queries.
NeedsHandles(p) == PsEnumerate /\ ~\E n \in HasPid(p) \ PsProtected : TRUE

\* The state that newProcState makes from a CreateProcess event.
CoreState(n) ==
    [of |-> n, ppid |-> PidOf(os[n].parent),
     parent |-> Lookup(procs, PidOf(os[n].parent)), core |-> TRUE]

InternalState(n) ==
    [of |-> n, ppid |-> PidOf(os[n].parent), parent |-> NoPs, core |-> FALSE]

NewState(s) == ps' = Append(ps, s)

\* Write of CreateProcess or ProcessRundown replaces what there is.
WriteCore ==
    /\ core # <<>> /\ Head(core).kind = "create"
    /\ LET n == Head(core).of IN
       /\ \/ thread["kernel"].at = "idle" /\ Unlocked
          \/ thread["kernel"].at = "write"
       /\ NeedsHandles(os[n].pid) => ~Scanning
       /\ NewState(CoreState(n))
       /\ procs' = Store(procs, os[n].pid, Len(ps) + 1)
    /\ core' = Tail(core)
    /\ thread' = [thread EXCEPT !["kernel"] = PsIdle]
    /\ UNCHANGED <<os, internal, dirty, timers, scan, psHistory>>

WriteBlocks ==
    /\ thread["kernel"].at = "idle" /\ Unlocked
    /\ core # <<>> /\ Head(core).kind = "create"
    /\ NeedsHandles(os[Head(core).of].pid) /\ Scanning
    /\ thread' = [thread EXCEPT !["kernel"].at = "write"]
    /\ UNCHANGED <<psSystem, psMaps, scan, psHistory>>

\* Write of an internal event: a state that comes from the kernel session is
\* kept and only its token attributes change.
WriteInternal ==
    /\ thread["telemetry"].at = "idle" /\ Unlocked /\ internal # <<>>
    /\ LET n == Head(internal)
           old == Lookup(procs, os[n].pid) IN
       IF old # NoPs /\ ps[old].core
       THEN UNCHANGED <<ps, procs, revived>>
       ELSE /\ NewState(InternalState(n))
            /\ procs' = Store(procs, os[n].pid, Len(ps) + 1)
            /\ revived' = revived \cup ({n} \cap removed)
    /\ internal' = Tail(internal)
    /\ UNCHANGED <<os, core, dirty, timers, thread, scan, removed, dropped, lookups>>

NoTimer(p, n) == timers
Timer(p, n) == timers \cup {[pid |-> p, of |-> n]}

KeepParents(p) == ps
\* The states of the children lose their pointer to the parent.
ResetParents(p) ==
    [x \in DOMAIN ps |->
        IF x \in {procs[q] : q \in DOMAIN procs \ {p}} /\ ps[x].ppid = p
        THEN [ps[x] EXCEPT !.parent = NoPs] ELSE ps[x]]

DirtyAfter(p) == IF p \in DOMAIN procs THEN Store(dirty, p, procs[p]) ELSE dirty

RemovedOnce(p) == IF p \in DOMAIN dirty THEN procs ELSE Erase(procs, p)
Removed(p) == Erase(procs, p)

Remove ==
    /\ thread["kernel"].at = "idle" /\ Unlocked
    /\ core # <<>> /\ Head(core).kind = "terminate"
    /\ LET n == Head(core).of
           p == os[n].pid IN
       /\ dirty' = DirtyAfter(p)
       /\ timers' = IF p \in DOMAIN procs THEN Timer(p, n) ELSE timers
       /\ procs' = Removed(p)
       /\ ps' = ResetParents(p)
       /\ removed' = removed \cup {n}
    /\ core' = Tail(core)
    /\ UNCHANGED <<os, internal, thread, scan, revived, dropped, lookups>>

Clean(x) == Erase(dirty, x.pid)

TimerFires(x) ==
    /\ x \in timers
    /\ timers' = timers \ {x}
    /\ dirty' = Clean(x)
    /\ UNCHANGED <<psSystem, ps, procs, thread, scan, psHistory>>
-----------------------------------------------------------------------------
\* Find of a pid that is in neither map asks the system; a process that can be
\* opened gets a state, which Put stores under a lock of its own.
Absent(p) == p \notin DOMAIN procs /\ p \notin DOMAIN dirty

FindStarts(t, p) ==
    /\ thread[t].at = "idle" /\ NoWriter /\ lookups < PsLookups
    /\ Absent(p) /\ HasPid(p) # {}
    /\ \E n \in HasPid(p) :
          NewState([of |-> n, ppid |-> PidOf(os[n].parent), parent |-> NoPs, core |-> FALSE])
    /\ thread' = [thread EXCEPT ![t] =
          [at |-> IF NeedsHandles(p) /\ Scanning THEN "find" ELSE "put",
           pid |-> p, ps |-> Len(ps) + 1]]
    /\ lookups' = lookups + 1
    /\ UNCHANGED <<psSystem, procs, dirty, timers, scan, removed, revived, dropped>>

FindEnds(t) ==
    /\ thread[t].at = "find" /\ ~Scanning
    /\ thread' = [thread EXCEPT ![t].at = "put"]
    /\ UNCHANGED <<psSystem, psMaps, scan, psHistory>>

PutProcess(t) ==
    /\ thread[t].at = "put" /\ Unlocked
    /\ procs' = Store(procs, thread[t].pid, thread[t].ps)
    /\ thread' = [thread EXCEPT ![t] = PsIdle]
    /\ revived' = revived \cup ({ps[thread[t].ps].of} \cap removed)
    /\ UNCHANGED <<psSystem, ps, dirty, timers, scan, removed, dropped, lookups>>

\* gcDeadProcesses: a process that cannot be opened is skipped.
NotRunning(p) == \E n \in HasPid(p) : os[n].at = "zombie"

Collect ==
    /\ Unlocked
    /\ \E p \in DOMAIN procs : NotRunning(p)
    /\ procs' = [p \in {q \in DOMAIN procs : ~NotRunning(q)} |-> procs[p]]
    /\ UNCHANGED <<psSystem, ps, dirty, timers, thread, scan, psHistory>>
-----------------------------------------------------------------------------
\* consumeHandles at the end of the system-wide scan.
ScanStarts ==
    /\ scan.at = "wait"
    /\ scan' = [scan EXCEPT !.at = "next"]
    /\ UNCHANGED <<psSystem, psMaps, thread, psHistory>>

\* onHandleCreated reads the state under the read lock ...
ReadState(p) ==
    /\ scan.at = "next" /\ p \in scan.todo /\ NoWriter
    /\ scan' = [at |-> IF p \in DOMAIN procs THEN "add" ELSE "next",
                todo |-> scan.todo \ {p}, pid |-> p, ps |-> Lookup(procs, p)]
    /\ UNCHANGED <<psSystem, psMaps, thread, psHistory>>

\* ... and stores it again, with the handle, under the write lock.
AddHandle ==
    /\ scan.at = "add" /\ Unlocked
    /\ procs' = Store(procs, scan.pid, scan.ps)
    /\ revived' = IF Lookup(procs, scan.pid) = scan.ps THEN revived
                  ELSE revived \cup {ps[scan.ps].of}
    /\ scan' = [scan EXCEPT !.at = "next", !.ps = NoPs]
    /\ UNCHANGED <<psSystem, ps, dirty, timers, thread, removed, dropped, lookups>>

ScanEnds ==
    /\ scan.at = "next" /\ scan.todo = {}
    /\ scan' = [scan EXCEPT !.at = "done"]
    /\ UNCHANGED <<psSystem, psMaps, thread, psHistory>>

PsNext ==
    \/ \E p \in PsPid, m \in {0} \cup {n \in DOMAIN os : os[n].at = "alive"} : StartProcess(p, m)
    \/ \E n \in DOMAIN os : ExitProcess(n) \/ CloseLastHandle(n)
    \/ LoseEvent
    \/ WriteCore \/ WriteBlocks \/ WriteInternal \/ Remove
    \/ \E x \in timers : TimerFires(x)
    \/ \E t \in PsThread : FindEnds(t) \/ PutProcess(t) \/ \E p \in PsPid : FindStarts(t, p)
    \/ Collect
    \/ ScanStarts \/ AddHandle \/ ScanEnds \/ \E p \in PsScan : ReadState(p)

PsSpec == PsInit /\ [][PsNext]_psVars

\* Goroutines that can run do, and a waiter for a mutex gets it.
PsFairness ==
    /\ SF_psVars(AddHandle \/ ScanEnds \/ \E p \in PsScan : ReadState(p))
    /\ SF_psVars(WriteCore)
    /\ \A t \in PsThread : SF_psVars(FindEnds(t) \/ PutProcess(t))

PsFairSpec == PsSpec /\ PsFairness
-----------------------------------------------------------------------------
PsTypeOK ==
    /\ os \in Seq([pid : PsPid, parent : 0 .. PsMax, at : {"alive", "zombie", "gone"}])
    /\ DOMAIN procs \subseteq PsPid /\ DOMAIN dirty \subseteq PsPid
    /\ \A p \in DOMAIN procs : procs[p] \in DOMAIN ps
    /\ \A p \in DOMAIN dirty : dirty[p] \in DOMAIN ps
    /\ \A x \in DOMAIN ps : ps[x].parent \in 0 .. Len(ps) /\ ps[x].of \in DOMAIN os

\* Every state in the dirty map has a timer of its own pending that takes it out.
PsDirtyTimed ==
    \A p \in DOMAIN dirty : \E x \in timers : x.pid = p

\* A process whose TerminateProcess was handled is in the snapshot only when a
\* step that stores states overlapped with the removal or came after it: a
\* lookup of a process that still could be opened, a late internal event, or
\* the scan of handles that writes back what it had read.
PsRemovedStays ==
    \A p \in DOMAIN procs : ps[procs[p]].of \in removed => ps[procs[p]].of \in revived

\* The parent of a process in the snapshot is the process that started it, and
\* still runs as far as the kernel session has told.  It is another one with
\* the same pid only when that one started later, and a lookup or the telemetry
\* session was ahead, when that one was stored again in place of its successor,
\* or when events were dropped; it has ended only when one of the two was
\* stored again after it had left the snapshot.
PsParent ==
    \A p \in DOMAIN procs :
        LET s == ps[procs[p]]
            q == ps[s.parent].of
        IN s.parent # NoPs =>
             /\ q = os[s.of].parent \/ q > s.of \/ q \in revived \/ dropped # 0
             /\ q \in removed => q \in revived \/ s.of \in revived

\* A process whose end was handled leaves the snapshot for good, and then the
\* dirty map, which has a timer for each state that it keeps; and no process
\* that is still there has it, or one with its pid, for a parent by mistake.
PsConsistent == PsRemovedStays /\ PsDirtyTimed /\ PsParent

\* The mutex of the snapshotter is held across a wait for the handle snapshotter
\* by one writer alone or by readers, only with EnumerateHandles and after the
\* initial scan began; and the write that waits still has its event, so that
\* nothing but the scan keeps it from going on (Write, Find, FindHandles).
PsLocks ==
    \A t \in PsThread :
       /\ thread[t].at \in {"write", "find"} => PsEnumerate /\ scan.at # "wait"
       /\ thread[t].at = "write" =>
             /\ \A u \in PsThread \ {t} : thread[u].at \notin {"write", "find"}
             /\ t = "kernel" /\ core # <<>> /\ Head(core).kind = "create"

\* The scan of handles ends: comment in consumeHandles, "for safety reasons
\* related to deadlocks we are skipping file handles for Rundown/Create process
\* events, we'll send these handles after initial system-wide scan has completed".
PsScanEnds == scan.at = "next" ~> scan.at = "done"
=============================================================================
