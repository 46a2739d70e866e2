---------------------------- MODULE YaraScanner ----------------------------
(***************************************************************************)
(* The scans of processes that allocate or map executable and writable     *)
(* memory (pkg/yara/scanner.go).  A process that matched once is spared    *)
(* from then on: the maps rwxs and mmaps hold its pid until its            *)
(* TerminateProcess event.  That event and MapViewFile reach the scanner   *)
(* from the consumer in the order of the trace; a VirtualAlloc is held     *)
(* back for its callstack and reaches it later, from the consumer or from  *)
(* the flusher of the queue.  Nothing guards the maps: each access is a    *)
(* step here, and that Go may stop the program when two coincide is left   *)
(* out, as are the scans that leave no state.                              *)
(***************************************************************************)
EXTENDS Naturals, Sequences, FiniteSets

CONSTANTS
    YsPid,      \* process identifiers
    YsProcs,    \* bound: processes that are started
    YsEvents,   \* bound: memory events
    YsLosses    \* bound: termination events that ETW drops

ASSUME YsAssumption == YsProcs \in Nat /\ YsEvents \in Nat /\ YsLosses \in Nat

VARIABLES
    ysProcs,    \* the processes started: their pids and whether they run
    trace,      \* events on their way to the consumer
    held,       \* process -> its VirtualAlloc events in the callstack decorator
    matched,    \* rwxs and mmaps, with the process instead of the address
    ysScan,     \* what an actor scans for, <<>> if it does not
    spared,     \* history: events not scanned, and the process in the map
    alerts,     \* history: process -> kind -> matches that were emitted
    touched,    \* history: the number of memory events
    ended,      \* history: processes whose termination was handled
    ysLost,     \* history: processes whose termination was dropped
    ysLate      \* history: processes that matched after they had ended

ysVars == <<ysProcs, trace, held, matched, ysScan, spared, alerts, touched, ended,
            ysLost, ysLate>>

Kind == {"rwx", "mmap"}
Actor == {"consumer", "flusher"}

\* NewScanner.
YsInit ==
    /\ ysProcs = <<>> /\ trace = <<>>
    /\ held = [n \in 1 .. YsProcs |-> 0]
    /\ matched = [k \in Kind |-> [p \in YsPid |-> 0]]
    /\ ysScan = [a \in Actor |-> <<>>]
    /\ alerts = [n \in 1 .. YsProcs |-> [k \in Kind |-> 0]]
    /\ spared = {} /\ touched = 0 /\ ended = {} /\ ysLost = {} /\ ysLate = {}

YsHistory == <<spared, alerts, touched, ended, ysLost, ysLate>>
-----------------------------------------------------------------------------
\* Windows.  A pid is used again only after its process has ended.
Launch(p) ==
    /\ Len(ysProcs) < YsProcs
    /\ \A n \in DOMAIN ysProcs : ysProcs[n].pid = p => ~ysProcs[n].runs
    /\ ysProcs' = Append(ysProcs, [pid |-> p, runs |-> TRUE])
    /\ UNCHANGED <<trace, held, matched, ysScan, YsHistory>>

Finish(n) ==
    /\ ysProcs[n].runs
    /\ ysProcs' = [ysProcs EXCEPT ![n].runs = FALSE]
    /\ \/ /\ trace' = Append(trace, [type |-> "terminate", n |-> n])
          /\ UNCHANGED ysLost
       \/ /\ Cardinality(ysLost) < YsLosses
          /\ ysLost' = ysLost \cup {n}
          /\ UNCHANGED trace
    /\ UNCHANGED <<held, matched, ysScan, spared, alerts, touched, ended, ysLate>>

Touch(n, k) ==
    /\ ysProcs[n].runs /\ touched < YsEvents
    /\ trace' = Append(trace, [type |-> k, n |-> n])
    /\ touched' = touched + 1
    /\ UNCHANGED <<ysProcs, held, matched, ysScan, spared, alerts, ended, ysLost, ysLate>>
-----------------------------------------------------------------------------
\* Only the allocations are forgotten.
CleanRwxOnly(m, p) == [m EXCEPT !["rwx"][p] = 0]

CleanMatches(m, p) == [k \in Kind |-> [m[k] EXCEPT ![p] = 0]]

\* ProcessEvent for TerminateProcess.
Terminated ==
    /\ ysScan["consumer"] = <<>> /\ trace # <<>> /\ Head(trace).type = "terminate"
    /\ matched' = CleanMatches(matched, ysProcs[Head(trace).n].pid)
    /\ ended' = ended \cup {Head(trace).n}
    /\ trace' = Tail(trace)
    /\ UNCHANGED <<ysProcs, held, ysScan, spared, alerts, touched, ysLost, ysLate>>

\* The decorator keeps a VirtualAlloc.
Hold ==
    /\ ysScan["consumer"] = <<>> /\ trace # <<>> /\ Head(trace).type = "rwx"
    /\ held' = [held EXCEPT ![Head(trace).n] = @ + 1]
    /\ trace' = Tail(trace)
    /\ UNCHANGED <<ysProcs, matched, ysScan, YsHistory>>

\* isMmapMatched looks into the map of isRwxMatched.
MatchedRwx(k, p) == matched["rwx"][p]

\* isRwxMatched and isMmapMatched, 0 if not.
Matched(k, p) == matched[k][p]

\* The scanner gets an event and asks whether the process has matched.
Begin(a, k, n) ==
    LET by == Matched(k, ysProcs[n].pid) IN
    \/ /\ by # 0
       /\ spared' = spared \cup {[kind |-> k, n |-> n, by |-> by]}
       /\ UNCHANGED ysScan
    \/ /\ by = 0
       /\ ysScan' = [ysScan EXCEPT ![a] = <<[kind |-> k, n |-> n]>>]
       /\ UNCHANGED spared

MapView ==
    /\ ysScan["consumer"] = <<>> /\ trace # <<>> /\ Head(trace).type = "mmap"
    /\ trace' = Tail(trace)
    /\ Begin("consumer", "mmap", Head(trace).n)
    /\ UNCHANGED <<ysProcs, held, matched, alerts, touched, ended, ysLost, ysLate>>

\* A held event is released with its callstack or by the flusher.
Allocated(a, n) ==
    /\ ysScan[a] = <<>> /\ held[n] > 0
    /\ held' = [held EXCEPT ![n] = @ - 1]
    /\ Begin(a, "rwx", n)
    /\ UNCHANGED <<ysProcs, trace, matched, alerts, touched, ended, ysLost, ysLate>>

\* The scan fails, finds nothing or the process is not to be scanned.
ScanEmpty(a) ==
    /\ ysScan[a] # <<>>
    /\ ysScan' = [ysScan EXCEPT ![a] = <<>>]
    /\ UNCHANGED <<ysProcs, trace, held, matched, YsHistory>>

\* A match is stored and then emitted, which a sender may fail to do.  The
\* process of an allocation is scanned by its pid, which it must have, or a
\* later one.
ScanMatches(a) ==
    /\ ysScan[a] # <<>>
    /\ LET k == ysScan[a][1].kind
           n == ysScan[a][1].n
       IN /\ k = "rwx" => \E x \in DOMAIN ysProcs : ysProcs[x].pid = ysProcs[n].pid /\ ysProcs[x].runs
          /\ matched' = [matched EXCEPT ![k][ysProcs[n].pid] = n]
          /\ ysLate' = IF n \in ended THEN ysLate \cup {n} ELSE ysLate
          /\ alerts' \in {alerts, [alerts EXCEPT ![n][k] = @ + 1]}
    /\ ysScan' = [ysScan EXCEPT ![a] = <<>>]
    /\ UNCHANGED <<ysProcs, trace, held, spared, touched, ended, ysLost>>

YsNext ==
    \/ \E p \in YsPid : Launch(p)
    \/ \E n \in DOMAIN ysProcs : Finish(n) \/ \E k \in Kind : Touch(n, k)
    \/ Terminated \/ Hold \/ MapView
    \/ \E a \in Actor : (\E n \in DOMAIN ysProcs : Allocated(a, n)) \/ ScanEmpty(a) \/ ScanMatches(a)

YsSpec == YsInit /\ [][YsNext]_ysVars
-----------------------------------------------------------------------------
\* A process is spared because it matched itself, and not because of an
\* earlier process with its pid, unless the termination of that one was
\* dropped or, for allocations only, that one matched after it had ended: its
\* VirtualAlloc was held back, or scanned while its entry was removed.  An
\* allocation held back for longer may be spared for a later process.
YsSpared ==
    \A x \in spared :
        \/ x.by = x.n \/ x.by \in ysLost
        \/ x.kind = "rwx" /\ (x.by \in ysLate \/ (x.by > x.n /\ ~ysProcs[x.n].runs))

\* A process is alerted for mappings once.  For allocations it is alerted once
\* more at most, when the consumer and the flusher scan it at the same time,
\* unless it matched after it had ended or its termination was dropped, so that
\* its entry goes with that of a later process.
YsAlerted ==
    \A n \in DOMAIN ysProcs :
        /\ alerts[n]["mmap"] <= 1
        /\ n \in ysLate \cup ysLost \/ alerts[n]["rwx"] <= Cardinality(Actor)

\* Which processes have matched is remembered for them and not for others with
\* their pids, as far as the order of the events allows.
YsMatches == YsSpared /\ YsAlerted
=============================================================================
