---------------------------- MODULE FsProcessor ----------------------------
(***************************************************************************)
(* The file system processor (internal/etw/processors/fs_windows.go).      *)
(* The system opens files: each operation has an I/O request packet, a     *)
(* file object, a file key and a thread, whose addresses are used again,   *)
(* and produces a CreateFile event, its StackWalk, a FileOpEnd, the events *)
(* of the open file and a ReleaseFile.  ETW may drop any of them.  The     *)
(* processor holds CreateFile back until FileOpEnd comes, takes the        *)
(* callstack from the thread's bucket and remembers the path of the file   *)
(* object; a rundown names the files by their keys.  A goroutine evicts    *)
(* callstacks after 30 seconds.  The number of an operation stands for its *)
(* path, its callstack and the result in its FileOpEnd; the files that are *)
(* open at one time are different ones.                                    *)
(***************************************************************************)
EXTENDS Naturals, Sequences, FiniteSets

CONSTANTS
    FsOps,     \* bound: operations of the system
    FsIrp,     \* addresses of I/O request packets
    FsObject,  \* addresses of file objects and file keys
    FsThread,  \* stack ids
    FsLosses,  \* bound: events that ETW drops
    FsOthers   \* bound: StackWalk events of other events

ASSUME FsAssumption == FsOps \in Nat /\ FsLosses \in Nat /\ FsOthers \in Nat

VARIABLES
    op,        \* the operations so far: [at, irp, obj, key, tid]
    files,     \* file object or key -> operation whose path it has
    irps,      \* I/O request packet -> operation whose CreateFile waits
    buckets,   \* stack id -> callstacks, latest last: [of, old], of = 0 for others
    sent,      \* operation -> [end, stack] that its CreateFile was sent on with
    path,      \* operation -> operations whose path its later events got
    lost,      \* history: events dropped, <<kind, operation>>
    others,    \* history: the number of other StackWalk events
    buried,    \* history: operations whose callstack was evicted or covered
    rejected,  \* history: operations with a disposition out of range
    named,     \* history: operations whose file a rundown has named
    deleted    \* history: operations whose file was deleted

fsState == <<files, irps, buckets, sent, path>>
fsHistory == <<lost, others, buried, rejected, named, deleted>>
fsVars == <<op, fsState, fsHistory>>

\* A map without a key, and a map with one more.
Without(f, x) == [y \in DOMAIN f \ {x} |-> f[y]]
With(f, x, v) == [y \in DOMAIN f \cup {x} |-> IF y = x THEN v ELSE f[y]]

FsInit ==
    /\ op = <<>>
    /\ files = <<>> /\ irps = <<>> /\ sent = <<>>
    /\ buckets = [t \in FsThread |-> <<>>]
    /\ path = [n \in 1 .. FsOps |-> {}]
    /\ lost = {} /\ others = 0 /\ buried = {} /\ rejected = {} /\ named = {} /\ deleted = {}
-----------------------------------------------------------------------------
\* A thread has one operation in flight; its packet is free again when the
\* operation ends, its file object and file key when the file is released.
InFlight(n) == op[n].at \in {"create", "end"}
HasObject(n) == op[n].at \in {"create", "end", "open"}
Step(n, at) == op' = [op EXCEPT ![n].at = at]

\* ETW drops the event of kind k of operation n.
Drop(k, n) ==
    /\ Cardinality(lost) < FsLosses
    /\ lost' = lost \cup {<<k, n>>}

\* CreateFile waits for the end of its operation.
CreateFile(i, o, a, t) ==
    /\ Len(op) < FsOps /\ a # o
    /\ \A n \in DOMAIN op :
          /\ InFlight(n) => op[n].irp # i /\ op[n].tid # t
          /\ HasObject(n) => {op[n].obj, op[n].key} \cap {o, a} = {}
    /\ op' = Append(op, [at |-> "create", irp |-> i, obj |-> o, key |-> a, tid |-> t])
    /\ LET n == Len(op) + 1 IN
       \/ irps' = With(irps, i, n) /\ UNCHANGED lost
       \/ Drop("create", n) /\ UNCHANGED irps
    /\ UNCHANGED <<files, buckets, sent, path, others, buried, rejected, named, deleted>>

\* The callstack of CreateFile comes before any other event of the thread.
StackWalk(n) ==
    /\ op[n].at = "create"
    /\ Step(n, "end")
    /\ \/ /\ buckets' = [buckets EXCEPT ![op[n].tid] = Append(@, [of |-> n, old |-> FALSE])]
          /\ UNCHANGED lost
       \/ Drop("walk", n) /\ UNCHANGED buckets
    /\ UNCHANGED <<files, irps, sent, path, others, buried, rejected, named, deleted>>

\* The callstack of an event that is no CreateFile; the bucket is shared.
OtherWalk(t) ==
    /\ others < FsOthers
    /\ others' = others + 1
    /\ buckets' = [buckets EXCEPT ![t] = Append(@, [of |-> 0, old |-> FALSE])]
    /\ buried' = buried \cup {n \in DOMAIN op : op[n].at = "end" /\ op[n].tid = t}
    /\ UNCHANGED <<op, files, irps, sent, path, lost, rejected, named, deleted>>

OldestStack(q) == IF q = <<>> THEN 0 ELSE q[1].of
TopStack(q) == IF q = <<>> THEN 0 ELSE q[Len(q)].of
Popped(q) == IF q = <<>> THEN <<>> ELSE SubSeq(q, 1, Len(q) - 1)

KeepPending(i) == irps
TakePending(i) == Without(irps, i)

EndUnlessKnown(n) ==
    IF op[n].irp \notin DOMAIN irps \/ op[n].obj \in DOMAIN files THEN UNCHANGED fsState
    ELSE /\ irps' = TakePending(op[n].irp)
         /\ sent' = With(sent, irps[op[n].irp], [end |-> n, stack |-> n])
         /\ files' = With(files, op[n].obj, irps[op[n].irp])
         /\ UNCHANGED <<buckets, path>>

\* What FileOpEnd of operation n does: the CreateFile event ev that waits for
\* its packet goes on with the result and with the latest callstack of its
\* thread; the path of ev is remembered unless its file object has one.
EndOperation(n) ==
    IF op[n].irp \notin DOMAIN irps THEN UNCHANGED fsState
    ELSE LET ev == irps[op[n].irp]
             t  == op[ev].tid
             o  == op[ev].obj
         IN /\ irps' = TakePending(op[n].irp)
            /\ files' = IF o \in DOMAIN files THEN files ELSE With(files, o, ev)
            /\ sent' = With(sent, ev, [end |-> n, stack |-> TopStack(buckets[t])])
            /\ buckets' = [buckets EXCEPT ![t] = Popped(@)]
            /\ UNCHANGED path

\* An open that fails leaves no file, so nothing will be released.
FileOpEnd(n) ==
    /\ op[n].at = "end"
    /\ \E at \in {"open", "failed"} : Step(n, at)
    /\ \/ EndOperation(n) /\ UNCHANGED <<lost, rejected>>
       \/ rejected' = rejected \cup {n} /\ UNCHANGED <<fsState, lost>>
       \/ Drop("end", n) /\ UNCHANGED <<fsState, rejected>>
    /\ UNCHANGED <<others, buried, named, deleted>>

\* findFile: by the file key, by the file object, and in the handle snapshot,
\* which may still have a handle of an earlier file of the object.
FindFile(n) ==
    LET a == op[n].key
        o == op[n].obj IN
    IF a \in DOMAIN files THEN {files[a]}
    ELSE IF o \in DOMAIN files THEN {files[o]}
    ELSE {m \in DOMAIN op : op[m].obj = o /\ op[m].at \in {"open", "released"}}

\* A mapped file has no file object; without its key the system is asked.
FindMapped(n) == IF op[n].key \in DOMAIN files THEN {files[op[n].key]} ELSE {n}

Given(n, m) == path' = [path EXCEPT ![n] = @ \cup {m}]

\* A read, write, mapping or other event of the open file, which has no path.
FileEvent(n) ==
    /\ op[n].at = "open"
    /\ \E m \in FindFile(n) \cup FindMapped(n) : Given(n, m)
    /\ UNCHANGED <<op, files, irps, buckets, sent, fsHistory>>

\* The rundown names the files opened before the session, by their keys: no
\* CreateFile came.
FileRundown(n) ==
    /\ op[n].at = "open" /\ <<"create", n>> \in lost /\ op[n].key \notin DOMAIN files
    /\ files' = With(files, op[n].key, n)
    /\ named' = named \cup {n}
    /\ UNCHANGED <<op, irps, buckets, sent, path, lost, others, buried, rejected, deleted>>

\* The file is deleted; its object lives on.
DeleteFile(n) ==
    /\ op[n].at = "open"
    /\ UNCHANGED path \/ \E m \in FindFile(n) : Given(n, m)
    /\ files' = Without(files, op[n].obj)
    /\ deleted' = deleted \cup {n}
    /\ UNCHANGED <<op, irps, buckets, sent, lost, others, buried, rejected, named>>

KeepFile(o) == files
ForgetFile(o) == Without(files, o)

ReleaseFile(n) ==
    /\ op[n].at = "open"
    /\ Step(n, "released")
    /\ \/ files' = ForgetFile(op[n].obj) /\ UNCHANGED lost
       \/ Drop("release", n) /\ UNCHANGED files
    /\ UNCHANGED <<irps, buckets, sent, path, others, buried, rejected, named, deleted>>
-----------------------------------------------------------------------------
\* Time passes: the callstacks of a bucket up to number m are 30 seconds old.
Aged(q, m) == [j \in DOMAIN q |-> [q[j] EXCEPT !.old = @ \/ j <= m]]

FsAge(t, m) ==
    /\ m \in DOMAIN buckets[t] /\ ~buckets[t][m].old
    /\ buckets' = [buckets EXCEPT ![t] = Aged(@, m)]
    /\ UNCHANGED <<op, files, irps, sent, path, fsHistory>>

\* What the purger keeps of a bucket: the callstacks that are not old, which
\* come after the old ones, since they arrive in the order of their times.
Young(q) == SubSeq(q, Cardinality({j \in DOMAIN q : q[j].old}) + 1, Len(q))

Purge ==
    /\ buckets' = [t \in FsThread |-> Young(buckets[t])]
    /\ buckets' # buckets
    /\ buried' = buried \cup {n \in DOMAIN op :
          \E t \in FsThread, w \in [of : {n}, old : {TRUE}] :
             \E j \in DOMAIN buckets[t] : buckets[t][j] = w}
    /\ UNCHANGED <<op, files, irps, sent, path, lost, others, rejected, named, deleted>>

FsNext ==
    \/ \E i \in FsIrp, o, a \in FsObject, t \in FsThread : CreateFile(i, o, a, t)
    \/ \E n \in DOMAIN op :
          \/ StackWalk(n) \/ FileOpEnd(n) \/ FileEvent(n)
          \/ FileRundown(n) \/ DeleteFile(n) \/ ReleaseFile(n)
    \/ \E t \in FsThread : OtherWalk(t) \/ \E m \in DOMAIN buckets[t] : FsAge(t, m)
    \/ Purge

FsSpec == FsInit /\ [][FsNext]_fsVars
-----------------------------------------------------------------------------
FsTypeOK ==
    /\ op \in Seq([at : {"create", "end", "open", "failed", "released"},
                   irp : FsIrp, obj : FsObject, key : FsObject, tid : FsThread])
    /\ DOMAIN files \subseteq FsObject /\ DOMAIN irps \subseteq FsIrp
    /\ \A o \in DOMAIN files : files[o] \in DOMAIN op
    /\ \A i \in DOMAIN irps : irps[i] \in DOMAIN op
    /\ DOMAIN sent \subseteq DOMAIN op

Lost(k, n) == <<k, n>> \in lost

\* The CreateFile event n went on with the end of another operation.
Astray(n) == n \in DOMAIN sent /\ sent[n].end # n

\* A CreateFile event goes on with the result of its own operation.  It gets
\* that of another only when its own FileOpEnd was dropped or rejected and the
\* CreateFile of the operation that took over its packet was dropped too.
FsPaired ==
    \A n \in DOMAIN sent :
        LET m == sent[n].end IN
        m # n => (Lost("end", n) \/ n \in rejected) /\ Lost("create", m)

\* A CreateFile event gets its own callstack: another one, or none, only when
\* its StackWalk was dropped, another StackWalk of the bucket came after it,
\* it was evicted, or the event went on with another operation's end; an event
\* that does so may also take the callstack of its thread's next operation.
FsOwnStack ==
    \A n \in DOMAIN sent :
        sent[n].stack # n =>
            \/ Lost("walk", n) \/ n \in buried \/ Astray(n)
            \/ \E m \in DOMAIN sent : Astray(m) /\ sent[m].stack = n

\* A CreateFile event that arrived and whose operation ended was sent on,
\* unless its FileOpEnd was dropped or its disposition was out of range.
FsForwarded ==
    \A n \in DOMAIN op :
        op[n].at \in {"open", "failed", "released"} /\ n \notin DOMAIN sent =>
            Lost("create", n) \/ Lost("end", n) \/ n \in rejected

\* The processor never knew the path of n, or has forgotten it.
Unknown(n) == Lost("create", n) \/ Lost("end", n) \/ n \in rejected \/ n \in deleted

\* Later events of a file get its own path.  They get the path of a file that
\* had its object or key earlier only if that open failed, its ReleaseFile was
\* dropped, its CreateFile event went on after its own end, or a rundown had
\* named it, which nothing undoes; or, for a file the processor does not know,
\* if its handle is still in the handle snapshot.
FsOwnPath ==
    \A n \in DOMAIN op : \A m \in path[n] :
        m # n =>
            \/ op[m].at = "failed" \/ Lost("release", m) \/ Astray(m) \/ m \in named
            \/ Unknown(n) /\ op[m].obj = op[n].obj

\* Every CreateFile event goes on, once its operation ended, with the result,
\* the callstack and the path of its own operation, whatever packets, objects
\* and threads are used again: only the faults that the parts name, dropped
\* events above all, lead to another.
FsAttributed == FsPaired /\ FsOwnStack /\ FsForwarded /\ FsOwnPath
=============================================================================
