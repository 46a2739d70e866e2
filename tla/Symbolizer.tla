----------------------------- MODULE Symbolizer -----------------------------
(***************************************************************************)
(* The symbolizer (pkg/symbolize/symbolizer.go) and its caches.  The       *)
(* system starts and ends processes, whose pids are used again, and maps   *)
(* and unmaps modules at one base address.  The symbolizer sees the        *)
(* UnloadImage and TerminateProcess events unless ETW drops them; an event *)
(* with a callstack may have waited in the queue, so that its frames are   *)
(* produced later, also after the end of its process.  The callstack of a  *)
(* CreateProcess event is that of the parent, or of the process on whose   *)
(* behalf the parent acts, while the event has the pid and the state of    *)
(* the new process; the start address of a thread is symbolized for the    *)
(* process it is created in, with the state of the process that creates    *)
(* it.  A symbol comes from the cache, from the module of a process state  *)
(* and its exports, or from the Debug Help functions through a handle that *)
(* is kept open.  The number of a module stands for its name, its exports  *)
(* and its symbols.                                                        *)
(***************************************************************************)
EXTENDS Naturals, Sequences, FiniteSets

CONSTANTS
    SyPid,      \* process ids
    SyAddr,     \* addresses in the region of the module, SyBase the first
    SyBase,
    SyStarts,   \* bound: processes started; process n is the n-th
    SyLoads,    \* bound: modules mapped; module m is the m-th
    SyStacks,   \* bound: events with a callstack
    SyLosses    \* bound: events that are dropped

ASSUME SyAssumption ==
    /\ SyBase \in SyAddr
    /\ SyStarts \in Nat /\ SyLoads \in Nat /\ SyStacks \in Nat /\ SyLosses \in Nat

VARIABLES
    life,      \* the processes of the system: [pid, alive, mod, parent], 0 for none
    loads,     \* the number of modules mapped so far
    walks,     \* the addresses of events: [ev, of, addr, state, start, done], with
               \* the process of the event and the process of the address
    symProcs,  \* pid -> handle, an index of handles
    mods,      \* pid -> module whose exports are cached
    symbols,   \* <<pid, address>> -> [of, mod, exp]: whose address it was, the
               \* module and the module of the exports that gave the symbol
    handles,   \* the handles opened so far: [of, open]
    leaked,    \* handles whose symbol handler could not be initialized
    shutdown,  \* Close was called
    unloaded,  \* history: modules whose UnloadImage pruned the caches
    symLost,   \* history: processes and modules whose last event was dropped
    lateFrames,  \* history: processes with frames produced after their end
    borrowed   \* history: <<pid, module>>, the modules that were taken for those
               \* of a process and are of its parent or of the one it creates

syOs == <<life, loads>>
syCaches == <<mods, symbols>>
syHandles == <<symProcs, handles, leaked>>
syHistory == <<unloaded, symLost, lateFrames, borrowed>>
syVars == <<syOs, walks, syCaches, syHandles, shutdown, syHistory>>

But(f, S) == [x \in DOMAIN f \ S |-> f[x]]
Plus(f, x, v) == [y \in DOMAIN f \cup {x} |-> IF y = x THEN v ELSE f[y]]
HandleOf == {symProcs[p] : p \in DOMAIN symProcs}

SyInit ==
    /\ life = <<>> /\ loads = 0 /\ walks = <<>>
    /\ symProcs = <<>> /\ mods = <<>> /\ symbols = <<>>
    /\ handles = <<>> /\ leaked = {} /\ shutdown = FALSE
    /\ unloaded = {} /\ symLost = {} /\ lateFrames = {} /\ borrowed = {}
-----------------------------------------------------------------------------
\* The system.
Running(p) == {n \in DOMAIN life : life[n].pid = p /\ life[n].alive}

Stack(n, m, a, state, start) ==
    [ev |-> n, of |-> m, addr |-> a, state |-> state, start |-> start, done |-> FALSE]

\* A process with pid p and parent q starts, 0 for one that is not known.
Born(p, q) ==
    /\ Len(life) < SyStarts /\ Running(p) = {} /\ (q # 0 => life[q].alive)
    /\ life' = Append(life, [pid |-> p, alive |-> TRUE, mod |-> 0, parent |-> q])
    /\ UNCHANGED <<loads, syCaches, syHandles, shutdown, syHistory>>

Start(p, q) == Born(p, q) /\ UNCHANGED walks

\* The CreateProcess event has a callstack, of the parent or of process m on
\* whose behalf it acts, and the process state of the new process.
StartWalked(p, q, m, a) ==
    /\ Born(p, q) /\ life[m].alive /\ Len(walks) < SyStacks
    /\ walks' = Append(walks, Stack(Len(life) + 1, m, a, TRUE, FALSE))

Load(n) ==
    /\ life[n].alive /\ life[n].mod = 0 /\ loads < SyLoads
    /\ loads' = loads + 1
    /\ life' = [life EXCEPT ![n].mod = loads + 1]
    /\ UNCHANGED <<walks, syCaches, syHandles, shutdown, syHistory>>

\* Another event with a callstack; with the process state of its process or not.
Walk(n, a, state) ==
    /\ life[n].alive /\ Len(walks) < SyStacks
    /\ walks' = Append(walks, Stack(n, n, a, state, FALSE))
    /\ UNCHANGED <<syOs, syCaches, syHandles, shutdown, syHistory>>

\* Process n creates a thread in process m, or submits a callback, which starts
\* at the address a of m.
StartAddress(n, m, a) ==
    /\ life[n].alive /\ life[m].alive /\ Len(walks) < SyStacks
    /\ walks' = Append(walks, Stack(n, m, a, TRUE, TRUE))
    /\ UNCHANGED <<syOs, syCaches, syHandles, shutdown, syHistory>>
-----------------------------------------------------------------------------
ExportsKept(p) == mods
ExportsPruned(p) == But(mods, {p})

\* syncModules: a module whose exports are cached is forgotten; of the symbols
\* in its range only the one at the base address is deleted.
SyncModules(p, m) ==
    IF p \in DOMAIN mods
    THEN /\ mods' = ExportsPruned(p)
         /\ symbols' = But(symbols, {<<p, SyBase>>})
         /\ unloaded' = unloaded \cup {m}
    ELSE UNCHANGED <<syCaches, unloaded>>

UnloadImage(n) ==
    /\ life[n].alive /\ life[n].mod # 0
    /\ life' = [life EXCEPT ![n].mod = 0]
    /\ SyncModules(life[n].pid, life[n].mod)
    /\ UNCHANGED <<loads, walks, syHandles, shutdown, symLost, lateFrames, borrowed>>

SymbolsKept(p) == symbols
SymbolsForgotten(p) == But(symbols, {p} \X SyAddr)

\* CloseHandle of the handles in H.
CloseHandles(H) == handles' = [h \in DOMAIN handles |->
    IF h \in H THEN [handles[h] EXCEPT !.open = FALSE] ELSE handles[h]]

Release(P) ==
    /\ CloseHandles({symProcs[p] : p \in P \cap DOMAIN symProcs})
    /\ symProcs' = But(symProcs, P)

TerminateProcess(n) ==
    /\ life[n].alive
    /\ life' = [life EXCEPT ![n].alive = FALSE]
    /\ mods' = But(mods, {life[n].pid})
    /\ symbols' = SymbolsForgotten(life[n].pid)
    /\ Release({life[n].pid})
    /\ UNCHANGED <<loads, walks, leaked, shutdown, syHistory>>

\* ETW drops the UnloadImage or the TerminateProcess event.
Dropped(n) ==
    /\ life[n].alive /\ Cardinality(symLost) < SyLosses
    /\ \/ /\ life[n].mod # 0
          /\ symLost' = symLost \cup {<<"module", life[n].mod>>}
          /\ life' = [life EXCEPT ![n].mod = 0]
       \/ /\ symLost' = symLost \cup {<<"process", n>>}
          /\ life' = [life EXCEPT ![n].alive = FALSE]
    /\ UNCHANGED <<loads, walks, syCaches, syHandles, shutdown, unloaded, lateFrames, borrowed>>
-----------------------------------------------------------------------------
Cached(p, a) == <<p, a>> \in DOMAIN symbols

\* A handle for pid p: the one that is kept, or a new one of the process that
\* has the pid now.  A handle stays open when its symbol handler cannot be
\* initialized; of the handles opened, the first k are such handles.
HandleKept(p) == p \in DOMAIN symProcs /\ UNCHANGED syHandles

OpenHandles(p, count, k) ==
    /\ p \notin DOMAIN symProcs /\ (count > 0 => Running(p) # {})
    /\ handles' = handles \o
          [i \in 1 .. count |-> [of |-> CHOOSE n \in Running(p) : TRUE, open |-> TRUE]]
    /\ leaked' = leaked \cup (Len(handles) + 1 .. Len(handles) + k)

HandleOpened(p, tries) ==
    \E k \in 0 .. tries - 1 :
        /\ OpenHandles(p, k + 1, k)
        /\ symProcs' = Plus(symProcs, p, Len(handles'))

HandleFails(p, tries) ==
    \E k \in 0 .. tries : OpenHandles(p, k, k) /\ UNCHANGED symProcs

CacheSymbol(p, a, s) == symbols' = Plus(symbols, <<p, a>>, s)

Walked(i) ==
    /\ ~walks[i].done
    /\ walks' = [walks EXCEPT ![i].done = TRUE]
    /\ lateFrames' = IF life[walks[i].of].alive THEN lateFrames ELSE lateFrames \cup {walks[i].of}
    /\ UNCHANGED <<syOs, shutdown, unloaded, symLost>>

\* The frame is in the cache.  Without a process state the handle is opened
\* or kept all the same.
FrameFromCache(i) ==
    LET e == walks[i]
        p == life[e.of].pid IN
    /\ Walked(i) /\ ~e.start /\ Cached(p, e.addr)
    /\ IF e.state THEN UNCHANGED syHandles
       ELSE HandleKept(p) \/ HandleOpened(p, 1) \/ HandleFails(p, 1)
    /\ UNCHANGED <<syCaches, borrowed>>

\* The module at the address, of the state of process n or else of its parent.
ModuleOf(n) ==
    IF life[n].mod # 0 \/ life[n].parent = 0 THEN life[n].mod ELSE life[life[n].parent].mod

\* The process states a frame may be resolved with: that of the event, or of
\* the process whose callstack it is if the parent acts on its behalf.
States(e) == IF e.of \in {e.ev, life[e.ev].parent} THEN {e.ev} ELSE {e.ev, e.of}

\* The exports of module m are looked up by the pid of the callstack and the
\* base address, and cached under the pid of the event.
Exports(p, m) == IF p \in DOMAIN mods THEN mods[p] ELSE m

CacheModule(p, q, m) ==
    mods' = IF p \in DOMAIN mods \/ q \in DOMAIN mods THEN mods ELSE Plus(mods, q, m)

Borrow(e, m) ==
    borrowed' = IF m = 0 \/ (e.of = e.ev /\ m = life[e.ev].mod) THEN borrowed
                ELSE borrowed \cup ({life[e.of].pid, life[e.ev].pid} \X {m})

\* The module of the process state, and the symbol from its exports.
FrameFromState(i) ==
    LET e == walks[i]
        p == life[e.of].pid IN
    /\ Walked(i) /\ ~e.start /\ ~Cached(p, e.addr) /\ e.state
    /\ \E m \in {ModuleOf(n) : n \in States(e)} \ {0} :
          /\ CacheModule(p, life[e.ev].pid, m)
          /\ CacheSymbol(p, e.addr, [of |-> e.of, mod |-> m, exp |-> Exports(p, m)])
          /\ Borrow(e, m)
    /\ UNCHANGED syHandles

\* The Debug Help functions, because there is no process state, no module in
\* it, or its exports do not have the symbol.  Without a process state
\* processCallstack has tried to open the process before produceFrame does.
FrameFromHandle(i) ==
    LET e == walks[i]
        p == life[e.of].pid
        tries == IF e.state THEN 1 ELSE 2 IN
    /\ Walked(i) /\ ~e.start /\ ~Cached(p, e.addr)
    /\ \E m \in IF e.state THEN {ModuleOf(n) : n \in States(e)} ELSE {0} :
          /\ IF m # 0 THEN CacheModule(p, life[e.ev].pid, m) ELSE UNCHANGED mods
          /\ Borrow(e, m)
          /\ \/ /\ HandleKept(p) \/ HandleOpened(p, tries)
                /\ LET n == handles'[symProcs'[p]].of IN
                   CacheSymbol(p, e.addr, [of |-> n, exp |-> 0,
                                           mod |-> IF m # 0 THEN m ELSE life[n].mod])
             \/ /\ HandleFails(p, tries)
                /\ CacheSymbol(p, e.addr, [of |-> e.of, mod |-> m, exp |-> 0])

\* symbolizeAddress: a symbol from the cache, unless it is empty; from the
\* exports of the module, found by name; or from the Debug Help functions,
\* and then nothing is cached if the process cannot be opened.
SymbolizeAddress(i) ==
    LET e == walks[i]
        p == life[e.of].pid
        m == ModuleOf(e.ev) IN
    /\ Walked(i) /\ e.start
    /\ \/ Cached(p, e.addr) /\ UNCHANGED <<symbols, syHandles>>
       \/ /\ ~Cached(p, e.addr) /\ m # 0
          /\ CacheSymbol(p, e.addr, [of |-> e.of, mod |-> m, exp |-> m])
          /\ UNCHANGED syHandles
       \/ /\ HandleKept(p) \/ HandleOpened(p, 1)
          /\ LET n == handles'[symProcs'[p]].of IN
             IF Cached(p, e.addr) THEN UNCHANGED symbols
             ELSE CacheSymbol(p, e.addr, [of |-> n, exp |-> 0, mod |-> life[n].mod])
       \/ HandleFails(p, 1) /\ UNCHANGED symbols
    /\ UNCHANGED <<mods, borrowed>>
-----------------------------------------------------------------------------
CloseOnly(P) == /\ CloseHandles({symProcs[p] : p \in P}) /\ UNCHANGED symProcs
CleanUp(P) == Release(P)

\* cleanSym releases the handles that were not accessed for 15 seconds,
\* cleanAllSyms all of them.
CleanSyms(P) ==
    /\ ~shutdown /\ P # {}
    /\ CleanUp(P)
    /\ UNCHANGED <<syOs, walks, syCaches, leaked, shutdown, syHistory>>

\* Close ends the housekeeping; the event source is closed after it.
Close ==
    /\ ~shutdown
    /\ shutdown' = TRUE
    /\ CleanUp(DOMAIN symProcs)
    /\ UNCHANGED <<syOs, walks, syCaches, leaked, syHistory>>

SyNext ==
    \/ \E p \in SyPid, q \in {0} \cup DOMAIN life :
          Start(p, q) \/ \E m \in DOMAIN life, a \in SyAddr : StartWalked(p, q, m, a)
    \/ \E n \in DOMAIN life :
          \/ Load(n) \/ UnloadImage(n) \/ TerminateProcess(n) \/ Dropped(n)
          \/ \E a \in SyAddr, state \in BOOLEAN : Walk(n, a, state)
          \/ \E m \in DOMAIN life, a \in SyAddr : StartAddress(n, m, a)
    \/ \E i \in DOMAIN walks :
          FrameFromCache(i) \/ FrameFromState(i) \/ FrameFromHandle(i) \/ SymbolizeAddress(i)
    \/ \E P \in SUBSET DOMAIN symProcs : CleanSyms(P)
    \/ Close

SySpec == SyInit /\ [][SyNext]_syVars
-----------------------------------------------------------------------------
\* The handles that are open are the ones kept for their pid, each for one
\* pid, and the ones whose symbol handler could not be initialized: no handle
\* is closed twice or used after it was closed, whichever of TerminateProcess,
\* the housekeeper and Close comes first.
SyHandlesOwned ==
    /\ {h \in DOMAIN handles : handles[h].open} = HandleOf \cup leaked
    /\ \A p, q \in DOMAIN symProcs : symProcs[p] = symProcs[q] => p = q

\* A process that runs finds no symbol of an earlier process with its pid in
\* the cache, unless the TerminateProcess event of that process was dropped or
\* a frame of it was produced after its end.
SyOwnProcess ==
    \A x \in DOMAIN symbols : \A n \in Running(x[1]) :
        LET m == symbols[x].of IN
        m # n => <<"process", m>> \in symLost \/ m \in lateFrames

\* The symbol of a frame comes from the exports of the module the frame names.
\* They are those of another module only if the UnloadImage event of that one,
\* or the TerminateProcess event of its process, was dropped, a frame of one of
\* the two processes was produced after its end, or one of the modules was
\* taken from the parent or from the process that a CreateProcess event is of.
SyExports ==
    \A x \in DOMAIN symbols :
        LET s == symbols[x] IN
        s.exp \notin {0, s.mod} =>
            \/ <<"module", s.exp>> \in symLost \/ s.of \in lateFrames
            \/ \E n \in lateFrames \cup {n \in DOMAIN life : <<"process", n>> \in symLost} :
                  life[n].mod = s.exp
            \/ ({x[1]} \X {s.exp, s.mod}) \cap borrowed # {}

\* A frame is given symbols of its own process, and those that come from
\* exports, of its own module, but for the faults that the parts name; and the
\* handles the symbols are read through are open and owned.
SyAttributed == SyHandlesOwned /\ SyOwnProcess /\ SyExports

\* When a module is unmapped, syncModules prunes its symbols: "prune symbol
\* entry from the cache if the symbol address falls within the unmapped module".
SyPruned ==
    [][\A x \in DOMAIN symbols' : symbols'[x].mod \notin unloaded' \ unloaded]_syVars
=============================================================================
