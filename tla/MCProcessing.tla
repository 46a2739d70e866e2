---------------------------- MODULE MCProcessing ----------------------------
(***************************************************************************)
(* The components an event passes on its way from the consumer to an       *)
(* alert, except the queue and the sequence rules, which have runs of      *)
(* their own: the file system and the registry processor, the              *)
(* snapshotters, the symbolizer, the conditions of rules with their        *)
(* operators, wildcards and values, the rule engine and the YARA scanner;  *)
(* and the two forms an event leaves the program in, captures and JSON.    *)
(* They share no state that is modelled, so one run takes the behaviours   *)
(* of each, the others staying in their initial states.                    *)
(***************************************************************************)
EXTENDS FsProcessor, RegistryProcessor, Snapshotters, Symbolizer, FilterLanguage,
        FilterOperators, ValuerPool, YaraScanner, CaptureFormat, EventJson, MCRuleEngine

Seqs == INSTANCE SequencesExt

VARIABLE part   \* the component whose behaviours these are

PrInit ==
    /\ FsInit /\ RgInit /\ PsInit /\ SyInit /\ FlInit /\ FoInit /\ WcInit
    /\ VpInit /\ YsInit /\ CfInit /\ JsInit /\ Init
    /\ part \in {"fs", "registry", "snapshotters", "symbolizer", "filter", "operators",
                "wildcard", "valuer", "yara", "capture", "json", "engine"}
    /\ part # "capture" => captured.handles = <<>>
    /\ part # "json" => flags = {}
    /\ part # "wildcard" => pattern = <<>> /\ text = <<>>

\* Processes and keys of the registry are interchangeable, so the first write
\* has a fixed one of each.  "autorun" ends in "run".
MCEnds == {<<v, v>> : v \in RgName} \cup {<<"autorun", "run">>}
Canonical ==
    written' # <<>> =>
        /\ written'[1].pid = CHOOSE p \in RgPid : TRUE
        /\ written'[1].key = CHOOSE k \in RgKey : TRUE

\* Bound: dropped events, and whether an internal event was replaced or evicted
\* and a path was taken from a handle.
TwoOfThese ==
    Cardinality(rgLost') + (IF displaced' = {} THEN 0 ELSE 1)
        + (IF guessed' = {} THEN 0 ELSE 1) <= 2

\* Bound: a behaviour of the snapshotters has a lookup, a dropped event or the
\* scan of handles; two of them if there is only one process.
LookupLossOrScan ==
    lookups' + dropped' + (IF scan'.at = "wait" THEN 0 ELSE 1) <= IF Len(os') < 2 THEN 2 ELSE 1

\* Bounds of the file system processor: faults, namely dropped events, callstacks
\* of others, deleted files and rejected dispositions; and one event of an open
\* file.  The two addresses are interchangeable, so the first is fixed.
TwoFaults == Cardinality(lost') + others' + Cardinality(deleted' \cup rejected') <= 2
OneRead ==
    \A n, m \in DOMAIN op' :
        /\ path'[n] # {} /\ path'[m] # {} => n = m
        /\ Cardinality(path'[n]) <= 1
FirstObject == op' # <<>> => op'[1].obj = CHOOSE o \in FsObject : TRUE

\* Bounds of the symbolizer: one fault or one address that is not of the process
\* of its event, where a fault is a dropped event, a handle whose symbol handler
\* fails or the shutdown; two handles, or one with two modules; and the first
\* address at the base of the module, as are start addresses.  The first process
\* has a fixed pid.
Foreign == {i \in DOMAIN walks : walks[i].ev # walks[i].of}
OneFault ==
    Cardinality(symLost') + Cardinality(leaked') + Cardinality(Foreign')
        + (IF shutdown' THEN 1 ELSE 0) <= 1
FewAddresses ==
    /\ Len(handles') <= 2 /\ Len(handles') + loads' <= 3
    /\ \A i \in DOMAIN walks' : i = 1 \/ walks'[i].start => walks'[i].addr = SyBase
FirstPid == life' # <<>> => life'[1].pid = CHOOSE p \in SyPid : TRUE

Strings(S, n) == UNION {[1 .. k -> S] : k \in 0 .. n}

\* Integers of 8, 16, 32 and 64 bits have 1, 2, 3 and 4, and a float64 represents
\* integers exactly up to 2^3 instead of 2^53: of two next to an integer it is the
\* one with an even mantissa.
MCRange ==
    [uint8 |-> 2, uint16 |-> 4, uint32 |-> 8, int32 |-> 8, uint64 |-> 16, int64 |-> 16, int |-> 16]
MCFloats == -3 .. 31
MCRounded(n) ==
    IF n <= 2^3 \/ n % 2 = 0 THEN 2 * n
    ELSE IF ((n - 1) \div 2) % 2 = 0 THEN 2 * (n - 1) ELSE 2 * (n + 1)

ShortTexts == Strings({"a", "A", "b"}, 2)
ShortPatterns == Strings({"a", "A", "*", "?"}, 3)
ShortLists == Strings({<<>>, <<"a">>, <<"A">>, <<"A", "b">>, <<"b">>, <<"*">>}, 2)

\* Wildcards.  "e" has two bytes and "w" three; the longer patterns are those
\* that take two characters for one of three bytes.
MCWidth == [c \in {"a", "A", "b", "*", "e", "w"} |-> IF c = "w" THEN 3 ELSE IF c = "e" THEN 2 ELSE 1]
BytesOf(x) ==
    Seqs!FlattenSeq([i \in DOMAIN x |-> [k \in 1 .. MCWidth[x[i]] |-> IF k = 1 THEN x[i] ELSE Cont]])
MCWcTexts == {BytesOf(x) : x \in Strings({"a", "e", "w"}, 3)}
MCWcPatterns ==
    Strings({"a", "e", "*", "?"}, 4) \cup {<<"*", "?", "?">> \o x : x \in [1 .. 2 -> {"a", "e", "?"}]}

\* Captures.  Values and names are short strings of bytes.
S0 == <<>>
S1 == <<1>>
S2 == <<2, 3>>
Long(n) == [k \in 1 .. n |-> 7]
TwoPairs == <<[k |-> S1, v |-> S0], [k |-> S2, v |-> S1]>>

MCParam ==
    {[typ |-> t, name |-> S1, val |-> <<v>>] : t \in {"str", "key", "bin"}, v \in {S0, S2}}
      \cup {[typ |-> t, name |-> S2, val |-> <<[k \in 1 .. Width[t] |-> (k + 1) % 8]>>] : t \in DOMAIN Width}
      \cup {[typ |-> "strs", name |-> S2, val |-> v] : v \in {<<>>, <<S2, S0, S1>>}}
      \cup {[typ |-> "addrs", name |-> S2, val |-> v] : v \in {<<>>, <<Long(8)>>}}
MCParams ==
    {<<>>} \cup {<<p>> : p \in MCParam} \cup {<<p, [q EXCEPT !.name = <<4>>]>> : p, q \in MCParam}

MCHandle(m, n) ==
    [pid |-> 9, type |-> S2, name |-> n, md |-> m, info |-> SubSeq(<<3, 4, 5, 6>>, 1, MdBytes[m])]
MCHandles ==
    {<<>>, <<MCHandle("alpc", S0), MCHandle("file", S1)>>, <<MCHandle("mutant", S1), MCHandle("none", S0)>>}

MCPe ==
    {[base |-> S1, sections |-> sec, symbols |-> sym, imports |-> <<S0, S1>>, resources |-> r,
      signed |-> 1, cert |-> c, dll |-> 0, imphash |-> S1, anomalies |-> a] :
        sec \in {<<>>, <<[size |-> 77, name |-> S1, md5 |-> S2]>>}, sym \in {<<>>, <<S2>>},
        r \in {<<>>, TwoPairs}, c \in {<<>>, <<S1, S2>>}, a \in {<<>>, <<S2>>}}
\* The longest arguments have 63 bytes with their lengths, one less than the
\* values of a uint16.
MCPs ==
    {[pid |-> 6, name |-> S1, cmdline |-> S2, args |-> a, session |-> 100, envs |-> v, handles |-> h,
      pe |-> p, start |-> S2, user |-> S2, domain |-> S1, wow64 |-> 1] :
        a \in {<<>>, <<S0, S2>>, <<Long(40), Long(19)>>}, v \in {<<>>, TwoPairs}, h \in MCHandles,
        p \in {<<>>} \cup {<<x>> : x \in MCPe}}

MCEvent(p, m, s) == [seq |-> 70, name |-> S1, host |-> S2, params |-> p, meta |-> m, ps |-> s]
PlainPs == CHOOSE s \in MCPs : s.pe = <<>> /\ s.handles = <<>>
PlainEvent == MCEvent(<<>>, <<>>, <<>>)
FirstEvents ==
    {MCEvent(p, m, s) : p \in MCParams, m \in {<<>>, TwoPairs}, s \in {<<>>, <<PlainPs>>}}
      \cup {MCEvent(<<>>, <<>>, <<s>>) : s \in MCPs}
MCEvents == <<FirstEvents, {PlainEvent}>>

\* Values of filters.  The second file event has no process state and no size.
MCVpEvents ==
    {[id |-> 1, category |-> "file", ps |-> TRUE, size |-> TRUE],
     [id |-> 2, category |-> "file", ps |-> FALSE, size |-> FALSE],
     [id |-> 3, category |-> "registry", ps |-> FALSE, size |-> FALSE]}
MCVpFilters ==
    {[fields |-> {"file.io.size", "ps.name"}, seq |-> TRUE],
     [fields |-> {"evt.pid", "registry.path", "file.io.size"}, seq |-> TRUE],
     [fields |-> {"evt.pid", "ps.name"}, seq |-> FALSE]}

\* JSON.
MCJsParams ==
    LET P == {"value", "strings", "addresses"} IN {<<>>} \cup [1 .. 1 -> P] \cup [1 .. 2 -> P]

PrNext ==
    /\ UNCHANGED part
    /\ \/ /\ part = "fs" /\ FsNext /\ TwoFaults /\ OneRead /\ FirstObject
          /\ UNCHANGED <<rgVars, psVars, syVars, flVars, operands, wcVars, vpVars, ysVars, cfVars, jsVars, vars>>
       \/ /\ part = "registry" /\ RgNext /\ Canonical /\ TwoOfThese
          /\ UNCHANGED <<fsVars, psVars, syVars, flVars, operands, wcVars, vpVars, ysVars, cfVars, jsVars, vars>>
       \/ /\ part = "snapshotters" /\ PsNext /\ LookupLossOrScan
          /\ UNCHANGED <<fsVars, rgVars, syVars, flVars, operands, wcVars, vpVars, ysVars, cfVars, jsVars, vars>>
       \/ /\ part = "symbolizer" /\ SyNext /\ OneFault /\ FewAddresses /\ FirstPid
          /\ UNCHANGED <<fsVars, rgVars, psVars, flVars, operands, wcVars, vpVars, ysVars, cfVars, jsVars, vars>>
       \/ /\ part = "filter" /\ FlNext
          /\ UNCHANGED <<fsVars, rgVars, psVars, syVars, operands, wcVars, vpVars, ysVars, cfVars, jsVars, vars>>
       \/ /\ part = "operators" /\ FoNext
          /\ UNCHANGED <<fsVars, rgVars, psVars, syVars, flVars, wcVars, vpVars, ysVars, cfVars, jsVars, vars>>
       \/ /\ part = "wildcard" /\ WcNext
          /\ UNCHANGED <<fsVars, rgVars, psVars, syVars, flVars, operands, vpVars, ysVars, cfVars, jsVars, vars>>
       \/ /\ part = "valuer" /\ VpNext
          /\ UNCHANGED <<fsVars, rgVars, psVars, syVars, flVars, operands, wcVars, ysVars, cfVars, jsVars, vars>>
       \/ /\ part = "yara" /\ YsNext
          /\ UNCHANGED <<fsVars, rgVars, psVars, syVars, flVars, operands, wcVars, vpVars, cfVars, jsVars, vars>>
       \/ /\ part = "capture" /\ CfNext
          /\ UNCHANGED <<fsVars, rgVars, psVars, syVars, flVars, operands, wcVars, vpVars, ysVars, jsVars, vars>>
       \/ /\ part = "json" /\ JsNext
          /\ UNCHANGED <<fsVars, rgVars, psVars, syVars, flVars, operands, wcVars, vpVars, ysVars, cfVars, vars>>
       \/ /\ part = "engine" /\ Next
          /\ UNCHANGED <<fsVars, rgVars, psVars, syVars, flVars, operands, wcVars, vpVars, ysVars, cfVars, jsVars>>

PrSpec ==
    PrInit /\ [][PrNext]_<<part, fsVars, rgVars, psVars, syVars, flVars, operands, wcVars,
                          vpVars, ysVars, cfVars, jsVars, vars>>
=============================================================================
