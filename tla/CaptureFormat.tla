--------------------------- MODULE CaptureFormat ---------------------------
(***************************************************************************)
(* The capture file: what the writer makes of events, process states,      *)
(* handles and executables (MarshalRaw of pkg/event, Marshal of            *)
(* pkg/ps/types, pkg/handle/types, pkg/pe and pkg/sys) and what the reader *)
(* makes of it again (UnmarshalRaw and Unmarshal, pkg/cap).  A byte has    *)
(* the values 0 to 7, so that a uint16 is less than 64 and a uint32 less   *)
(* than 4096.  Of fields that follow each other and are written and read    *)
(* in the same way one or two stand for all.  The writer compresses with   *)
(* zstd, which is external and the identity here; all versions are the     *)
(* current ones.                                                           *)
(***************************************************************************)
EXTENDS Naturals, Sequences

LOCAL INSTANCE SequencesExt

CONSTANTS
    CfEvents,   \* bound: the events that may be the first, the second and so on in
                \* a capture; the arguments and the environment of their processes
                \* have less than 2^16 bytes each
    CfHandles   \* handle snapshots, each a sequence of handles

VARIABLES
    capture,    \* the bytes written
    captured,   \* the handles and the events that the writer took
    pos,        \* where the reader is; 0 before the snapshots were recovered
    replayed    \* the handles and the events it got

cfVars == <<capture, captured, pos, replayed>>

Base == 8
Max16 == Base^2

U16(n) == <<n % Base, (n \div Base) % Base>>
U32(n) == U16(n % Max16) \o U16(n \div Max16)
Str(s) == U16(Len(s)) \o s
Strs(l) == U16(Len(l)) \o FlattenSeq([i \in DOMAIN l |-> Str(l[i])])
Pairs(l) == U16(Len(l)) \o FlattenSeq([i \in DOMAIN l |-> Str(l[i].k) \o Str(l[i].v)])

\* section.New, without type and version.
Section(len, size) == U32(len) \o U32(size)
SectionLen == 8
-----------------------------------------------------------------------------
MdBytes == [alpc |-> 4, mutant |-> 2, file |-> 1, none |-> 0]
MdCode == [alpc |-> 1, mutant |-> 2, file |-> 3, none |-> 5]

\* The metadata is not counted.
OffsetNoMd(h) == 4 + 2 + Len(h.type) + 2 + Len(h.name) + 1

\* Handle.Offset, the length that is written before a handle of a process.
Offset(h) == 4 + 2 + Len(h.type) + 2 + Len(h.name) + 1 + MdBytes[h.md]

HandleBytes(h) == U32(h.pid) \o Str(h.type) \o Str(h.name) \o <<MdCode[h.md]>> \o h.info

Handles(l) == FlattenSeq([i \in DOMAIN l |-> U16(Offset(l[i])) \o HandleBytes(l[i])])

\* The snapshot of handles uses the length of the bytes.
HandleSnapshot(l) ==
    Section(Len(l), 0)
      \o FlattenSeq([i \in DOMAIN l |-> U16(Len(HandleBytes(l[i]))) \o HandleBytes(l[i])])

SecBytes(s) == U32(s.size) \o Str(s.name) \o Str(s.md5)

CertBytes(c) == IF c = <<>> THEN <<>> ELSE Str(c[1]) \o Str(c[2])

PeBytes(x) ==
    Str(x.base) \o U16(Len(x.sections))
      \o FlattenSeq([i \in DOMAIN x.sections |-> SecBytes(x.sections[i])])
      \o Strs(x.symbols) \o Strs(x.imports) \o Pairs(x.resources)
      \o <<x.signed>> \o U32(Len(CertBytes(x.cert))) \o CertBytes(x.cert)
      \o <<x.dll>> \o Str(x.imphash) \o Strs(x.anomalies)

\* The executable of a process state is a sequence of at most one.
PeSection(x) ==
    IF x = <<>> THEN Section(0, 0) ELSE Section(0, Len(PeBytes(x[1]))) \o PeBytes(x[1])

PsBytes(s) ==
    U32(s.pid) \o Str(s.name) \o Str(s.cmdline) \o Strs(s.args) \o U32(s.session)
      \o Pairs(s.envs) \o Section(Len(s.handles), 0) \o Handles(s.handles) \o PeSection(s.pe)
      \o Str(s.start) \o Str(s.user) \o Str(s.domain) \o <<s.wow64>>

Width == [u8 |-> 1, u16 |-> 2, u32 |-> 4, u64 |-> 8]
Code == [str |-> 1, u8 |-> 2, u16 |-> 3, u32 |-> 4, u64 |-> 5, strs |-> 6, addrs |-> 6, bin |-> 7]

\* Keys, paths of devices and types of handles are written as strings.
CaptureType(typ) == IF typ = "key" THEN "str" ELSE typ

\* A value is a sequence of byte strings, of one unless it is a slice.  There
\* are no parameters of type Float and Double: no event has one, and they are
\* written with 8 and 4 bytes and read with 4 and 8.
ParamValue(p) ==
    CASE p.typ \in {"str", "key"} -> Str(p.val[1])
      [] p.typ \in DOMAIN Width -> p.val[1]
      [] p.typ = "strs" -> <<1>> \o Strs(p.val)
      [] p.typ = "addrs" -> <<0>> \o U16(Len(p.val)) \o FlattenSeq(p.val)
      [] p.typ = "bin" -> U32(Len(p.val[1])) \o p.val[1]

ParamBytes(p) == U16(Code[CaptureType(p.typ)]) \o Str(p.name) \o ParamValue(p)

\* The process state goes with events that create a process.
PsSection(s) ==
    IF s = <<>> THEN Section(0, 0) ELSE Section(0, Len(PsBytes(s[1]))) \o PsBytes(s[1])

MarshalRaw(e) ==
    U32(e.seq) \o Str(e.name) \o Str(e.host) \o U16(Len(e.params))
      \o FlattenSeq([i \in DOMAIN e.params |-> ParamBytes(e.params[i])])
      \o Pairs(e.meta) \o PsSection(e.ps)
-----------------------------------------------------------------------------
\* Reading.  What lies beyond the bytes is not specified, 0 here.
ByteAt(b, i) == IF i \in DOMAIN b THEN b[i] ELSE 0
Sub(b, i, n) == [k \in 1 .. n |-> ByteAt(b, i + k - 1)]
R16(b, i) == ByteAt(b, i) + Base * ByteAt(b, i + 1)
R32(b, i) == R16(b, i) + Max16 * R16(b, i + 2)
RStr(b, i) == Sub(b, i + 2, R16(b, i))
End(b, i) == i + 2 + R16(b, i)

\* The offset behind n strings at i, kept in an integer less than m.
RECURSIVE StrsEnd(_, _, _, _)
StrsEnd(b, i, n, m) ==
    IF n = 0 THEN 0
    ELSE LET off == StrsEnd(b, i, n - 1, m) IN (off + 2 + R16(b, i + off)) % m

NoLimit == Max16^2

RStrs(b, i, m) ==
    LET n == R16(b, i) IN
    [v |-> [k \in 1 .. n |-> RStr(b, i + 2 + StrsEnd(b, i + 2, k - 1, m))],
     at |-> i + 2 + StrsEnd(b, i + 2, n, m)]

\* The same for keys and values.
RECURSIVE PairsEnd(_, _, _, _)
PairsEnd(b, i, n, m) ==
    IF n = 0 THEN 0
    ELSE LET off == PairsEnd(b, i, n - 1, m) IN (End(b, End(b, i + off)) - i) % m

RPairs(b, i, m) ==
    LET n == R16(b, i)
        p(k) == i + 2 + PairsEnd(b, i + 2, k - 1, m)
    IN [v |-> [k \in 1 .. n |-> [k |-> RStr(b, p(k)), v |-> RStr(b, End(b, p(k)))]],
        at |-> p(n + 1)]

RHandle(b) ==
    LET t == 5
        n == End(b, t)
        m == End(b, n)
        md == IF \E x \in DOMAIN MdCode : MdCode[x] = ByteAt(b, m)
              THEN CHOOSE x \in DOMAIN MdCode : MdCode[x] = ByteAt(b, m) ELSE "none"
    IN [pid |-> R32(b, 1), type |-> RStr(b, t), name |-> RStr(b, n), md |-> md,
        info |-> Sub(b, m + 1, MdBytes[md])]

RHandles(b, i, n) ==
    LET p(k) == i + StrsEnd(b, i, k, NoLimit) IN
    [v |-> [k \in 1 .. n |-> RHandle(RStr(b, p(k - 1)))], at |-> p(n)]

RECURSIVE SecsEnd(_, _, _)
SecsEnd(b, i, n) == IF n = 0 THEN i ELSE End(b, End(b, SecsEnd(b, i, n - 1) + 4))

RSec(b, i) == [size |-> R32(b, i), name |-> RStr(b, i + 4), md5 |-> RStr(b, End(b, i + 4))]

\* A version resource without a value or a name is left out.
IsResource(r) == r.k # <<>> /\ r.v # <<>>

RCert(b, i, size) == IF size = 0 THEN <<>> ELSE <<RStr(b, i), RStr(b, End(b, i))>>

RPe(b, i) ==
    LET s == End(b, i)
        n == R16(b, s)
        symbols == RStrs(b, SecsEnd(b, s + 2, n), NoLimit)
        imports == RStrs(b, symbols.at, NoLimit)
        resources == RPairs(b, imports.at, NoLimit)
        c == resources.at + 1
        f == c + 4 + R32(b, c)
    IN [base |-> RStr(b, i), sections |-> [k \in 1 .. n |-> RSec(b, SecsEnd(b, s + 2, k - 1))],
        symbols |-> symbols.v, imports |-> imports.v,
        resources |-> SelectSeq(resources.v, IsResource),
        signed |-> ByteAt(b, resources.at), cert |-> RCert(b, c + 4, R32(b, c)),
        dll |-> ByteAt(b, f), imphash |-> RStr(b, f + 1),
        anomalies |-> RStrs(b, End(b, f + 1), NoLimit).v]

\* The offsets in the arguments and in the environment are uint16.
OffsetLimit == Max16

RPs(b) ==
    LET c == End(b, 5)
        args == RStrs(b, End(b, c), OffsetLimit)
        envs == RPairs(b, args.at + 4, OffsetLimit)
        handles == RHandles(b, envs.at + SectionLen, R32(b, envs.at))
        p == handles.at + SectionLen
        size == R32(b, handles.at + 4)
        u == End(b, p + size)
        d == End(b, u)
    IN [pid |-> R32(b, 1), name |-> RStr(b, 5), cmdline |-> RStr(b, c), args |-> args.v,
        session |-> R32(b, args.at), envs |-> envs.v, handles |-> handles.v,
        pe |-> IF size = 0 THEN <<>> ELSE <<RPe(b, p)>>,
        start |-> RStr(b, p + size),
        \* The user and the domain are read from the start of the bytes.
        user |-> Sub(b, 1, R16(b, u)), domain |-> Sub(b, 1, R16(b, d)),
        wow64 |-> ByteAt(b, End(b, d))]

TypeOf(code, b, i) ==
    IF code = Code["strs"] THEN IF ByteAt(b, i) = 1 THEN "strs" ELSE "addrs"
    ELSE CHOOSE t \in DOMAIN Code \ {"strs", "addrs"} : Code[t] = code

\* Where the strings of a slice are taken from, one byte behind their lengths,
\* and the bytes of a binary, two bytes before their place.
SliceSkew == 1
BinarySkew == 2

SliceStrs(b, i) ==
    LET p(k) == i + 2 + StrsEnd(b, i + 2, k - 1, NoLimit) IN
    [k \in 1 .. R16(b, i) |-> Sub(b, p(k) + 2 + SliceSkew, R16(b, p(k)))]

Zeros(n) == [k \in 1 .. n |-> 0]

\* The value of a parameter at i, and where it ends.  The addresses of a slice
\* are read but not kept.
RValue(b, i, typ) ==
    CASE typ = "str" -> [v |-> <<RStr(b, i)>>, at |-> End(b, i)]
      [] typ \in DOMAIN Width -> [v |-> <<Sub(b, i, Width[typ])>>, at |-> i + Width[typ]]
      [] typ = "strs" -> [v |-> SliceStrs(b, i + 1), at |-> RStrs(b, i + 1, NoLimit).at]
      [] typ = "addrs" -> [v |-> [k \in 1 .. R16(b, i + 1) |-> Zeros(8)],
                           at |-> i + 3 + 8 * R16(b, i + 1)]
      [] typ = "bin" -> [v |-> <<Sub(b, i + 4 - BinarySkew, R32(b, i))>>, at |-> i + 4 + R32(b, i)]

RParam(b, i) ==
    LET v == End(b, i + 2)
        typ == TypeOf(R16(b, i), b, v)
        val == RValue(b, v, typ)
    IN [p |-> [typ |-> typ, name |-> RStr(b, i + 2), val |-> val.v], at |-> val.at]

RECURSIVE ParamsEnd(_, _, _)
ParamsEnd(b, i, n) == IF n = 0 THEN i ELSE RParam(b, ParamsEnd(b, i, n - 1)).at

UnmarshalRaw(b) ==
    LET h == End(b, 5)
        i == End(b, h)
        n == R16(b, i)
        meta == RPairs(b, ParamsEnd(b, i + 2, n), NoLimit)
        size == R32(b, meta.at + 4)
    IN [seq |-> R32(b, 1), name |-> RStr(b, 5), host |-> RStr(b, h),
        params |-> [k \in 1 .. n |-> RParam(b, ParamsEnd(b, i + 2, k - 1)).p],
        meta |-> SelectSeq(meta.v, LAMBDA x : x.k # <<>>),
        ps |-> IF size = 0 THEN <<>>
               ELSE <<RPs(SubSeq(b, meta.at + SectionLen, Len(b)))>>]
-----------------------------------------------------------------------------
\* NewWriter writes the snapshot of handles.
CfInit ==
    \E l \in CfHandles :
        /\ capture = HandleSnapshot(l)
        /\ captured = [handles |-> l, events |-> <<>>]
        /\ pos = 0
        /\ replayed = [handles |-> <<>>, events |-> <<>>]

\* The largest uint32.
MaxEventSize == Max16^2 - 1

\* An event that is too large is refused with an error: nothing is written.
Write(e) ==
    /\ pos = 0
    /\ IF Len(MarshalRaw(e)) > MaxEventSize THEN UNCHANGED <<capture, captured>>
       ELSE /\ capture' = capture \o Section(0, Len(MarshalRaw(e))) \o MarshalRaw(e)
            /\ captured' = [captured EXCEPT !.events = Append(@, e)]
    /\ UNCHANGED <<pos, replayed>>

\* The file was closed and is opened by a reader.
RecoverSnapshotters ==
    /\ pos = 0
    /\ LET l == RHandles(capture, SectionLen + 1, R32(capture, 1)) IN
       /\ replayed' = [replayed EXCEPT !.handles = l.v]
       /\ pos' = l.at
    /\ UNCHANGED <<capture, captured>>

\* The file is whole, so that no read fails; no filter is set.  The snapshotters
\* that the reader feeds are not modelled.
Read ==
    /\ pos \in 1 .. Len(capture)
    /\ LET size == R32(capture, pos + 4)
           b == SubSeq(capture, pos + SectionLen, pos + SectionLen + size - 1)
       IN /\ replayed' = [replayed EXCEPT !.events = Append(@, UnmarshalRaw(b))]
          /\ pos' = pos + SectionLen + size
    /\ UNCHANGED <<capture, captured>>

CfNext ==
    \/ LET n == Len(captured.events) + 1 IN
       n \in DOMAIN CfEvents /\ pos = 0 /\ \E e \in CfEvents[n] : Write(e)
    \/ RecoverSnapshotters
    \/ Read

CfSpec == CfInit /\ [][CfNext]_cfVars
-----------------------------------------------------------------------------
SamePe(x, y) == y = [x EXCEPT !.resources = SelectSeq(@, IsResource)]

SamePs(s, t) ==
    /\ t = [s EXCEPT !.user = t.user, !.domain = t.domain, !.pe = t.pe]
    /\ Len(t.pe) = Len(s.pe) /\ \A i \in DOMAIN s.pe : SamePe(s.pe[i], t.pe[i])

SameParam(p, q) ==
    /\ q.name = p.name /\ q.typ = CaptureType(p.typ)
    /\ q.val = p.val \/ p.typ \in {"strs", "addrs", "bin"}

SameEvent(e, f) ==
    /\ f = [e EXCEPT !.params = f.params, !.ps = f.ps]
    /\ Len(f.params) = Len(e.params)
    /\ \A i \in DOMAIN e.params : SameParam(e.params[i], f.params[i])
    /\ Len(f.ps) = Len(e.ps)
    /\ \A i \in DOMAIN e.ps : SamePs(e.ps[i], f.ps[i])

\* What is replayed is what was captured: all handles, and the events in their
\* order with all fields, parameters, metadata and process states.  Not kept
\* are the values of slices and binaries, although what follows them is read
\* from its place, the user and the domain of a process, and empty version
\* resources.
CfReplayed ==
    pos # 0 =>
      /\ replayed.handles = captured.handles
      /\ \A n \in DOMAIN replayed.events : SameEvent(captured.events[n], replayed.events[n])
      /\ pos > Len(capture) => Len(replayed.events) = Len(captured.events)
=============================================================================
