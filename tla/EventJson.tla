----------------------------- MODULE EventJson -----------------------------
(***************************************************************************)
(* The JSON text of an event (Event.MarshalJSON), as the sequence of its   *)
(* brackets, commas, keys "k" and scalar values "v".  Whether a comma is   *)
(* written is decided in many places, from the flags of the configuration  *)
(* that select threads, images, handles, executables and environments, and *)
(* from which parts of the process state are there.  The text of keys and  *)
(* values, with its escapes, is left out.                                  *)
(***************************************************************************)
EXTENDS Naturals, Sequences

LOCAL INSTANCE SequencesExt

CONSTANTS
    JsParams,   \* the parameters of events: sequences of "value", "strings"
                \* and "addresses"
    JsCounts    \* bound: how many elements arrays and objects may have

VARIABLES
    flags,      \* the kinds of resources that are serialized
    evt,        \* the event
    json        \* its text

jsVars == <<flags, evt, json>>

Flag == {"threads", "images", "handles", "pe", "envs"}

Opt(S) == {<<>>} \cup {<<x>> : x \in S}

\* What decides about commas in a PE, a process state and an event.
PE == [sections : JsCounts, symbols : JsCounts, imports : JsCounts, resources : JsCounts]

\* n is the number of arguments, variables, threads, modules and handles, of
\* each the same: none of them decides about a comma of another.
PS == [parent : BOOLEAN, n : JsCounts, pe : Opt(PE)]

JsEvent == [params : JsParams, meta : JsCounts, ps : Opt(PS)]
-----------------------------------------------------------------------------
Field == <<"k", "v">>
More(cond) == IF cond THEN <<",">> ELSE <<>>

\* n fields, a comma after each.
Fields(n) == FlattenSeq([i \in 1 .. n |-> Field \o <<",">>])

\* shouldWriteMore.
ShouldWriteMore(i, n) == i # n

\* Items with a comma after each but the last.
Loop(items) ==
    FlattenSeq([i \in DOMAIN items |-> items[i] \o More(ShouldWriteMore(i, Len(items)))])

Times(n, item) == [i \in 1 .. n |-> item]
Array(items) == <<"[">> \o Loop(items) \o <<"]">>
Object(items) == <<"{">> \o Loop(items) \o <<"}">>

\* An object of n scalar fields.
Rec(n) == Object(Times(n, Field))

\* The value of a parameter; nothing is written for a slice of addresses.
ParamJson(p) ==
    <<"k">> \o CASE p = "value" -> <<"v">>
                 [] p = "strings" -> Array(Times(2, <<"v">>))
                 [] p = "addresses" -> <<>>

\* A field that is shown or not, and a comma if the condition for one holds.
Part(shown, body, more) == IF shown THEN <<"k">> \o body \o More(more) ELSE <<>>

PeJson(x) ==
    <<"{">> \o Fields(5)
      \o Part(x.sections > 0, Array(Times(x.sections, Rec(4))), x.symbols > 0)
      \o Part(x.symbols > 0, Array(Times(x.symbols, <<"v">>)), x.imports > 0)
      \o Part(x.imports > 0, Array(Times(x.imports, <<"v">>)), x.resources > 0)
      \o Part(x.resources > 0, Rec(x.resources), FALSE) \o <<"}">>

WritePsResources(f) == f \cap {"handles", "threads", "images", "pe"} # {}

ShowsPe(f, s) == "pe" \in f /\ s.pe # <<>>

\* Images are not asked for.
AfterThreadsHandles(f) == "handles" \in f

AfterThreads(f) == "images" \in f \/ "handles" \in f

Resources(f, s) ==
    Part("threads" \in f, Array(Times(s.n, Rec(9))), AfterThreads(f))
      \o Part("images" \in f, Array(Times(s.n, Rec(2))), "handles" \in f)
      \o Part("handles" \in f, Array(Times(s.n, Rec(4))), ShowsPe(f, s))
      \o (IF ShowsPe(f, s) THEN Part(TRUE, PeJson(s.pe[1]), FALSE) ELSE <<>>)

PsJson(f, s) ==
    <<"{">> \o Fields(7) \o <<"k">> \o Array(Times(s.n, <<"v">>)) \o <<",">> \o Field
      \o (IF s.parent THEN <<",", "k">> \o Rec(5) ELSE <<>>)
      \o (IF "envs" \in f THEN <<",", "k">> \o Rec(s.n) ELSE <<>>)
      \o More(WritePsResources(f)) \o Resources(f, s) \o <<"}">>

MarshalJSON(f, e) ==
    <<"{">> \o Fields(9)
      \o <<"k">> \o Object([i \in DOMAIN e.params |-> ParamJson(e.params[i])]) \o <<",">>
      \o <<"k">> \o Rec(e.meta)
      \o (IF e.ps = <<>> THEN <<>> ELSE <<",", "k">> \o PsJson(f, e.ps[1])) \o <<"}">>

\* The flags are set at the start; an event is serialized as it is, whatever
\* was serialized before it, so one is enough.
JsInit == flags \in SUBSET Flag /\ evt = <<>> /\ json = <<>>

Serialize(e) ==
    /\ evt' = <<e>>
    /\ json' = MarshalJSON(flags, e)
    /\ UNCHANGED flags

JsNext == evt = <<>> /\ \E e \in JsEvent : Serialize(e)

JsSpec == JsInit /\ [][JsNext]_jsVars
-----------------------------------------------------------------------------
\* The grammar of JSON: the position behind the value at i of b, 0 if there is
\* none.
Tok(b, i) == IF i \in DOMAIN b THEN b[i] ELSE "end"

RECURSIVE ValueEnd(_, _), ItemsEnd(_, _, _)
ValueEnd(b, i) ==
    CASE Tok(b, i) = "v" -> i + 1
      [] Tok(b, i) = "[" -> IF Tok(b, i + 1) = "]" THEN i + 2 ELSE ItemsEnd(b, i + 1, "]")
      [] Tok(b, i) = "{" -> IF Tok(b, i + 1) = "}" THEN i + 2 ELSE ItemsEnd(b, i + 1, "}")
      [] OTHER -> 0

\* One or more elements, or keys with values, up to the bracket.
ItemsEnd(b, i, close) ==
    LET keyed == close = "}"
        e == IF keyed /\ Tok(b, i) # "k" THEN 0 ELSE ValueEnd(b, IF keyed THEN i + 1 ELSE i)
    IN CASE e = 0 -> 0
         [] e # 0 /\ Tok(b, e) = close -> e + 1
         [] e # 0 /\ Tok(b, e) = "," -> ItemsEnd(b, e + 1, close)
         [] OTHER -> 0

IsJson(b) == ValueEnd(b, 1) = Len(b) + 1

\* The sections, symbols, imports and resources that a PE has are some, and
\* none is missing between two of them.
Gapless(x) ==
    \E i, j \in 1 .. 4 : i <= j /\ \A k \in 1 .. 4 :
        (<<x.sections, x.symbols, x.imports, x.resources>>[k] > 0) <=> k \in i .. j

\* The flags put a comma before each part and none behind the last: there is a
\* PE if nothing but it is selected, and if it is there the handles are selected
\* when threads or images are, and it has no gap.
FlagsFit(f, s) ==
    /\ f \ {"envs"} = {"pe"} => s.pe # <<>>
    /\ ShowsPe(f, s) => (f \cap {"threads", "images"} # {} => "handles" \in f) /\ Gapless(s.pe[1])

\* The text that MarshalJSON writes of an event is JSON, whatever the flags and
\* the parts of its process state, if no parameter is a slice of addresses and
\* the flags fit the process state (FlagsFit).  Nothing is said of the others,
\* of which the code writes a text that is not JSON.
JsWellFormed ==
    (/\ evt # <<>>
     /\ \A i \in DOMAIN evt[1].params : evt[1].params[i] # "addresses"
     /\ \A i \in DOMAIN evt[1].ps : FlagsFit(flags, evt[1].ps[i])) => IsJson(json)
=============================================================================
