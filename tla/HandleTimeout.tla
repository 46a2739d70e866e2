--------------------------- MODULE HandleTimeout ---------------------------
(***************************************************************************)
(* Queries of handle names with a timeout (pkg/handle/timeout.go).  The    *)
(* caller puts the handle into the channel in, signals the event ini and   *)
(* waits for the event done; a query thread takes the handle, asks the     *)
(* kernel, puts the name into out and signals done.  The kernel may never  *)
(* answer: after the timeout the caller kills the thread and forgets it,   *)
(* and the next call makes a new thread, new channels and reset events.    *)
(* The system calls SetEvent, WaitForSingleObject and TerminateThread may  *)
(* fail.                                                                   *)
(***************************************************************************)
EXTENDS Naturals, Sequences

CONSTANTS
    HtCalls,     \* bound: calls of GetHandleWithTimeout; handle n is the n-th
    HtCallsFail  \* system calls may fail

ASSUME HtAssumption == HtCalls \in Nat /\ HtCallsFail \in BOOLEAN

VARIABLES
    caller,   \* where the caller is: [at, h, tid]; tid is tmt.thread, 0 for none
    ini, done,\* the auto-reset events
    tmtIn, tmtOut,  \* the channels of tmt, each of capacity 1
    query,    \* thread -> where it is: [at, h]
    gone,     \* threads killed or left behind
    answer,   \* history: handle -> the handle whose name was returned, 0 if none
    failures  \* history: the system calls that have failed

htVars == <<caller, ini, done, tmtIn, tmtOut, query, gone, answer, failures>>

Handle == 1 .. HtCalls
Threads == 1 .. HtCalls
Fresh == [at |-> "absent", h |-> 0]
-----------------------------------------------------------------------------
HtInit ==
    /\ caller = [at |-> "idle", h |-> 0, tid |-> 0]
    /\ ini = FALSE /\ done = FALSE
    /\ tmtIn = <<>> /\ tmtOut = <<>>
    /\ query = [t \in Threads |-> Fresh] /\ gone = {}
    /\ answer = [h \in Handle |-> 0] /\ failures = {}

\* Without a thread the events are reset and the channels made anew.
NewChannels == tmtIn' = <<>> /\ tmtOut' = <<>> /\ ini' = FALSE /\ done' = FALSE

Call ==
    /\ caller.at = "idle" /\ caller.h < HtCalls
    /\ LET h == caller.h + 1 IN
       IF caller.tid = 0
       THEN /\ NewChannels
            /\ query' = [query EXCEPT ![h] = [at |-> "wait", h |-> 0]]
            /\ caller' = [at |-> "send", h |-> h, tid |-> h]
       ELSE /\ caller' = [caller EXCEPT !.at = "send", !.h = h]
            /\ UNCHANGED <<ini, done, tmtIn, tmtOut, query>>
    /\ UNCHANGED <<gone, answer, failures>>

\* Resetting the events or creating the thread fails.
CallFails ==
    /\ HtCallsFail /\ caller.at = "idle" /\ caller.h < HtCalls /\ caller.tid = 0
    /\ caller' = [caller EXCEPT !.h = @ + 1]
    /\ failures' = failures \cup {"Create"}
    /\ UNCHANGED <<ini, done, tmtIn, tmtOut, query, gone, answer>>

\* The handle is put into the channel, which may have to wait for room.
SendHandle ==
    /\ caller.at = "send" /\ tmtIn = <<>>
    /\ tmtIn' = <<caller.h>>
    /\ caller' = [caller EXCEPT !.at = "signal"]
    /\ UNCHANGED <<ini, done, tmtOut, query, gone, answer, failures>>

Signal ==
    /\ caller.at = "signal"
    /\ ini' = TRUE
    /\ caller' = [caller EXCEPT !.at = "await"]
    /\ UNCHANGED <<done, tmtIn, tmtOut, query, gone, answer, failures>>

\* The call returns without an answer and the handle stays in the channel.
SignalFails ==
    /\ HtCallsFail /\ caller.at = "signal"
    /\ failures' = failures \cup {"SetEvent"}
    /\ caller' = [caller EXCEPT !.at = "idle"]
    /\ UNCHANGED <<ini, done, tmtIn, tmtOut, query, gone, answer>>

Signalled ==
    /\ caller.at = "await" /\ done
    /\ done' = FALSE
    /\ caller' = [caller EXCEPT !.at = "receive"]
    /\ UNCHANGED <<ini, tmtIn, tmtOut, query, gone, answer, failures>>

HtReceive ==
    /\ caller.at = "receive" /\ tmtOut # <<>>
    /\ answer' = [answer EXCEPT ![caller.h] = Head(tmtOut)]
    /\ tmtOut' = <<>>
    /\ caller' = [caller EXCEPT !.at = "idle"]
    /\ UNCHANGED <<ini, done, tmtIn, query, gone, failures>>

\* The wait fails: the caller takes its handle back, which blocks for ever when
\* the thread already has it.
WaitFails ==
    /\ HtCallsFail /\ caller.at = "await"
    /\ failures' = failures \cup {"Wait"}
    /\ caller' = [caller EXCEPT !.at = "drain"]
    /\ UNCHANGED <<ini, done, tmtIn, tmtOut, query, gone, answer>>

Drain ==
    /\ caller.at = "drain" /\ tmtIn # <<>>
    /\ tmtIn' = <<>>
    /\ caller' = [caller EXCEPT !.at = "idle"]
    /\ UNCHANGED <<ini, done, tmtOut, query, gone, answer, failures>>

NeverTimesOut == FALSE

\* The wait times out.  The thread runs on until TerminateThread takes effect.
WaitTimesOut ==
    /\ caller.at = "await" /\ ~done
    /\ caller' = [caller EXCEPT !.at = "kill"]
    /\ UNCHANGED <<ini, done, tmtIn, tmtOut, query, gone, answer, failures>>

KeepThread(c) == [c EXCEPT !.at = "idle"]
ForgetThread(c) == [c EXCEPT !.at = "idle", !.tid = 0]

Kill ==
    /\ caller.at = "kill"
    /\ gone' = gone \cup {caller.tid}
    /\ caller' = ForgetThread(caller)
    /\ UNCHANGED <<ini, done, tmtIn, tmtOut, query, answer, failures>>

\* TerminateThread fails: the thread stays and is used by the next call.
KillFails ==
    /\ HtCallsFail /\ caller.at = "kill"
    /\ failures' = failures \cup {"Terminate"}
    /\ caller' = [caller EXCEPT !.at = "idle"]
    /\ UNCHANGED <<ini, done, tmtIn, tmtOut, query, gone, answer>>
-----------------------------------------------------------------------------
\* timeoutFn.
Wake(t) ==
    /\ t \notin gone /\ query[t].at = "wait" /\ ini
    /\ ini' = FALSE
    /\ query' = [query EXCEPT ![t].at = "take"]
    /\ UNCHANGED <<caller, done, tmtIn, tmtOut, gone, answer, failures>>

Take(t) ==
    /\ t \notin gone /\ query[t].at = "take" /\ tmtIn # <<>>
    /\ query' = [query EXCEPT ![t] = [at |-> "ask", h |-> Head(tmtIn)]]
    /\ tmtIn' = <<>>
    /\ UNCHANGED <<caller, ini, done, tmtOut, gone, answer, failures>>

AnswerUnlessError(t) ==
    /\ t \notin gone /\ query[t].at = "ask" /\ tmtOut = <<>>
    /\ tmtOut' \in {<<>>, <<query[t].h>>}
    /\ query' = [query EXCEPT ![t].at = "signal"]
    /\ UNCHANGED <<caller, ini, done, tmtIn, gone, answer, failures>>

\* The kernel answers, if it does, and the name goes into the channel.
Answer(t) ==
    /\ t \notin gone /\ query[t].at = "ask" /\ tmtOut = <<>>
    /\ tmtOut' = <<query[t].h>>
    /\ query' = [query EXCEPT ![t].at = "signal"]
    /\ UNCHANGED <<caller, ini, done, tmtIn, gone, answer, failures>>

SignalDone(t) ==
    /\ t \notin gone /\ query[t].at = "signal"
    /\ done' = TRUE
    /\ query' = [query EXCEPT ![t] = [at |-> "wait", h |-> 0]]
    /\ UNCHANGED <<caller, ini, tmtIn, tmtOut, gone, answer, failures>>

\* SetEvent or the wait fails: the loop ends and the thread exits.
ThreadExits(t) ==
    /\ HtCallsFail /\ t \notin gone /\ query[t].at \in {"wait", "signal"}
    /\ gone' = gone \cup {t}
    /\ UNCHANGED <<caller, ini, done, tmtIn, tmtOut, query, answer, failures>>

HtNext ==
    \/ Call \/ CallFails \/ SendHandle \/ Signal \/ SignalFails \/ Signalled \/ HtReceive
    \/ WaitFails \/ Drain \/ WaitTimesOut \/ Kill \/ KillFails
    \/ \E t \in Threads :
          Wake(t) \/ Take(t) \/ Answer(t) \/ SignalDone(t) \/ ThreadExits(t)

HtSpec == HtInit /\ [][HtNext]_htVars

\* The caller runs; the kernel need not answer.
HtCaller ==
    SendHandle \/ Signal \/ Signalled \/ HtReceive \/ Drain \/ WaitTimesOut \/ Kill

HtFairness == WF_htVars(HtCaller)
-----------------------------------------------------------------------------
HtTypeOK ==
    /\ caller \in [at : {"idle", "send", "signal", "await", "receive", "drain", "kill"},
                   h : 0 .. HtCalls, tid : 0 .. HtCalls]
    /\ ini \in BOOLEAN /\ done \in BOOLEAN
    /\ tmtIn \in {<<>>} \cup {<<h>> : h \in Handle}
    /\ tmtOut \in {<<>>} \cup {<<h>> : h \in Handle}
    /\ query \in [Threads -> [at : {"absent", "wait", "take", "ask", "signal"},
                              h : 0 .. HtCalls]]
    /\ gone \subseteq Threads
    /\ answer \in [Handle -> 0 .. HtCalls] /\ failures \subseteq {"SetEvent", "Wait", "Terminate", "Create"}

\* A caller gets the name of the handle it asked for, never the late answer to
\* an earlier query: a thread that may have answered is killed, and channels and
\* events are made anew.  Only a thread that survived its TerminateThread, or a
\* SetEvent and a wait that both failed, bring handles and answers out of step.
HtOwnAnswer ==
    "Terminate" \notin failures /\ ~({"SetEvent", "Wait"} \subseteq failures)
        => \A h \in Handle : answer[h] \in {0, h}

\* A signal of done means that the answer is already in the channel, so that
\* the caller that has seen it never waits on an empty one.
HtAnswerReady == caller.at = "receive" => tmtOut # <<>>

\* Whatever the kernel does with a query, GetHandleWithTimeout returns; only
\* failing system calls can make it wait for ever.
HtReturns == caller.at # "idle" ~> caller.at = "idle" \/ failures # {}

\* When done was signalled the answer is there, and it is the answer to the
\* caller's own query.
HtAnswer == HtAnswerReady /\ HtOwnAnswer

\* GetHandleWithTimeout waits without a timeout in three places, the channels in
\* and out.  None of them blocks unless a system call failed before: a full in
\* needs a SetEvent or a TerminateThread that failed, taking the handle back a
\* failed wait, and out is never empty when the caller receives.
HtBlockedOnlyByFailure ==
    /\ caller.at = "send" /\ tmtIn # <<>> => {"SetEvent", "Terminate"} \cap failures # {}
    /\ caller.at = "receive" => tmtOut # <<>>
    /\ caller.at = "drain" => "Wait" \in failures
=============================================================================
