------------------------ MODULE HandleTimeoutProofs ------------------------
(***************************************************************************)
(* Proofs about HandleTimeout, for any number of calls and with or without *)
(* failing system calls: its type invariant, that a caller that was        *)
(* signalled finds an answer, and that the answer is its own.              *)
(***************************************************************************)
EXTENDS HandleTimeout, TLAPS

\* A call in progress has a handle and a thread, and a thread that asks the
\* kernel has taken a handle.
Called ==
    /\ caller.at # "idle" => caller.h # 0 /\ caller.tid # 0
    /\ \A t \in Threads : query[t].at = "ask" => query[t].h # 0

\* The actions of HtNext, one by one.
LEMMA HtCases ==
    ASSUME [HtNext]_htVars
    PROVE  \/ UNCHANGED htVars
           \/ Call \/ CallFails \/ SendHandle \/ Signal \/ SignalFails \/ Signalled
           \/ HtReceive \/ WaitFails \/ Drain \/ WaitTimesOut \/ Kill \/ KillFails
           \/ \E t \in Threads : Wake(t)
           \/ \E t \in Threads : Take(t)
           \/ \E t \in Threads : Answer(t)
           \/ \E t \in Threads : SignalDone(t)
           \/ \E t \in Threads : ThreadExits(t)
  BY DEF HtNext

\* What the channels hold is a handle.
LEMMA Channels ==
    ASSUME HtTypeOK
    PROVE  /\ tmtIn # <<>> => Head(tmtIn) \in Handle /\ tmtIn = <<Head(tmtIn)>>
           /\ tmtOut # <<>> => Head(tmtOut) \in Handle /\ tmtOut = <<Head(tmtOut)>>
  BY DEF HtTypeOK

\* The caller, the events, the channels and the threads keep their types, and
\* GetHandleWithTimeout never kills a thread it does not have.
THEOREM HtTypeCorrect == HtSpec => [](HtTypeOK /\ Called)
<1>1. HtInit => HtTypeOK /\ Called
  <2> SUFFICES ASSUME HtInit PROVE HtTypeOK /\ Called
    OBVIOUS
  <2> USE HtAssumption DEF HtInit, Handle, Threads
  <2>1. caller \in [at : {"idle", "send", "signal", "await", "receive", "drain", "kill"},
                   h : 0 .. HtCalls, tid : 0 .. HtCalls]
    OBVIOUS
  <2>2. query \in [Threads -> [at : {"absent", "wait", "take", "ask", "signal"},
                              h : 0 .. HtCalls]]
    BY DEF Fresh
  <2>3. tmtIn \in {<<>>} \cup {<<h>> : h \in Handle}
    OBVIOUS
  <2>4. answer \in [Handle -> 0 .. HtCalls] 
    OBVIOUS
  <2>5. ini \in BOOLEAN /\ done \in BOOLEAN
    OBVIOUS
  <2>6. QED
    BY <2>1, <2>2, <2>3, <2>4, <2>5 DEF HtTypeOK, Called, Fresh
<1>2. HtTypeOK /\ Called /\ [HtNext]_htVars => HtTypeOK' /\ Called'
  <2> SUFFICES ASSUME HtTypeOK, Called, [HtNext]_htVars PROVE HtTypeOK' /\ Called'
    OBVIOUS
  <2>1. CASE UNCHANGED htVars
    BY <2>1 DEF htVars, HtTypeOK, Called
  <2>2. CASE Call
    <3>1. /\ caller.h + 1 \in Threads /\ caller.h + 1 # 0
          /\ caller.h + 1 \in 0 .. HtCalls /\ 0 \in 0 .. HtCalls
      BY <2>2, HtAssumption DEF Call, HtTypeOK, Threads
    <3>2. CASE caller.tid = 0
      <4>1. /\ NewChannels
            /\ query' = [query EXCEPT ![caller.h + 1] = [at |-> "wait", h |-> 0]]
            /\ caller' = [at |-> "send", h |-> caller.h + 1, tid |-> caller.h + 1]
            /\ UNCHANGED <<gone, answer, failures>>
        BY <2>2, <3>2 DEF Call
      <4>2. QED
        BY <4>1, <3>1 DEF NewChannels, HtTypeOK, Called
    <3>3. CASE caller.tid # 0
      <4>1. /\ caller' = [caller EXCEPT !.at = "send", !.h = caller.h + 1]
            /\ UNCHANGED <<ini, done, tmtIn, tmtOut, query, gone, answer, failures>>
        BY <2>2, <3>3 DEF Call
      <4>2. QED
        BY <4>1, <3>1, <3>3 DEF HtTypeOK, Called
    <3>4. QED
      BY <3>2, <3>3
  <2>3. CASE CallFails
    <3>1. caller.h + 1 \in 0 .. HtCalls
      BY <2>3, HtAssumption DEF CallFails, HtTypeOK
    <3>2. QED
      BY <2>3, <3>1 DEF CallFails, HtTypeOK, Called
  <2>4. CASE SendHandle
    <3>1. caller.h \in Handle
      BY <2>4, HtAssumption DEF SendHandle, HtTypeOK, Called, Handle
    <3>2. QED
      BY <2>4, <3>1 DEF SendHandle, HtTypeOK, Called
  <2>5. CASE Signal
    BY <2>5 DEF Signal, HtTypeOK, Called
  <2>6. CASE SignalFails
    BY <2>6 DEF SignalFails, HtTypeOK, Called
  <2>7. CASE Signalled
    BY <2>7 DEF Signalled, HtTypeOK, Called
  <2>8. CASE HtReceive
    <3>1. Head(tmtOut) \in 0 .. HtCalls
      BY <2>8, Channels, HtAssumption DEF HtReceive, Handle
    <3>2. QED
      BY <2>8, <3>1 DEF HtReceive, HtTypeOK, Called
  <2>9. CASE WaitFails
    BY <2>9 DEF WaitFails, HtTypeOK, Called
  <2>10. CASE Drain
    BY <2>10 DEF Drain, HtTypeOK, Called
  <2>11. CASE WaitTimesOut
    BY <2>11 DEF WaitTimesOut, HtTypeOK, Called
  <2>12. CASE Kill
    <3>1. caller.tid \in Threads
      BY <2>12, HtAssumption DEF Kill, HtTypeOK, Called, Threads
    <3>2. 0 \in 0 .. HtCalls
      BY HtAssumption
    <3>3. QED
      BY <2>12, <3>1, <3>2 DEF Kill, ForgetThread, HtTypeOK, Called
  <2>13. CASE KillFails
    BY <2>13 DEF KillFails, HtTypeOK, Called
  <2>14. CASE \E t \in Threads : Wake(t)
    <3>1. PICK t \in Threads : Wake(t)
      BY <2>14
    <3>2. /\ query' \in [Threads -> [at : {"absent", "wait", "take", "ask", "signal"},
                                      h : 0 .. HtCalls]]
          /\ \A u \in Threads : query'[u].at = "ask" => query'[u].h # 0
      BY <3>1 DEF Wake, HtTypeOK, Called
    <3>3. ini' \in BOOLEAN /\ UNCHANGED <<caller, done, tmtIn, tmtOut, gone, answer, failures>>
      BY <3>1 DEF Wake
    <3>4. QED
      BY <3>2, <3>3 DEF HtTypeOK, Called
  <2>15. CASE \E t \in Threads : Take(t)
    <3>1. PICK t \in Threads : Take(t)
      BY <2>15
    <3>2. Head(tmtIn) \in 0 .. HtCalls /\ Head(tmtIn) # 0
      BY <3>1, Channels, HtAssumption DEF Take, Handle
    <3>3. QED
      BY <3>1, <3>2 DEF Take, HtTypeOK, Called
  <2>16. CASE \E t \in Threads : Answer(t)
    <3>1. PICK t \in Threads : Answer(t)
      BY <2>16
    <3>2. query[t].h \in Handle
      BY <3>1, HtAssumption DEF Answer, HtTypeOK, Called, Handle
    <3>3. QED
      BY <3>1, <3>2 DEF Answer, HtTypeOK, Called
  <2>17. CASE \E t \in Threads : SignalDone(t)
    <3>1. 0 \in 0 .. HtCalls
      BY HtAssumption
    <3>2. QED
      BY <2>17, <3>1 DEF SignalDone, HtTypeOK, Called
  <2>18. CASE \E t \in Threads : ThreadExits(t)
    BY <2>18 DEF ThreadExits, HtTypeOK, Called
  <2>19. QED
    BY <2>1, <2>2, <2>3, <2>4, <2>5, <2>6, <2>7, <2>8, <2>9, <2>10, <2>11, <2>12,
       <2>13, <2>14, <2>15, <2>16, <2>17, <2>18, HtCases
<1>3. QED
  BY <1>1, <1>2, PTL DEF HtSpec
-----------------------------------------------------------------------------
\* At most one thread is alive, the one of tmt.  Whoever will receive or make
\* someone receive does so with the answer in the channel, and is alone.
Ready ==
    /\ \A t \in Threads \ gone : query[t].at # "absent" => t = caller.tid
    /\ done \/ caller.at = "receive" => tmtOut # <<>>
    /\ ~(done /\ caller.at = "receive")
    /\ \A t \in Threads \ gone : query[t].at = "signal" =>
          tmtOut # <<>> /\ ~done /\ caller.at # "receive"

\* A SetEvent and a wait have not both failed, and no TerminateThread has.
Faithful == "Terminate" \notin failures /\ ~("SetEvent" \in failures /\ "Wait" \in failures)

\* Between calls nothing is under way but a handle whose signal failed.
Quiet ==
    caller.at \in {"idle", "send"} /\ caller.tid # 0 =>
      /\ tmtOut = <<>> /\ ~done
      /\ \A t \in Threads \ gone : query[t].at \notin {"ask", "signal"}
      /\ "SetEvent" \notin failures => tmtIn = <<>>

\* In a call the handle is in one place: the channel in, the thread or the
\* channel out.
OnePlace ==
    caller.at \notin {"idle", "send"} =>
      /\ tmtIn # <<>> =>
            /\ tmtIn = <<caller.h>> /\ tmtOut = <<>>
            /\ \A t \in Threads \ gone : query[t].at \notin {"ask", "signal"}
      /\ tmtOut # <<>> => tmtOut = <<caller.h>>
      /\ \A t \in Threads \ gone :
            /\ query[t].at \in {"ask", "signal"} => query[t].h = caller.h
            /\ query[t].at = "ask" => tmtOut = <<>>

\* As long as no wait has failed, nobody takes a handle back, a signal of ini
\* belongs to the call in progress, and the thread waits for it.
Signals ==
    "Wait" \notin failures /\ caller.tid # 0 =>
      /\ caller.at \in {"idle", "send", "signal"} => ~ini /\ tmtOut = <<>> /\ ~done
      /\ caller.at \in {"idle", "send", "signal"} \/ ini =>
            tmtOut = <<>> /\ \A t \in Threads \ gone : query[t].at \in {"absent", "wait"}
      /\ \A t \in Threads \ gone : query[t].at = "take" => tmtOut = <<>>
      /\ caller.at # "drain"

InStep ==
    Faithful => /\ Quiet /\ OnePlace /\ Signals
                /\ \A h \in Handle : answer[h] \in {0, h}
\* A call without a thread makes the only one alive, and everything else anew.
LEMMA NewThread ==
    ASSUME HtTypeOK, Ready, Call, caller.tid = 0
    PROVE  /\ NewChannels /\ UNCHANGED <<gone, answer, failures>>
           /\ caller' = [at |-> "send", h |-> caller.h + 1, tid |-> caller.h + 1]
           /\ \A t \in Threads \ gone :
                 query'[t].at = "absent" \/ (query'[t].at = "wait" /\ t = caller'.tid)
<1>1. /\ NewChannels /\ UNCHANGED <<gone, answer, failures>>
      /\ query' = [query EXCEPT ![caller.h + 1] = [at |-> "wait", h |-> 0]]
      /\ caller' = [at |-> "send", h |-> caller.h + 1, tid |-> caller.h + 1]
  BY DEF Call
<1>2. \A t \in Threads \ gone : query[t].at = "absent"
  BY DEF Ready, Threads
<1>3. ASSUME NEW t \in Threads \ gone
      PROVE  query'[t].at = "absent" \/ (query'[t].at = "wait" /\ t = caller'.tid)
  <2>1. query'[t] = IF t = caller.h + 1 THEN [at |-> "wait", h |-> 0] ELSE query[t]
    BY <1>1 DEF HtTypeOK
  <2>2. QED
    BY <1>1, <1>2, <2>1
<1>4. QED
  BY <1>1, <1>3

\* Each step keeps the answer ready: only the thread of tmt answers, and only
\* into an empty channel.
LEMMA ReadyStep == HtTypeOK /\ Called /\ Ready /\ [HtNext]_htVars => Ready'
<1> SUFFICES ASSUME HtTypeOK, Called, Ready, [HtNext]_htVars PROVE Ready'
  OBVIOUS
<1>1. CASE UNCHANGED htVars
  BY <1>1 DEF htVars, Ready
<1>2. CASE Call
  <2>1. CASE caller.tid = 0
    <3>1. /\ NewChannels /\ UNCHANGED <<gone, answer, failures>>
          /\ caller' = [at |-> "send", h |-> caller.h + 1, tid |-> caller.h + 1]
          /\ \A t \in Threads \ gone' :
                query'[t].at = "absent" \/ (query'[t].at = "wait" /\ t = caller'.tid)
      BY <1>2, <2>1, NewThread
    <3>2. QED
      BY <3>1 DEF NewChannels, Ready
  <2>2. CASE caller.tid # 0
    <3>1. /\ caller.at = "idle"
          /\ caller' = [caller EXCEPT !.at = "send", !.h = caller.h + 1]
          /\ UNCHANGED <<ini, done, tmtIn, tmtOut, query, gone, answer, failures>>
      BY <1>2, <2>2 DEF Call
    <3>2. QED
      BY <3>1, <2>2 DEF HtTypeOK, Ready
  <2>3. QED
    BY <2>1, <2>2
<1>3. CASE CallFails
  BY <1>3 DEF CallFails, HtTypeOK, Called, Ready
<1>4. CASE SendHandle
  BY <1>4 DEF SendHandle, HtTypeOK, Called, Ready
<1>5. CASE Signal
  BY <1>5 DEF Signal, HtTypeOK, Called, Ready
<1>6. CASE SignalFails
  BY <1>6 DEF SignalFails, HtTypeOK, Called, Ready
<1>7. CASE Signalled
  BY <1>7 DEF Signalled, HtTypeOK, Called, Ready
<1>8. CASE HtReceive
  BY <1>8 DEF HtReceive, HtTypeOK, Called, Ready
<1>9. CASE WaitFails
  BY <1>9 DEF WaitFails, HtTypeOK, Called, Ready
<1>10. CASE Drain
  BY <1>10 DEF Drain, HtTypeOK, Called, Ready
<1>11. CASE WaitTimesOut
  BY <1>11 DEF WaitTimesOut, HtTypeOK, Called, Ready
<1>12. CASE Kill
  BY <1>12 DEF Kill, ForgetThread, HtTypeOK, Called, Ready
<1>13. CASE KillFails
  BY <1>13 DEF KillFails, HtTypeOK, Called, Ready
<1>14. CASE \E t \in Threads : Wake(t)
  BY <1>14 DEF Wake, HtTypeOK, Called, Ready
<1>15. CASE \E t \in Threads : Take(t)
  BY <1>15 DEF Take, HtTypeOK, Called, Ready
<1>16. CASE \E t \in Threads : Answer(t)
  BY <1>16 DEF Answer, HtTypeOK, Called, Ready
<1>17. CASE \E t \in Threads : SignalDone(t)
  BY <1>17 DEF SignalDone, HtTypeOK, Called, Ready
<1>18. CASE \E t \in Threads : ThreadExits(t)
  BY <1>18 DEF ThreadExits, HtTypeOK, Called, Ready
<1>19. QED
  BY <1>1, <1>2, <1>3, <1>4, <1>5, <1>6, <1>7, <1>8, <1>9, <1>10, <1>11, <1>12,
     <1>13, <1>14, <1>15, <1>16, <1>17, <1>18, HtCases

\* The caller that has seen the signal of done finds an answer in the channel.
THEOREM AnswerIsReady == HtSpec => []HtAnswerReady
<1>1. HtInit => Ready
  BY DEF HtInit, Ready, Fresh
<1>2. Ready => HtAnswerReady
  BY DEF Ready, HtAnswerReady
<1>3. QED
  BY <1>1, <1>2, ReadyStep, HtTypeCorrect, PTL DEF HtSpec
-----------------------------------------------------------------------------
\* Each step keeps handles and answers in step.
LEMMA InStepStep ==
    HtTypeOK /\ Called /\ Ready /\ InStep /\ [HtNext]_htVars => InStep'
<1> SUFFICES ASSUME HtTypeOK, Called, Ready, InStep, [HtNext]_htVars, Faithful'
             PROVE  /\ Quiet' /\ OnePlace' /\ Signals'
                    /\ \A h \in Handle : answer'[h] \in {0, h}
  BY DEF InStep
<1>1. CASE UNCHANGED htVars
  BY <1>1 DEF htVars, InStep, Faithful, Quiet, OnePlace, Signals, Ready
<1>2. CASE Call
  <2>1. CASE caller.tid = 0
    <3>1. /\ NewChannels /\ UNCHANGED <<gone, answer, failures>>
          /\ caller' = [at |-> "send", h |-> caller.h + 1, tid |-> caller.h + 1]
          /\ \A t \in Threads \ gone' :
                query'[t].at = "absent" \/ (query'[t].at = "wait" /\ t = caller'.tid)
      BY <1>2, <2>1, NewThread
    <3>2. QED
      BY <3>1 DEF NewChannels, InStep, Faithful, Quiet, OnePlace, Signals, Ready
  <2>2. CASE caller.tid # 0
    <3>1. /\ caller.at = "idle"
          /\ caller' = [caller EXCEPT !.at = "send", !.h = caller.h + 1]
          /\ UNCHANGED <<ini, done, tmtIn, tmtOut, query, gone, answer, failures>>
      BY <1>2, <2>2 DEF Call
    <3>2. QED
      BY <3>1, <2>2 DEF HtTypeOK, InStep, Faithful, Quiet, OnePlace, Signals, Ready
  <2>3. QED
    BY <2>1, <2>2
<1>3. CASE CallFails
  BY <1>3 DEF CallFails, HtTypeOK, Called,
     InStep, Faithful, Quiet, OnePlace, Signals, Ready
<1>4. CASE SendHandle
  BY <1>4 DEF SendHandle, HtTypeOK, Called,
     InStep, Faithful, Quiet, OnePlace, Signals, Ready
<1>5. CASE Signal
  BY <1>5 DEF Signal, HtTypeOK, Called,
     InStep, Faithful, Quiet, OnePlace, Signals, Ready
<1>6. CASE SignalFails
  BY <1>6 DEF SignalFails, HtTypeOK, Called,
     InStep, Faithful, Quiet, OnePlace, Signals, Ready
<1>7. CASE Signalled
  BY <1>7 DEF Signalled, HtTypeOK, Called,
     InStep, Faithful, Quiet, OnePlace, Signals, Ready
<1>8. CASE HtReceive
  BY <1>8 DEF HtReceive, HtTypeOK, Called,
     InStep, Faithful, Quiet, OnePlace, Signals, Ready
<1>9. CASE WaitFails
  BY <1>9 DEF WaitFails, HtTypeOK, Called,
     InStep, Faithful, Quiet, OnePlace, Signals, Ready
<1>10. CASE Drain
  BY <1>10 DEF Drain, HtTypeOK, Called,
     InStep, Faithful, Quiet, OnePlace, Signals, Ready
<1>11. CASE WaitTimesOut
  BY <1>11 DEF WaitTimesOut, HtTypeOK, Called,
     InStep, Faithful, Quiet, OnePlace, Signals, Ready
<1>12. CASE Kill
  BY <1>12 DEF Kill, ForgetThread, HtTypeOK, Called,
     InStep, Faithful, Quiet, OnePlace, Signals, Ready
<1>13. CASE KillFails
  BY <1>13 DEF KillFails, HtTypeOK, Called,
     InStep, Faithful, Quiet, OnePlace, Signals, Ready
<1>14. CASE \E t \in Threads : Wake(t)
  BY <1>14 DEF Wake, HtTypeOK, Called,
     InStep, Faithful, Quiet, OnePlace, Signals, Ready
<1>15. CASE \E t \in Threads : Take(t)
  BY <1>15 DEF Take, HtTypeOK, Called,
     InStep, Faithful, Quiet, OnePlace, Signals, Ready
<1>16. CASE \E t \in Threads : Answer(t)
  BY <1>16 DEF Answer, HtTypeOK, Called,
     InStep, Faithful, Quiet, OnePlace, Signals, Ready
<1>17. CASE \E t \in Threads : SignalDone(t)
  BY <1>17 DEF SignalDone, HtTypeOK, Called,
     InStep, Faithful, Quiet, OnePlace, Signals, Ready
<1>18. CASE \E t \in Threads : ThreadExits(t)
  BY <1>18 DEF ThreadExits, HtTypeOK, Called,
     InStep, Faithful, Quiet, OnePlace, Signals, Ready
<1>19. QED
  BY <1>1, <1>2, <1>3, <1>4, <1>5, <1>6, <1>7, <1>8, <1>9, <1>10, <1>11, <1>12,
     <1>13, <1>14, <1>15, <1>16, <1>17, <1>18, HtCases

\* A caller gets the name of the handle it asked for unless a TerminateThread,
\* or a SetEvent and a wait, have failed.
THEOREM OwnAnswer == HtSpec => []HtOwnAnswer
<1>1. HtInit => Ready /\ InStep
  BY DEF HtInit, Ready, InStep, Quiet, OnePlace, Signals, Fresh
<1>2. InStep => HtOwnAnswer
  BY DEF InStep, Faithful, HtOwnAnswer
<1>3. QED
  BY <1>1, <1>2, ReadyStep, InStepStep, HtTypeCorrect, PTL DEF HtSpec

\* GetHandleWithTimeout finds an answer when it is told that there is one, and
\* that answer is to its own query.
THEOREM AnswersCorrect == HtSpec => []HtAnswer
<1>1. HtAnswerReady /\ HtOwnAnswer => HtAnswer
  BY DEF HtAnswer
<1>2. QED
  BY <1>1, AnswerIsReady, OwnAnswer, PTL
-----------------------------------------------------------------------------
DrainsAfterFailure == caller.at = "drain" => "Wait" \in failures

LEMMA DrainsStep == HtTypeOK /\ DrainsAfterFailure /\ [HtNext]_htVars => DrainsAfterFailure'
<1> SUFFICES ASSUME HtTypeOK, DrainsAfterFailure, [HtNext]_htVars
             PROVE  DrainsAfterFailure'
  OBVIOUS
<1>1. CASE UNCHANGED <<caller, failures>>
  BY <1>1 DEF DrainsAfterFailure
<1>2. CASE caller'.at # "drain"
  BY <1>2 DEF DrainsAfterFailure
<1>3. CASE WaitFails
  BY <1>3 DEF WaitFails, DrainsAfterFailure
<1>4. CASE \/ Call \/ CallFails \/ SendHandle \/ Signal \/ SignalFails \/ Signalled
           \/ HtReceive \/ Drain \/ WaitTimesOut \/ Kill \/ KillFails
  <2>1. ASSUME Call PROVE caller'.at = "send"
    <3>1. CASE caller.tid = 0
      BY <2>1, <3>1 DEF Call
    <3>2. CASE caller.tid # 0
      <4>1. caller' = [caller EXCEPT !.at = "send", !.h = caller.h + 1]
        BY <2>1, <3>2 DEF Call
      <4>2. QED
        BY <4>1 DEF HtTypeOK
    <3>3. QED
      BY <3>1, <3>2
  <2>2. ASSUME CallFails PROVE caller'.at = "idle"
    BY <2>2 DEF CallFails, HtTypeOK
  <2>3. ASSUME SendHandle \/ Signal \/ SignalFails \/ Signalled PROVE caller'.at # "drain"
    BY <2>3 DEF SendHandle, Signal, SignalFails, Signalled, HtTypeOK
  <2>4. ASSUME HtReceive \/ Drain \/ WaitTimesOut PROVE caller'.at # "drain"
    BY <2>4 DEF HtReceive, Drain, WaitTimesOut, HtTypeOK
  <2>5. ASSUME Kill \/ KillFails PROVE caller'.at = "idle"
    BY <2>5 DEF Kill, KillFails, ForgetThread, HtTypeOK
  <2>6. QED
    BY <1>2, <1>4, <2>1, <2>2, <2>3, <2>4, <2>5
<1>5. CASE \/ UNCHANGED htVars
           \/ \E t \in Threads :
                 Wake(t) \/ Take(t) \/ Answer(t) \/ SignalDone(t) \/ ThreadExits(t)
  <2>1. UNCHANGED <<caller, failures>>
    BY <1>5 DEF htVars, Wake, Take, Answer, SignalDone, ThreadExits
  <2>2. QED
    BY <1>1, <2>1
<1>6. QED
  BY <1>3, <1>4, <1>5 DEF HtNext

\* Without failing system calls GetHandleWithTimeout never blocks on one of its
\* channels, however late the kernel answers and whenever the thread is killed.
THEOREM BlockedOnlyByFailure == HtSpec => []HtBlockedOnlyByFailure
<1>1. HtInit => Ready /\ InStep /\ DrainsAfterFailure
  BY DEF HtInit, Ready, InStep, Quiet, OnePlace, Signals, Fresh, DrainsAfterFailure
<1>2. HtTypeOK /\ Called /\ Ready /\ InStep /\ DrainsAfterFailure => HtBlockedOnlyByFailure
  <2> SUFFICES ASSUME HtTypeOK, Called, Ready, InStep, DrainsAfterFailure
               PROVE  HtBlockedOnlyByFailure
    OBVIOUS
  <2>1. ASSUME caller.at = "send", tmtIn # <<>>, "SetEvent" \notin failures,
               "Terminate" \notin failures
        PROVE  FALSE
    BY <2>1 DEF Called, InStep, Faithful, Quiet
  <2>2. QED
    BY <2>1 DEF Ready, DrainsAfterFailure, HtBlockedOnlyByFailure
<1>3. QED
  BY <1>1, <1>2, ReadyStep, InStepStep, DrainsStep, HtTypeCorrect, PTL DEF HtSpec
=============================================================================
