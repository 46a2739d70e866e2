------------------------ MODULE SequenceStateProofs ------------------------
(***************************************************************************)
(* Proofs about SequenceState, for every number of expressions, every set  *)
(* of events and, unless a theorem says otherwise, every set of threads.   *)
(***************************************************************************)
EXTENDS SequenceState, FiniteSetTheorems, TLAPS

USE NAssumption, EventAssumption, NoneAssumption, FlagAssumption, BoundAssumption

LEMMA SlotFacts ==
    /\ 0 \in Slot
    /\ Slot \subseteq Nat
    /\ \A k \in FsmState : k # Terminal => k \in Slot /\ k + 1 \in FsmState
    /\ \A e \in Event : e.slots \subseteq Slot /\ e.ts \in Nat
BY DEF Slot, Terminal, FsmState, EventRecord

LEMMA InitType == Init => TypeOK
<1> SUFFICES ASSUME Init PROVE TypeOK
  OBVIOUS
<1>1. /\ partials \in [Slot -> SUBSET Event]
      /\ matches \in [Slot -> Event \cup {None}]
      /\ states \in [Slot -> BOOLEAN]
      /\ span \in [Slot -> Nat]
  BY DEF Init, NoPartials, NoMatches, NoStates, NoSpan
<1>2. /\ idx \in [Thread -> Slot] /\ oslot \in [Thread -> 0 .. N]
      /\ todo \in [Thread -> SUBSET (Slot \X Event)]
  BY SlotFacts, NAssumption DEF Init
<1>3. /\ pc \in [Thread -> PCs] /\ cur \in [Thread -> Event \cup {None}]
      /\ \A t \in Thread : pc[t] # "idle" => cur[t] \in Event
  BY DEF Init, PCs
<1>4. /\ toCome \subseteq Event /\ fsm \in FsmState /\ gen \in Nat
      /\ lastMatch \in Nat /\ reached \in Nat /\ reported \in Nat
  BY DEF Init, FsmState
<1>6. inDeadline \in BOOLEAN /\ inExpired \in BOOLEAN
  BY DEF Init
<1>5. /\ linked \subseteq Event /\ ooo \subseteq Event
      /\ timers \subseteq Timer /\ firing \subseteq Timer /\ seen \subseteq Slot
      /\ alerts \subseteq [Slot -> Event \cup {None}] /\ overtaken \subseteq Event
  BY DEF Init
<1> QED
  BY <1>1, <1>2, <1>3, <1>4, <1>5, <1>6 DEF TypeOK

LEMMA ContinueType ==
    ASSUME TypeOK, NEW t \in Thread, pc[t] # "idle", Continue(t), UNCHANGED cur
    PROVE  /\ pc' \in [Thread -> PCs] /\ idx' \in [Thread -> Slot]
           /\ \A u \in Thread : pc'[u] # "idle" => cur'[u] \in Event
<1>1. cur[t] \in Event
  BY DEF TypeOK
<1>2. cur[t].slots \subseteq Slot
  BY <1>1, SlotFacts
<1>3. \A k \in Later(t, idx[t]) : k \in Slot
  BY <1>2 DEF Later
<1>4. /\ pc \in [Thread -> PCs] /\ idx \in [Thread -> Slot] /\ cur' = cur
      /\ \A u \in Thread : pc[u] # "idle" => cur[u] \in Event
  BY DEF TypeOK
<1>5. CASE Goto(t, "idle") /\ UNCHANGED idx
  BY <1>1, <1>4, <1>5 DEF Goto, PCs
<1>6. ASSUME NEW k \in Slot, Goto(t, "next"), idx' = [idx EXCEPT ![t] = k]
      PROVE  /\ pc' \in [Thread -> PCs] /\ idx' \in [Thread -> Slot]
             /\ \A u \in Thread : pc'[u] # "idle" => cur'[u] \in Event
  BY <1>1, <1>4, <1>6 DEF Goto, PCs
<1> QED
  BY <1>3, <1>5, <1>6 DEF Continue

LEMMA EnterType ==
    ASSUME TypeOK, NEW t \in Thread, NEW e \in Event, Take(t, e), Enter(t, e)
    PROVE  /\ toCome' \subseteq Event
           /\ pc' \in [Thread -> PCs] /\ idx' \in [Thread -> Slot]
           /\ cur' \in [Thread -> Event \cup {None}]
           /\ \A u \in Thread : pc'[u] # "idle" => cur'[u] \in Event
<1>1. e.slots \subseteq Slot
  BY SlotFacts
<1> QED
  BY <1>1 DEF TypeOK, Take, Enter, Goto, PCs

LEMMA ClearType ==
    ASSUME TypeOK, Clear
    PROVE  /\ partials' \in [Slot -> SUBSET Event]
           /\ matches' \in [Slot -> Event \cup {None}]
           /\ states' \in [Slot -> BOOLEAN]
           /\ lastMatch' \in Nat
           /\ span' \in [Slot -> Nat]
           /\ overtaken' \subseteq Event
<1>1. \A t \in LetIn : cur[t] \in Event
  BY DEF TypeOK, LetIn
<1>2. overtaken' \subseteq Event
  BY <1>1 DEF TypeOK, Clear
<1> QED
  BY <1>2 DEF Clear, NoPartials, NoMatches, NoStates, NoSpan

LEMMA MatchType ==
    ASSUME TypeOK, NEW k \in Slot, MatchTransition(k)
    PROVE  /\ states' \in [Slot -> BOOLEAN]
           /\ fsm' \in FsmState
           /\ inDeadline' \in BOOLEAN /\ inExpired' \in BOOLEAN
           /\ timers' \subseteq Timer /\ gen' \in Nat
           /\ span' \in [Slot -> Nat]
           /\ seen' \subseteq Slot
           /\ reached' \in Nat
<1>1. seen' \subseteq Slot
  BY DEF TypeOK, MatchTransition
<1>2. CASE states[k] \/ fsm = Terminal
  BY <1>1, <1>2 DEF TypeOK, MatchTransition, fsmVars
<1>3. CASE ~(states[k] \/ fsm = Terminal)
  <2> DEFINE armed == MaxSpan /\ Schedulable(fsm + 1)
             old == {r \in timers : r # [state |-> fsm, gen |-> span[fsm]]}
             new == IF armed THEN {[state |-> fsm + 1, gen |-> gen + 1]} ELSE {}
  <2>1. /\ fsm' = fsm + 1
        /\ reached' = IF fsm + 1 = Terminal THEN reached + 1 ELSE reached
        /\ states' = [states EXCEPT ![fsm] = TRUE]
        /\ inDeadline' = (inDeadline /\ fsm # 0)
        /\ inExpired' = (inExpired /\ fsm # 0)
        /\ gen' = IF armed THEN gen + 1 ELSE gen
        /\ timers' = old \cup new
        /\ span' = [k2 \in Slot |-> IF k2 = fsm THEN 0
                                    ELSE IF armed /\ k2 = fsm + 1 THEN gen + 1
                                    ELSE span[k2]]
    BY <1>3 DEF MatchTransition, StateAfter, MatchedStates, Unblock
  <2>2. fsm \in Slot /\ fsm + 1 \in FsmState
    BY <1>3, SlotFacts DEF TypeOK
  <2>3. states' \in [Slot -> BOOLEAN] /\ fsm' \in FsmState
    BY <2>1, <2>2 DEF TypeOK
  <2>4. inDeadline' \in BOOLEAN /\ inExpired' \in BOOLEAN
    BY <2>1
  <2>5. gen' \in Nat /\ reached' \in Nat /\ span' \in [Slot -> Nat]
    BY <2>1 DEF TypeOK
  <2>6. old \subseteq Timer /\ new \subseteq Timer
    BY DEF TypeOK, Schedulable, Timer
  <2> QED
    BY <1>1, <2>1, <2>3, <2>4, <2>5, <2>6
<1> QED
  BY <1>2, <1>3

\* One step of a thread, without the engine's part (Take, Enter).
LEMMA ThreadType ==
    ASSUME TypeOK, NEW t \in Thread, ThreadStep(t)
    PROVE  TypeOK'
<1> USE DEF seqVars, fsmVars, metaVars, timerVars, loopVars, alertVars
<1>0. /\ pc[t] # "idle" => cur[t] \in Event
      /\ idx[t] \in Slot
  BY DEF TypeOK
<1>1. CASE CheckNext(t)
  BY <1>1 DEF TypeOK, CheckNext, Goto, PCs
<1>2. CASE SkipExpr(t)
  <2>1. pc[t] # "idle" /\ Continue(t) /\ UNCHANGED cur
    BY <1>2 DEF SkipExpr
  <2> QED BY <1>2, <2>1, ContinueType DEF TypeOK, SkipExpr
<1>3. CASE KeepOutOfOrder(t)
  BY <1>3 DEF TypeOK, KeepOutOfOrder, Goto, PCs
<1>4. CASE RunExpr(t)
  <2>1. linked' \subseteq Event
    BY <1>0, <1>4, AliasAssumption DEF TypeOK, RunExpr, LinkedAfter, BoundPartials
  <2>2. CASE Continue(t)
    <3>1. pc[t] # "idle" /\ UNCHANGED cur
      BY <1>4 DEF RunExpr
    <3> QED BY <1>4, <2>1, <2>2, <3>1, ContinueType DEF TypeOK, RunExpr
  <2>3. CASE Goto(t, "add") /\ UNCHANGED idx
    BY <1>0, <1>4, <2>1, <2>3 DEF TypeOK, RunExpr, Goto, PCs
  <2> QED BY <1>4, <2>2, <2>3 DEF RunExpr
<1>5. CASE RunFails(t)
  <2>1. pc[t] # "idle" /\ Continue(t) /\ UNCHANGED cur
    BY <1>5 DEF RunFails
  <2> QED BY <1>5, <2>1, ContinueType DEF TypeOK, RunFails
<1>6. CASE AddPartial(t)
  <2>1. partials' \in [Slot -> SUBSET Event]
    BY <1>0, <1>6 DEF TypeOK, AddPartial, PartialsAfterAdd
  <2> QED BY <1>0, <1>6, <2>1 DEF TypeOK, AddPartial, Goto, PCs
<1>7. CASE AddOutOfOrder(t)
  <2>1. partials' \in [Slot -> SUBSET Event] /\ ooo' \subseteq Event
    BY <1>0, <1>7 DEF TypeOK, AddOutOfOrder, PartialsAfterAdd
  <2>2. pc[t] # "idle" /\ Continue(t) /\ UNCHANGED cur
    BY <1>7 DEF AddOutOfOrder
  <2> QED BY <1>7, <2>1, <2>2, ContinueType DEF TypeOK, AddOutOfOrder
<1>8. CASE Fire(t)
  <2>1. MatchTransition(idx[t])
    BY <1>8 DEF Fire
  <2>2. pc' \in [Thread -> PCs] /\ \A u \in Thread : pc'[u] # "idle" => cur'[u] \in Event
    BY <1>0, <1>8 DEF TypeOK, Fire, Goto, PCs
  <2> QED BY <1>0, <1>8, <2>1, <2>2, MatchType DEF TypeOK, Fire
<1>9. CASE SaveLastMatch(t)
  <2>1. lastMatch' \in Nat
    BY <1>0, <1>9, SlotFacts DEF SaveLastMatch
  <2> QED BY <1>0, <1>9, <2>1 DEF TypeOK, SaveLastMatch, Goto, PCs
<1>10. CASE StartOutOfOrder(t)
  <2>1. todo' \in [Thread -> SUBSET (Slot \X Event)]
    BY <1>10 DEF TypeOK, StartOutOfOrder
  <2> QED BY <1>0, <1>10, <2>1 DEF TypeOK, StartOutOfOrder, Goto, PCs
<1>11. ASSUME NEW k \in Slot, NEW p \in Event, SkipOutOfOrder(t, k, p)
       PROVE  TypeOK'
  <2>1. todo' \in [Thread -> SUBSET (Slot \X Event)] /\ oslot' \in [Thread -> 0 .. N]
    <3>1. k \in 0 .. N
      BY NAssumption DEF Slot
    <3> QED BY <1>11, <3>1 DEF TypeOK, SkipOutOfOrder, NextOutOfOrder
  <2> QED BY <1>11, <2>1 DEF TypeOK, SkipOutOfOrder
<1>12. ASSUME NEW k \in Slot, NEW p \in Event, FireOutOfOrder(t, k, p)
       PROVE  TypeOK'
  <2>1. todo' \in [Thread -> SUBSET (Slot \X Event)] /\ oslot' \in [Thread -> 0 .. N]
    <3>1. k \in 0 .. N
      BY NAssumption DEF Slot
    <3> QED BY <1>12, <3>1 DEF TypeOK, FireOutOfOrder, NextOutOfOrder
  <2>2. linked' \subseteq Event /\ ooo' \subseteq Event
    BY <1>12, AliasAssumption DEF TypeOK, FireOutOfOrder, NextOutOfOrder, LinkedAfter, BoundPartials
  <2>3. MatchTransition(k)
    BY <1>12 DEF FireOutOfOrder
  <2> QED BY <1>12, <2>1, <2>2, <2>3, MatchType DEF TypeOK, FireOutOfOrder
<1>13. CASE EndOutOfOrder(t)
  <2>1. oslot' \in [Thread -> 0 .. N]
    BY <1>13, NAssumption DEF TypeOK, EndOutOfOrder
  <2> QED BY <1>0, <1>13, <2>1 DEF TypeOK, EndOutOfOrder, Goto, PCs
<1>14. CASE CheckTerminal(t)
  <2>1. CASE Continue(t)
    <3>1. pc[t] # "idle" /\ UNCHANGED cur
      BY <1>14 DEF CheckTerminal
    <3> QED BY <1>14, <2>1, <3>1, ContinueType DEF TypeOK, CheckTerminal
  <2>2. CASE Goto(t, "reset") /\ UNCHANGED idx
    BY <1>0, <1>14, <2>2 DEF TypeOK, CheckTerminal, Goto, PCs
  <2> QED BY <1>14, <2>1, <2>2 DEF CheckTerminal
<1>15. CASE ResetTerminal(t)
  <2>1. fsm' \in FsmState
    BY <1>15 DEF TypeOK, ResetTerminal, AfterReset, FsmState
  <2> QED BY <1>0, <1>15, <2>1 DEF TypeOK, ResetTerminal, Goto, PCs
<1>16. CASE Collect(t)
  BY <1>0, <1>16 DEF TypeOK, Collect, Goto, PCs
<1>17. CASE Report(t)
  <2>1. reported' \in Nat /\ alerts' \subseteq [Slot -> Event \cup {None}]
    BY <1>17 DEF TypeOK, Report
  <2> QED BY <1>0, <1>17, <2>1 DEF TypeOK, Report, Goto, PCs
<1>18. CASE ClearLocked(t)
  <2>1. Clear
    BY <1>18 DEF ClearLocked
  <2> QED BY <1>0, <1>18, <2>1, ClearType DEF TypeOK, ClearLocked, Goto, PCs
<1> QED
  BY <1>1, <1>2, <1>3, <1>4, <1>5, <1>6, <1>7, <1>8, <1>9, <1>10, <1>11, <1>12,
     <1>13, <1>14, <1>15, <1>16, <1>17, <1>18 DEF ThreadStep

\* The engine's step: take an event and, if a process ended, expire partials.
LEMMA EngineType ==
    ASSUME TypeOK, NEW t \in Thread, NEW e \in Event,
           \/ Process(t, e) \/ ExpirePartials(t, e)
           \/ ExpireSequence(t, e) \/ ExpireTerminal(t, e)
    PROVE  TypeOK'
<1> USE DEF seqVars, fsmVars, metaVars, timerVars, loopVars, alertVars
<1>1. Take(t, e) /\ Enter(t, e)
  BY DEF Process, ExpirePartials, ExpireSequence, ExpireTerminal
<1>2. \A V \in SUBSET Slot : PartialsAfterExpire(V, e) \in [Slot -> SUBSET Event]
  BY DEF TypeOK, PartialsAfterExpire, Alive
<1>3. CASE Process(t, e)
  BY <1>1, <1>3, EnterType DEF TypeOK, Process
<1>4. CASE ExpirePartials(t, e)
  <2>1. partials' \in [Slot -> SUBSET Event]
    BY <1>2, <1>4 DEF ExpirePartials
  <2> QED BY <1>1, <1>4, <2>1, EnterType DEF TypeOK, ExpirePartials
<1>5. CASE ExpireSequence(t, e)
  <2>1. Clear
    BY <1>5 DEF ExpireSequence
  <2>2. fsm' \in FsmState /\ inDeadline' \in BOOLEAN /\ inExpired' \in BOOLEAN
    BY <1>5 DEF ExpireSequence, FsmState
  <2> QED BY <1>1, <1>5, <2>1, <2>2, EnterType, ClearType DEF TypeOK, ExpireSequence
<1>6. CASE ExpireTerminal(t, e)
  <2>1. PICK z \in Slot, V \in SUBSET Slot : partials' = PartialsAfterExpire(V \cup {z}, e)
    BY <1>6 DEF ExpireTerminal
  <2>2. partials' \in [Slot -> SUBSET Event]
    BY <1>2, <2>1
  <2>3. fsm' \in FsmState
    BY <1>6 DEF ExpireTerminal, FsmState
  <2> QED BY <1>1, <1>6, <2>2, <2>3, EnterType DEF TypeOK, ExpireTerminal
<1> QED
  BY <1>3, <1>4, <1>5, <1>6

\* The steps of the span timers and of the scavenger.
LEMMA TimerType ==
    ASSUME TypeOK, NEW r,
           \/ TimerCheck(r) \/ TimerCancel(r) \/ TimerCancelTerminal(r)
    PROVE  TypeOK'
<1> USE DEF seqVars, fsmVars, metaVars, timerVars, loopVars, alertVars
<1>1. CASE TimerCheck(r)
  BY <1>1 DEF TypeOK, TimerCheck
<1>2. CASE TimerCancel(r)
  <2>1. Clear
    BY <1>2 DEF TimerCancel
  <2>2. fsm' \in FsmState /\ inDeadline' \in BOOLEAN /\ inExpired' \in BOOLEAN
    BY <1>2 DEF TimerCancel, FsmState
  <2> QED BY <1>2, <2>1, <2>2, ClearType DEF TypeOK, TimerCancel
<1>3. CASE TimerCancelTerminal(r)
  <2>1. fsm' \in FsmState
    BY <1>3 DEF TimerCancelTerminal, FsmState
  <2> QED BY <1>3, <2>1 DEF TypeOK, TimerCancelTerminal
<1> QED
  BY <1>1, <1>2, <1>3

LEMMA GcType ==
    ASSUME TypeOK, NEW cut, Gc(cut)
    PROVE  TypeOK'
<1>1. partials' \in [Slot -> SUBSET Event]
  BY DEF TypeOK, Gc
<1> QED
  BY <1>1 DEF TypeOK, Gc, fsmVars, metaVars, timerVars, loopVars, alertVars

LEMMA StutterType ==
    ASSUME TypeOK, UNCHANGED vars
    PROVE  TypeOK'
BY DEF TypeOK, vars, seqVars, fsmVars, metaVars, timerVars, loopVars, alertVars

\* What Next is made of, for the proofs that go through its disjuncts.
LEMMA NextCases ==
    ASSUME [Next]_vars
    PROVE  \/ \E t \in Thread, e \in Event :
                \/ Process(t, e) \/ ExpirePartials(t, e)
                \/ ExpireSequence(t, e) \/ ExpireTerminal(t, e)
           \/ \E t \in Thread : ThreadStep(t)
           \/ \E r : TimerCheck(r) \/ TimerCancel(r) \/ TimerCancelTerminal(r)
           \/ \E cut : Gc(cut)
           \/ UNCHANGED vars
BY DEF Next, Rest

LEMMA TypeStep ==
    ASSUME TypeOK, [Next]_vars
    PROVE  TypeOK'
BY NextCases, EngineType, ThreadType, TimerType, GcType, StutterType

\* The fields of sequenceState and the locals of runSequence keep their types,
\* whatever the number of expressions, threads and timers.
THEOREM TypeCorrect == Spec => []TypeOK
<1>1. Init => TypeOK
  BY InitType
<1>2. TypeOK /\ [Next]_vars => TypeOK'
  BY TypeStep
<1> QED
  BY <1>1, <1>2, PTL DEF Spec
-----------------------------------------------------------------------------
(* Deadlines *)

\* The steps of a thread that change the state machine, and all others.
LEMMA ThreadCases ==
    ASSUME TypeOK, NEW t \in Thread, ThreadStep(t)
    PROVE  \/ UNCHANGED <<fsmVars, timerVars, states>>
           \/ \E k \in Slot : MatchTransition(k) /\ UNCHANGED firing
           \/ ResetTerminal(t)
           \/ ClearLocked(t)
<1> USE DEF seqVars, timerVars
<1>1. CASE Fire(t)
  BY <1>1 DEF Fire, TypeOK
<1>2. ASSUME NEW k \in Slot, NEW p \in Event, FireOutOfOrder(t, k, p)
      PROVE  MatchTransition(k) /\ UNCHANGED firing
  BY <1>2 DEF FireOutOfOrder
<1>3. ASSUME NEW k \in Slot, NEW p \in Event, SkipOutOfOrder(t, k, p)
      PROVE  UNCHANGED <<fsmVars, timerVars, states>>
  BY <1>3 DEF SkipOutOfOrder
<1>4. CASE \/ CheckNext(t) \/ SkipExpr(t) \/ KeepOutOfOrder(t) \/ RunExpr(t)
           \/ RunFails(t) \/ AddPartial(t) \/ AddOutOfOrder(t) \/ SaveLastMatch(t)
           \/ StartOutOfOrder(t) \/ EndOutOfOrder(t) \/ CheckTerminal(t)
           \/ Collect(t) \/ Report(t)
  BY <1>4 DEF CheckNext, SkipExpr, KeepOutOfOrder, RunExpr, RunFails, AddPartial,
              AddOutOfOrder, SaveLastMatch, StartOutOfOrder, EndOutOfOrder,
              CheckTerminal, Collect, Report
<1> QED
  BY <1>1, <1>2, <1>3, <1>4 DEF ThreadStep

\* What the match trigger does to the state machine, if it fires.
LEMMA MatchEffect ==
    ASSUME TypeOK, NEW k \in Slot, MatchTransition(k)
    PROVE  \/ UNCHANGED <<fsm, inDeadline, inExpired, timers, states, reached>>
           \/ /\ ~states[k] /\ fsm # Terminal /\ fsm' = fsm + 1
              /\ inDeadline' = (inDeadline /\ fsm # 0)
              /\ inExpired' = (inExpired /\ fsm # 0)
              /\ states' = [states EXCEPT ![fsm] = TRUE]
              /\ reached' = IF fsm + 1 = Terminal THEN reached + 1 ELSE reached
              /\ MaxSpan /\ fsm' \in 1 .. N - 1 => \E r \in timers' : r.state = fsm'
<1>1. CASE states[k] \/ fsm = Terminal
  BY <1>1 DEF MatchTransition, fsmVars
<1>2. CASE ~(states[k] \/ fsm = Terminal)
  <2>1. /\ fsm' = fsm + 1
        /\ inDeadline' = (inDeadline /\ fsm # 0)
        /\ inExpired' = (inExpired /\ fsm # 0)
        /\ states' = [states EXCEPT ![fsm] = TRUE]
        /\ reached' = IF fsm + 1 = Terminal THEN reached + 1 ELSE reached
    BY <1>2 DEF MatchTransition, StateAfter, MatchedStates, Unblock
  <2>2. ASSUME MaxSpan, fsm' \in 1 .. N - 1
        PROVE  \E r \in timers' : r.state = fsm'
    <3>1. [state |-> fsm + 1, gen |-> gen + 1] \in timers'
      BY <1>2, <2>1, <2>2 DEF MatchTransition, StateAfter, Schedulable
    <3> QED BY <2>1, <3>1
  <2> QED BY <1>2, <2>1, <2>2
<1> QED
  BY <1>1, <1>2

(***************************************************************************)
(* The marks are set only while the state machine is on its way to state 0,*)
(* and the first match from there removes them.  NotBlocked alone is not   *)
(* inductive: it says nothing about Terminal, from which a late reset      *)
(* would otherwise carry a mark along.                                     *)
(***************************************************************************)
Unblocked ==
    /\ inDeadline => fsm = 0 \/ firing # {}
    /\ inExpired => fsm = 0

LEMMA UnblockedStep ==
    ASSUME TypeOK, Unblocked, [Next]_vars
    PROVE  Unblocked'
<1>1. ASSUME NEW t \in Thread, NEW e \in Event,
             \/ Process(t, e) \/ ExpirePartials(t, e)
             \/ ExpireSequence(t, e) \/ ExpireTerminal(t, e)
      PROVE  Unblocked'
  BY <1>1 DEF Unblocked, Process, ExpirePartials, ExpireSequence, ExpireTerminal,
              fsmVars, timerVars
<1>2. ASSUME NEW t \in Thread, ThreadStep(t)
      PROVE  Unblocked'
  <2>1. CASE UNCHANGED <<fsmVars, timerVars, states>>
    BY <2>1 DEF Unblocked, fsmVars, timerVars
  <2>2. ASSUME NEW k \in Slot, MatchTransition(k), UNCHANGED firing
        PROVE  Unblocked'
    BY <2>2, MatchEffect DEF Unblocked
  <2>3. CASE ResetTerminal(t)
    BY <2>3 DEF Unblocked, ResetTerminal, AfterReset, timerVars
  <2>4. CASE ClearLocked(t)
    BY <2>4 DEF Unblocked, ClearLocked, fsmVars, timerVars
  <2> QED BY <1>2, <2>1, <2>2, <2>3, <2>4, ThreadCases
<1>3. ASSUME NEW r, TimerCheck(r) \/ TimerCancel(r) \/ TimerCancelTerminal(r)
      PROVE  Unblocked'
  BY <1>3 DEF Unblocked, TimerCheck, TimerCancel, TimerCancelTerminal
<1>4. ASSUME NEW cut, Gc(cut)
      PROVE  Unblocked'
  BY <1>4 DEF Unblocked, Gc, fsmVars, timerVars
<1>5. CASE UNCHANGED vars
  BY <1>5 DEF Unblocked, vars, fsmVars, timerVars
<1> QED
  BY <1>1, <1>2, <1>3, <1>4, <1>5, NextCases

\* A sequence under way is never stuck behind the mark of an earlier deadline
\* or expiration, however many threads run it: next refuses its expressions
\* only while a timer callback is about to reset it.
THEOREM NeverBlocked == Spec => []NotBlocked
<1>1. Init => TypeOK /\ Unblocked
  BY InitType DEF Init, Unblocked
<1>2. TypeOK /\ Unblocked /\ [Next]_vars => (TypeOK /\ Unblocked)'
  BY TypeStep, UnblockedStep
<1>3. Unblocked => NotBlocked
  BY DEF Unblocked, NotBlocked
<1> QED
  BY <1>1, <1>2, <1>3, PTL DEF Spec

LEMMA ArmedStep ==
    ASSUME TypeOK, SpanArmed, [Next]_vars
    PROVE  SpanArmed'
<1>1. ASSUME NEW t \in Thread, NEW e \in Event,
             \/ Process(t, e) \/ ExpirePartials(t, e)
             \/ ExpireSequence(t, e) \/ ExpireTerminal(t, e)
      PROVE  SpanArmed'
  BY <1>1 DEF SpanArmed, Process, ExpirePartials, ExpireSequence, ExpireTerminal,
              fsmVars, timerVars
<1>2. ASSUME NEW t \in Thread, ThreadStep(t)
      PROVE  SpanArmed'
  <2>1. CASE UNCHANGED <<fsmVars, timerVars, states>>
    BY <2>1 DEF SpanArmed, fsmVars, timerVars
  <2>2. ASSUME NEW k \in Slot, MatchTransition(k), UNCHANGED firing
        PROVE  SpanArmed'
    <3>1. CASE UNCHANGED <<fsm, timers>>
      BY <2>2, <3>1 DEF SpanArmed
    <3>2. CASE MaxSpan /\ fsm' \in 1 .. N - 1 => \E r \in timers' : r.state = fsm'
      BY <3>2 DEF SpanArmed
    <3> QED BY <2>2, <3>1, <3>2, MatchEffect
  <2>3. CASE ResetTerminal(t)
    <3>1. UNCHANGED <<timers, firing>> /\ (fsm' = 0 \/ fsm' = fsm)
      BY <2>3 DEF ResetTerminal, AfterReset, timerVars
    <3>2. CASE fsm' = 0
      BY <3>2 DEF SpanArmed
    <3>3. CASE fsm' = fsm
      BY <3>1, <3>3 DEF SpanArmed
    <3> QED BY <3>1, <3>2, <3>3
  <2>4. CASE ClearLocked(t)
    BY <2>4 DEF SpanArmed, ClearLocked, fsmVars, timerVars
  <2> QED BY <1>2, <2>1, <2>2, <2>3, <2>4, ThreadCases
<1>3. ASSUME NEW r, TimerCheck(r) \/ TimerCancel(r) \/ TimerCancelTerminal(r)
      PROVE  SpanArmed'
  <2>1. CASE TimerCheck(r) /\ fsm = r.state
    BY <2>1 DEF SpanArmed, TimerCheck
  <2>2. CASE TimerCheck(r) /\ fsm # r.state
    BY <2>2 DEF SpanArmed, TimerCheck
  <2>3. CASE TimerCancel(r) \/ TimerCancelTerminal(r)
    <3>1. fsm' = 0
      BY <2>3 DEF TimerCancel, TimerCancelTerminal
    <3> QED BY <3>1 DEF SpanArmed
  <2> QED BY <1>3, <2>1, <2>2, <2>3
<1>4. ASSUME NEW cut, Gc(cut)
      PROVE  SpanArmed'
  BY <1>4 DEF SpanArmed, Gc, fsmVars, timerVars
<1>5. CASE UNCHANGED vars
  BY <1>5 DEF SpanArmed, vars, fsmVars, timerVars
<1> QED
  BY <1>1, <1>2, <1>3, <1>4, <1>5, NextCases

\* A sequence with a maxspan that waits in one of its states always has a timer
\* that will get it out, though clear forgets timers it does not stop.
THEOREM AlwaysArmed == Spec => []SpanArmed
<1>1. Init => TypeOK /\ SpanArmed
  BY InitType DEF Init, SpanArmed
<1>2. TypeOK /\ SpanArmed /\ [Next]_vars => (TypeOK /\ SpanArmed)'
  BY TypeStep, ArmedStep
<1> QED
  BY <1>1, <1>2, PTL DEF Spec
-----------------------------------------------------------------------------
(* One thread *)

(***************************************************************************)
(* The state machine is back in state 0 when the thread that found it in   *)
(* Terminal collects, reports and clears.  With a second thread this fails:*)
(* both may find it in Terminal, and one of them clears a sequence the     *)
(* other has already started again.                                        *)
(***************************************************************************)
Prefix == \A k \in Slot : states[k] <=> k < fsm
Leftover == fsm = 0 /\ \A k \in Slot : states[k]

SoloControl(t) ==
    /\ Prefix \/ Leftover
    /\ pc[t] = "reset" => fsm \in {0, Terminal}
    /\ pc[t] \in {"collect", "report", "clear"} => fsm = 0

\* Matches that are due: the thread has seen Terminal, or will see it.
Due(t) == IF pc[t] \in {"reset", "collect", "report"} \/ fsm = Terminal THEN 1 ELSE 0

SoloCount(t) == reported + Due(t) <= reached

LEMMA TerminalPrefix ==
    ASSUME Prefix, fsm = Terminal
    PROVE  \A k \in Slot : states[k]
BY DEF Prefix, Terminal, Slot

\* The match trigger keeps states and the state machine in agreement,
\* whichever expression the event satisfied.
LEMMA MatchPrefix ==
    ASSUME TypeOK, NEW k \in Slot, MatchTransition(k), Prefix \/ Leftover
    PROVE  Prefix' \/ Leftover'
<1>1. CASE UNCHANGED <<fsm, states>>
  BY <1>1 DEF Prefix, Leftover
<1>2. CASE /\ ~states[k] /\ fsm # Terminal /\ fsm' = fsm + 1
           /\ states' = [states EXCEPT ![fsm] = TRUE]
  <2>1. Prefix
    BY <1>2 DEF Leftover
  <2>2. fsm \in Slot
    BY <1>2, SlotFacts DEF TypeOK
  <2>3. ASSUME NEW j \in Slot
        PROVE  states'[j] <=> j < fsm'
    <3>1. j \in Nat /\ fsm \in Nat
      BY <2>2, SlotFacts
    <3>2. states'[j] = IF j = fsm THEN TRUE ELSE states[j]
      BY <1>2 DEF TypeOK
    <3>3. CASE j = fsm
      <4>1. j < fsm'
        BY <1>2, <3>1, <3>3
      <4> QED BY <3>2, <3>3, <4>1
    <3>4. CASE j # fsm
      <4>1. j < fsm + 1 <=> j < fsm
        BY <3>1, <3>4
      <4> QED BY <1>2, <2>1, <3>2, <3>4, <4>1 DEF Prefix
    <3> QED BY <3>3, <3>4
  <2> QED BY <2>3 DEF Prefix
<1> QED
  BY <1>1, <1>2, MatchEffect

\* One step of the only thread.
LEMMA SoloThreadStep ==
    ASSUME NEW t, Thread = {t}, TypeOK, SoloControl(t), SoloCount(t), ThreadStep(t)
    PROVE  SoloControl(t)' /\ SoloCount(t)'
<1> USE DEF seqVars, fsmVars, timerVars, alertVars
<1>0. /\ t \in Thread /\ reported \in Nat /\ reached \in Nat /\ fsm \in Nat
      /\ Terminal \in Nat \ {0} /\ pc \in [Thread -> PCs]
  BY DEF TypeOK, FsmState, Terminal
<1>1. ASSUME NEW k \in Slot, MatchTransition(k), UNCHANGED reported,
             pc[t] \in {"fire", "ooo"}, pc'[t] \in {"after", "ooo"}
      PROVE  SoloControl(t)' /\ SoloCount(t)'
  <2>1. Prefix' \/ Leftover'
    BY <1>1, MatchPrefix DEF SoloControl
  <2>2. SoloControl(t)'
    BY <1>1, <2>1 DEF SoloControl
  <2>3. SoloCount(t)'
    <3>1. CASE UNCHANGED <<fsm, reached>>
      BY <1>0, <1>1, <3>1 DEF SoloCount, Due
    <3>2. CASE /\ fsm # Terminal /\ fsm' = fsm + 1
               /\ reached' = IF fsm + 1 = Terminal THEN reached + 1 ELSE reached
      BY <1>0, <1>1, <3>2 DEF SoloCount, Due
    <3> QED BY <1>1, <3>1, <3>2, MatchEffect
  <2> QED BY <2>2, <2>3
<1>2. CASE Fire(t)
  <2>1. /\ pc'[t] = "after" /\ pc[t] = "fire" /\ UNCHANGED reported
        /\ MatchTransition(idx[t]) /\ idx[t] \in Slot
    BY <1>0, <1>2 DEF Fire, Goto, TypeOK
  <2> QED BY <1>1, <2>1
<1>3. ASSUME NEW k \in Slot, NEW p \in Event, FireOutOfOrder(t, k, p)
      PROVE  SoloControl(t)' /\ SoloCount(t)'
  <2>1. /\ pc'[t] = "ooo" /\ pc[t] = "ooo" /\ UNCHANGED reported /\ MatchTransition(k)
    BY <1>3 DEF FireOutOfOrder, NextOutOfOrder
  <2> QED BY <1>1, <2>1
<1>4. ASSUME UNCHANGED <<fsm, states, reached, reported>>,
             pc[t] \notin {"reset", "collect", "report", "clear"},
             pc'[t] \notin {"reset", "collect", "report", "clear"}
      PROVE  SoloControl(t)' /\ SoloCount(t)'
  <2>1. SoloControl(t)'
    BY <1>4 DEF SoloControl, Prefix, Leftover
  <2>2. SoloCount(t)'
    BY <1>4 DEF SoloCount, Due
  <2> QED BY <2>1, <2>2
<1>5. CASE \/ CheckNext(t) \/ SkipExpr(t) \/ KeepOutOfOrder(t) \/ RunExpr(t)
           \/ RunFails(t) \/ AddPartial(t) \/ AddOutOfOrder(t) \/ SaveLastMatch(t)
           \/ StartOutOfOrder(t) \/ EndOutOfOrder(t)
  <2>1. /\ UNCHANGED <<fsm, states, reached, reported>>
        /\ pc[t] \notin {"reset", "collect", "report", "clear"}
    BY <1>5 DEF CheckNext, SkipExpr, KeepOutOfOrder, RunExpr, RunFails, AddPartial,
                AddOutOfOrder, SaveLastMatch, StartOutOfOrder, EndOutOfOrder
  <2>2. pc'[t] \in {"idle", "next", "run", "addooo", "add", "fire", "check", "ooo"}
    BY <1>0, <1>5
       DEF CheckNext, SkipExpr, KeepOutOfOrder, RunExpr, RunFails, AddPartial,
           AddOutOfOrder, SaveLastMatch, StartOutOfOrder, EndOutOfOrder, Goto, Continue
  <2> QED BY <1>4, <2>1, <2>2
<1>6. ASSUME NEW k \in Slot, NEW p \in Event, SkipOutOfOrder(t, k, p)
      PROVE  SoloControl(t)' /\ SoloCount(t)'
  <2>1. /\ UNCHANGED <<fsm, states, reached, reported>> /\ pc[t] = "ooo" /\ pc'[t] = "ooo"
    BY <1>6 DEF SkipOutOfOrder, NextOutOfOrder
  <2> QED BY <1>4, <2>1
<1>7. CASE CheckTerminal(t)
  <2>1. /\ UNCHANGED <<fsm, states, reached, reported>> /\ pc[t] = "check"
        /\ \/ fsm = Terminal /\ pc'[t] = "reset"
           \/ fsm # Terminal /\ pc'[t] \in {"idle", "next"}
    BY <1>0, <1>7 DEF CheckTerminal, Goto, Continue
  <2>2. CASE fsm = Terminal /\ pc'[t] = "reset"
    <3>1. SoloControl(t)'
      BY <2>1, <2>2 DEF SoloControl, Prefix, Leftover
    <3>2. SoloCount(t)'
      BY <2>1, <2>2 DEF SoloCount, Due
    <3> QED BY <3>1, <3>2
  <2> QED BY <1>4, <2>1, <2>2
<1>8. CASE ResetTerminal(t)
  <2>1. /\ pc[t] = "reset" /\ pc'[t] = "collect" /\ UNCHANGED <<states, reached, reported>>
        /\ fsm' = IF fsm = Terminal THEN 0 ELSE fsm
    BY <1>0, <1>8 DEF ResetTerminal, Goto, AfterReset
  <2>2. fsm' = 0
    BY <2>1 DEF SoloControl
  <2>3. Prefix' \/ Leftover'
    <3>1. CASE fsm = Terminal
      <4>1. \A k \in Slot : states[k]
        BY <1>0, <3>1, TerminalPrefix DEF SoloControl, Leftover
      <4> QED BY <2>1, <2>2, <4>1 DEF Leftover
    <3>2. CASE fsm # Terminal
      BY <2>1, <3>2 DEF SoloControl, Prefix, Leftover
    <3> QED BY <3>1, <3>2
  <2>4. SoloCount(t)'
    BY <1>0, <2>1, <2>2 DEF SoloCount, Due
  <2> QED BY <2>1, <2>2, <2>3, <2>4 DEF SoloControl
<1>9. CASE Collect(t)
  <2>1. /\ pc[t] = "collect" /\ pc'[t] = "report"
        /\ UNCHANGED <<fsm, states, reached, reported>>
    BY <1>0, <1>9 DEF Collect, Goto
  <2>2. SoloControl(t)'
    BY <2>1 DEF SoloControl, Prefix, Leftover
  <2> QED BY <2>1, <2>2 DEF SoloCount, Due
<1>10. CASE Report(t)
  <2>1. /\ pc[t] = "report" /\ pc'[t] = "clear" /\ reported' = reported + 1
        /\ UNCHANGED <<fsm, states, reached>>
    BY <1>0, <1>10 DEF Report, Goto
  <2>2. SoloControl(t)'
    BY <2>1 DEF SoloControl, Prefix, Leftover
  <2>3. fsm = 0
    BY <2>1 DEF SoloControl
  <2> QED BY <1>0, <2>1, <2>2, <2>3 DEF SoloCount, Due
<1>11. CASE ClearLocked(t)
  <2>1. /\ pc[t] = "clear" /\ pc'[t] = "idle" /\ UNCHANGED <<fsm, reached, reported>>
        /\ states' = [k \in Slot |-> FALSE]
    BY <1>0, <1>11 DEF ClearLocked, Goto, Clear, NoStates
  <2>2. fsm = 0
    BY <2>1 DEF SoloControl
  <2>3. Prefix'
    BY <2>1, <2>2, SlotFacts DEF Prefix
  <2>4. SoloCount(t)'
    BY <1>0, <2>1, <2>2 DEF SoloCount, Due
  <2> QED BY <2>1, <2>3, <2>4 DEF SoloControl
<1> QED
  BY <1>2, <1>3, <1>5, <1>6, <1>7, <1>8, <1>9, <1>10, <1>11 DEF ThreadStep

\* A step of the engine, a timer or the scavenger.
LEMMA SoloOtherStep ==
    ASSUME NEW t, Thread = {t}, TypeOK, SoloControl(t), SoloCount(t),
           [Next]_vars, ~ThreadStep(t)
    PROVE  SoloControl(t)' /\ SoloCount(t)'
<1> USE DEF seqVars, fsmVars, timerVars, alertVars
<1>0. /\ t \in Thread /\ reported \in Nat /\ reached \in Nat
      /\ Terminal \in Nat \ {0} /\ pc \in [Thread -> PCs]
  BY DEF TypeOK, FsmState, Terminal
<1>1. ASSUME UNCHANGED <<fsm, states, reached, reported>>,
             \/ pc' = pc
             \/ pc[t] = "idle" /\ pc'[t] \in {"idle", "next"}
      PROVE  SoloControl(t)' /\ SoloCount(t)'
  <2>1. SoloControl(t)'
    BY <1>1 DEF SoloControl, Prefix, Leftover
  <2>2. SoloCount(t)'
    BY <1>0, <1>1 DEF SoloCount, Due
  <2> QED BY <2>1, <2>2
\* Back to state 0, with the marks cleared or, from Terminal, left behind.
<1>2. ASSUME fsm' = 0, UNCHANGED <<reached, reported>>,
             \/ pc' = pc
             \/ pc[t] = "idle" /\ pc'[t] \in {"idle", "next"},
             \/ states' = [k \in Slot |-> FALSE]
             \/ fsm = Terminal /\ states' = states
      PROVE  SoloControl(t)' /\ SoloCount(t)'
  <2>1. Prefix' \/ Leftover'
    <3>1. CASE states' = [k \in Slot |-> FALSE]
      <4>1. \A k \in Slot : ~(k < 0)
        BY SlotFacts
      <4>2. \A k \in Slot : states'[k] = FALSE
        BY <3>1
      <4> QED BY <1>2, <4>1, <4>2 DEF Prefix
    <3>2. CASE fsm = Terminal /\ states' = states
      <4>1. \A k \in Slot : states[k]
        BY <3>2, TerminalPrefix DEF SoloControl, Leftover
      <4> QED BY <1>2, <3>2, <4>1 DEF Leftover
    <3> QED BY <1>2, <3>1, <3>2
  <2>2. SoloControl(t)'
    BY <1>2, <2>1 DEF SoloControl
  <2>3. SoloCount(t)'
    BY <1>0, <1>2 DEF SoloCount, Due
  <2> QED BY <2>2, <2>3
<1>3. ASSUME NEW u \in Thread, NEW e \in Event,
             \/ Process(u, e) \/ ExpirePartials(u, e)
             \/ ExpireSequence(u, e) \/ ExpireTerminal(u, e)
      PROVE  SoloControl(t)' /\ SoloCount(t)'
  <2>1. pc[t] = "idle" /\ pc'[t] \in {"idle", "next"}
    <3>1. Take(t, e) /\ Enter(t, e)
      BY <1>3 DEF Process, ExpirePartials, ExpireSequence, ExpireTerminal
    <3> QED BY <1>0, <3>1 DEF Take, Enter, Goto
  <2>2. CASE Process(u, e) \/ ExpirePartials(u, e)
    <3>1. UNCHANGED <<fsm, states, reached, reported>>
      BY <2>2 DEF Process, ExpirePartials
    <3> QED BY <1>1, <2>1, <3>1
  <2>3. CASE ExpireSequence(u, e)
    <3>1. /\ fsm' = 0 /\ UNCHANGED <<reached, reported>>
          /\ states' = [k \in Slot |-> FALSE]
      BY <2>3 DEF ExpireSequence, Clear, NoStates
    <3> QED BY <1>2, <2>1, <3>1
  <2>4. CASE ExpireTerminal(u, e)
    <3>1. /\ fsm' = 0 /\ fsm = Terminal /\ UNCHANGED <<states, reached, reported>>
      BY <2>4 DEF ExpireTerminal
    <3> QED BY <1>2, <2>1, <3>1
  <2> QED BY <1>3, <2>2, <2>3, <2>4
<1>4. ASSUME NEW r, TimerCheck(r)
      PROVE  SoloControl(t)' /\ SoloCount(t)'
  BY <1>1, <1>4 DEF TimerCheck
<1>5. ASSUME NEW r, TimerCancel(r)
      PROVE  SoloControl(t)' /\ SoloCount(t)'
  <2>1. /\ fsm' = 0 /\ UNCHANGED <<pc, reached, reported>>
        /\ states' = [k \in Slot |-> FALSE]
    BY <1>5 DEF TimerCancel, Clear, NoStates
  <2> QED BY <1>2, <2>1
<1>6. ASSUME NEW r, TimerCancelTerminal(r)
      PROVE  SoloControl(t)' /\ SoloCount(t)'
  <2>1. fsm' = 0 /\ fsm = Terminal /\ UNCHANGED <<pc, states, reached, reported>>
    BY <1>6 DEF TimerCancelTerminal
  <2> QED BY <1>2, <2>1
<1>7. ASSUME NEW cut, Gc(cut)
      PROVE  SoloControl(t)' /\ SoloCount(t)'
  BY <1>1, <1>7 DEF Gc
<1>8. CASE UNCHANGED vars
  BY <1>1, <1>8 DEF vars
<1>9. \A u \in Thread : ~ThreadStep(u)
  OBVIOUS
<1> QED
  BY <1>3, <1>4, <1>5, <1>6, <1>7, <1>8, <1>9, NextCases

LEMMA SoloInvariant ==
    ASSUME NEW t, Thread = {t}
    PROVE  Spec => [](TypeOK /\ SoloControl(t) /\ SoloCount(t))
<1>1. Init => TypeOK /\ SoloControl(t) /\ SoloCount(t)
  <2> SUFFICES ASSUME Init PROVE SoloControl(t) /\ SoloCount(t)
    BY InitType
  <2>1. /\ fsm = 0 /\ reached = 0 /\ reported = 0 /\ pc[t] = "idle"
        /\ states = [k \in Slot |-> FALSE]
    BY DEF Init, NoStates
  <2>2. Prefix
    <3>1. \A k \in Slot : ~(k < fsm)
      BY <2>1, SlotFacts DEF Slot
    <3>2. \A k \in Slot : ~states[k]
      BY <2>1, Zenon
    <3> QED BY <3>1, <3>2, Zenon DEF Prefix
  <2> QED BY <2>1, <2>2 DEF SoloControl, SoloCount, Due, Terminal
<1>2. TypeOK /\ SoloControl(t) /\ SoloCount(t) /\ [Next]_vars
        => (TypeOK /\ SoloControl(t) /\ SoloCount(t))'
  BY TypeStep, SoloThreadStep, SoloOtherStep
<1> QED
  BY <1>1, <1>2, PTL DEF Spec

\* As long as one thread runs the sequence, the states map and the state
\* machine agree at every step, timers, scavenger and expirations included.
THEOREM SoloStatesPrefix ==
    ASSUME NEW t, Thread = {t}
    PROVE  Spec => []StatesPrefix
<1>1. SoloControl(t) => StatesPrefix
  BY DEF SoloControl, Prefix, Leftover, StatesPrefix
<1> QED
  BY <1>1, SoloInvariant, PTL

\* As long as one thread runs the sequence, a visit to the terminal state
\* appends at most one match.
THEOREM SoloAtMostOneReport ==
    ASSUME NEW t, Thread = {t}
    PROVE  Spec => []AtMostOneReport
<1>1. TypeOK /\ SoloCount(t) => AtMostOneReport
  BY DEF TypeOK, SoloCount, Due, AtMostOneReport
<1> QED
  BY <1>1, SoloInvariant, PTL
-----------------------------------------------------------------------------
(* One thread so far, no span timer *)

(***************************************************************************)
(* Without a maxspan nothing but the thread that runs the sequence moves   *)
(* the state machine between two of its steps.  Terminal is then left only *)
(* by that thread's reset, and the marks of the match are with it until it *)
(* clears them.  The threads that have never run the sequence do not count.*)
(***************************************************************************)
Lead(t) == \A u \in Thread : u # t => cur[u] = None

NoTimers == timers = {} /\ firing = {}

Single(t) ==
    /\ Prefix \/ Leftover
    /\ fsm = Terminal => pc[t] \in {"after", "ooo", "check", "reset"}
    /\ pc[t] = "reset" => fsm = Terminal
    /\ Leftover <=> pc[t] \in {"collect", "report", "clear"}

Balanced(t) ==
    reached = reported + (IF pc[t] \in {"collect", "report"} THEN 1 ELSE 0)
                       + (IF fsm = Terminal THEN 1 ELSE 0)

\* In an ordered sequence the thread is at an expression whose upstream ones
\* have matched since the reset.
Honest(t) ==
    /\ pc[t] \notin {"ooo", "addooo"}
    /\ \A k \in Slot : k < fsm => k \in seen
    /\ pc[t] \in {"run", "add", "fire"} => idx[t] <= fsm

SingleInv(t) == Single(t) /\ Balanced(t) /\ (~Unordered => Honest(t))

AloneInv == TypeOK /\ NoTimers /\ \A t \in Thread : Lead(t) => SingleInv(t)

LEMMA TimersStep ==
    ASSUME MaxSpan = FALSE, TypeOK, NoTimers, [Next]_vars
    PROVE  NoTimers'
<1>1. ASSUME NEW t \in Thread, NEW e \in Event,
             \/ Process(t, e) \/ ExpirePartials(t, e)
             \/ ExpireSequence(t, e) \/ ExpireTerminal(t, e)
      PROVE  NoTimers'
  BY <1>1 DEF NoTimers, Process, ExpirePartials, ExpireSequence, ExpireTerminal, timerVars
<1>2. ASSUME NEW t \in Thread, ThreadStep(t)
      PROVE  NoTimers'
  <2>1. CASE UNCHANGED <<fsmVars, timerVars, states>>
    BY <2>1 DEF NoTimers, timerVars
  <2>2. ASSUME NEW k \in Slot, MatchTransition(k), UNCHANGED firing
        PROVE  NoTimers'
    BY <2>2 DEF MatchTransition, NoTimers
  <2>3. CASE ResetTerminal(t) \/ ClearLocked(t)
    BY <2>3 DEF NoTimers, ResetTerminal, ClearLocked, timerVars
  <2> QED BY <1>2, <2>1, <2>2, <2>3, ThreadCases
<1>3. ASSUME NEW r, TimerCheck(r) \/ TimerCancel(r) \/ TimerCancelTerminal(r)
      PROVE  NoTimers'
  BY <1>3 DEF NoTimers, TimerCheck, TimerCancel, TimerCancelTerminal
<1>4. CASE (\E cut : Gc(cut)) \/ UNCHANGED vars
  BY <1>4 DEF NoTimers, Gc, vars, timerVars
<1> QED
  BY <1>1, <1>2, <1>3, <1>4, NextCases

\* Leftover and Prefix exclude each other.
LEMMA NotBoth == ~(Prefix /\ Leftover)
<1>1. 0 \in Slot /\ ~(0 < 0)
  BY SlotFacts
<1> QED
  BY <1>1 DEF Prefix, Leftover

LEMMA SingleMatch ==
    ASSUME TypeOK, NEW t \in Thread, SingleInv(t), NEW k \in Slot, MatchTransition(k),
           UNCHANGED <<reported, idx>>,
           \/ pc[t] = "fire" /\ pc'[t] = "after" /\ k = idx[t]
           \/ pc[t] = "ooo" /\ pc'[t] = "ooo"
    PROVE  SingleInv(t)'
<1>0. /\ reported \in Nat /\ reached \in Nat /\ fsm \in Nat /\ Terminal \in Nat \ {0}
      /\ fsm \in FsmState /\ idx[t] \in Slot /\ k \in Nat
  BY SlotFacts DEF TypeOK, FsmState, Terminal
<1>1. Prefix /\ ~Leftover
  BY NotBoth DEF SingleInv, Single
<1>2. Prefix' \/ Leftover'
  BY <1>1, MatchPrefix
<1>s. seen' = seen \cup {k}
  BY DEF MatchTransition
<1>3. CASE UNCHANGED <<fsm, states, reached>>
  <2>1. Single(t)'
    BY <1>1, <1>3 DEF SingleInv, Single, Prefix, Leftover
  <2>2. Balanced(t)'
    BY <1>3 DEF SingleInv, Balanced
  <2>3. ~Unordered => Honest(t)'
    BY <1>3, <1>s DEF SingleInv, Honest
  <2> QED BY <2>1, <2>2, <2>3 DEF SingleInv
<1>4. CASE /\ ~states[k] /\ fsm # Terminal /\ fsm' = fsm + 1
           /\ reached' = IF fsm + 1 = Terminal THEN reached + 1 ELSE reached
  <2>1. fsm' # 0
    BY <1>0, <1>4
  <2>2. Single(t)'
    BY <1>2, <2>1 DEF Single, Leftover
  <2>3. Balanced(t)'
    BY <1>0, <1>4 DEF SingleInv, Balanced
  <2>4. ASSUME ~Unordered PROVE Honest(t)'
    <3>1. Honest(t)
      BY <2>4 DEF SingleInv
    <3>2. pc[t] = "fire" /\ pc'[t] = "after" /\ k = idx[t] /\ k <= fsm
      BY <3>1 DEF Honest
    <3>3. ~(k < fsm)
      BY <1>1, <1>4 DEF Prefix
    <3>4. k = fsm
      BY <1>0, <3>2, <3>3
    <3>5. \A j \in Slot : j < fsm + 1 => j < fsm \/ j = fsm
      BY <1>0, SlotFacts
    <3>6. \A j \in Slot : j < fsm' => j \in seen'
      BY <1>4, <1>s, <3>1, <3>4, <3>5 DEF Honest
    <3> QED BY <3>2, <3>6 DEF Honest
  <2> QED BY <2>2, <2>3, <2>4 DEF SingleInv
<1> QED
  BY <1>3, <1>4, MatchEffect

\* One step of the thread that runs the sequence.
LEMMA SingleThreadStep ==
    ASSUME TypeOK, NEW t \in Thread, SingleInv(t), ThreadStep(t)
    PROVE  SingleInv(t)'
<1> USE DEF seqVars, fsmVars, timerVars, alertVars
<1>0. /\ reported \in Nat /\ reached \in Nat /\ fsm \in Nat /\ Terminal \in Nat \ {0}
      /\ pc \in [Thread -> PCs] /\ idx[t] \in Slot /\ idx[t] \in Nat
  BY SlotFacts DEF TypeOK, FsmState, Terminal
\* Steps before the match trigger, and steps after it.
<1>1. ASSUME UNCHANGED <<fsm, states, reached, reported, seen>>,
             pc[t] \in {"next", "run", "add", "addooo"},
             pc'[t] \in {"idle", "next", "run", "add", "addooo", "fire"},
             ~Unordered => pc'[t] # "addooo",
             ~Unordered /\ pc'[t] \in {"run", "add", "fire"} => idx'[t] <= fsm
      PROVE  SingleInv(t)'
  <2>1. Single(t)'
    BY <1>1 DEF SingleInv, Single, Prefix, Leftover
  <2>2. Balanced(t)'
    BY <1>1 DEF SingleInv, Balanced
  <2>3. ~Unordered => Honest(t)'
    BY <1>1 DEF SingleInv, Honest
  <2> QED BY <2>1, <2>2, <2>3 DEF SingleInv
<1>2. ASSUME UNCHANGED <<fsm, states, reached, reported, seen>>,
             pc[t] \in {"after", "ooo"}, pc'[t] \in {"ooo", "check"},
             ~Unordered => pc'[t] # "ooo"
      PROVE  SingleInv(t)'
  <2>1. Single(t)'
    BY <1>2 DEF SingleInv, Single, Prefix, Leftover
  <2>2. Balanced(t)'
    BY <1>2 DEF SingleInv, Balanced
  <2>3. ~Unordered => Honest(t)'
    BY <1>2 DEF SingleInv, Honest
  <2> QED BY <2>1, <2>2, <2>3 DEF SingleInv
<1>3. CASE CheckNext(t)
  <2>1. /\ UNCHANGED <<fsm, states, reached, reported, seen, idx>>
        /\ pc[t] = "next" /\ pc'[t] = "run"
    BY <1>0, <1>3 DEF CheckNext, Goto
  <2>2. idx[t] <= fsm
    <3>1. Prefix
      BY <2>1 DEF SingleInv, Single
    <3>2. idx[t] = 0 \/ \A n \in 0 .. idx[t] - 1 : states[n]
      BY <1>3 DEF CheckNext, NextExpr
    <3>3. CASE idx[t] = 0
      BY <1>0, <3>3
    <3>4. CASE idx[t] # 0 /\ states[idx[t] - 1]
      <4>1. idx[t] - 1 \in Slot
        BY <1>0, <3>4 DEF Slot
      <4>2. idx[t] - 1 < fsm
        BY <3>1, <3>4, <4>1 DEF Prefix
      <4> QED BY <1>0, <4>2
    <3>5. idx[t] # 0 => idx[t] - 1 \in 0 .. idx[t] - 1
      BY <1>0
    <3> QED BY <3>2, <3>3, <3>4, <3>5
  <2> QED BY <1>1, <2>1, <2>2
<1>4. CASE \/ SkipExpr(t) \/ RunFails(t) \/ AddOutOfOrder(t)
  <2>1. /\ UNCHANGED <<fsm, states, reached, reported, seen>>
        /\ pc[t] \in {"next", "run", "addooo"} /\ pc'[t] \in {"idle", "next"}
    BY <1>0, <1>4 DEF SkipExpr, RunFails, AddOutOfOrder, Continue, Goto
  <2> QED BY <1>1, <2>1
<1>5. CASE KeepOutOfOrder(t)
  <2>1. /\ UNCHANGED <<fsm, states, reached, reported, seen>> /\ Unordered
        /\ pc[t] = "next" /\ pc'[t] = "addooo"
    BY <1>0, <1>5 DEF KeepOutOfOrder, Goto
  <2> QED BY <1>1, <2>1
<1>6. CASE RunExpr(t)
  <2>1. /\ UNCHANGED <<fsm, states, reached, reported, seen>> /\ pc[t] = "run"
        /\ \/ pc'[t] \in {"idle", "next"}
           \/ pc'[t] = "add" /\ idx' = idx
    BY <1>0, <1>6 DEF RunExpr, Continue, Goto
  <2>2. ~Unordered => idx[t] <= fsm
    BY <2>1 DEF SingleInv, Honest
  <2> QED BY <1>1, <2>1, <2>2
<1>7. CASE AddPartial(t)
  <2>1. /\ UNCHANGED <<fsm, states, reached, reported, seen, idx>>
        /\ pc[t] = "add" /\ pc'[t] = "fire"
    BY <1>0, <1>7 DEF AddPartial, Goto
  <2>2. ~Unordered => idx[t] <= fsm
    BY <2>1 DEF SingleInv, Honest
  <2> QED BY <1>1, <2>1, <2>2
<1>8. CASE Fire(t)
  <2>1. /\ MatchTransition(idx[t]) /\ UNCHANGED <<reported, idx>>
        /\ pc[t] = "fire" /\ pc'[t] = "after"
    BY <1>0, <1>8 DEF Fire, Goto
  <2>2. PICK k \in Slot : k = idx[t]
    BY <1>0
  <2> QED BY <2>1, <2>2, SingleMatch
<1>9. ASSUME NEW k \in Slot, NEW p \in Event, FireOutOfOrder(t, k, p)
      PROVE  SingleInv(t)'
  <2>1. /\ MatchTransition(k) /\ UNCHANGED <<reported, idx>>
        /\ pc[t] = "ooo" /\ pc'[t] = "ooo"
    BY <1>9 DEF FireOutOfOrder, NextOutOfOrder
  <2> QED BY <2>1, SingleMatch
<1>10. CASE SaveLastMatch(t) \/ EndOutOfOrder(t)
  <2>1. /\ UNCHANGED <<fsm, states, reached, reported, seen>>
        /\ pc[t] \in {"after", "ooo"} /\ pc'[t] = "check"
    BY <1>0, <1>10 DEF SaveLastMatch, EndOutOfOrder, Goto
  <2> QED BY <1>2, <2>1
<1>11. CASE StartOutOfOrder(t)
  <2>1. /\ UNCHANGED <<fsm, states, reached, reported, seen>> /\ Unordered
        /\ pc[t] = "after" /\ pc'[t] \in {"check", "ooo"}
    BY <1>0, <1>11 DEF StartOutOfOrder, Goto
  <2> QED BY <1>2, <2>1
<1>12. ASSUME NEW k \in Slot, NEW p \in Event, SkipOutOfOrder(t, k, p)
       PROVE  SingleInv(t)'
  <2>1. /\ UNCHANGED <<fsm, states, reached, reported, seen>>
        /\ pc[t] = "ooo" /\ pc'[t] = "ooo"
    BY <1>12 DEF SkipOutOfOrder, NextOutOfOrder
  <2>2. Unordered
    BY <2>1 DEF SingleInv, Honest
  <2> QED BY <1>2, <2>1, <2>2
<1>13. CASE CheckTerminal(t)
  <2>1. /\ UNCHANGED <<fsm, states, reached, reported, seen>> /\ pc[t] = "check"
        /\ \/ fsm = Terminal /\ pc'[t] = "reset"
           \/ fsm # Terminal /\ pc'[t] \in {"idle", "next"}
    BY <1>0, <1>13 DEF CheckTerminal, Goto, Continue
  <2>2. Single(t)'
    BY <2>1 DEF SingleInv, Single, Prefix, Leftover
  <2>3. Balanced(t)'
    BY <2>1 DEF SingleInv, Balanced
  <2>4. ~Unordered => Honest(t)'
    BY <2>1 DEF SingleInv, Honest
  <2> QED BY <2>2, <2>3, <2>4 DEF SingleInv
<1>14. CASE ResetTerminal(t)
  <2>1. /\ pc[t] = "reset" /\ pc'[t] = "collect" /\ UNCHANGED <<states, reached, reported>>
        /\ fsm' = IF fsm = Terminal THEN 0 ELSE fsm
    BY <1>0, <1>14 DEF ResetTerminal, Goto, AfterReset
  <2>2. fsm = Terminal /\ fsm' = 0
    BY <2>1 DEF SingleInv, Single
  <2>3. \A k \in Slot : states[k]
    BY <1>0, <2>2, TerminalPrefix DEF SingleInv, Single, Leftover
  <2>4. Leftover'
    BY <2>1, <2>2, <2>3 DEF Leftover
  <2>5. Single(t)'
    BY <1>0, <2>1, <2>2, <2>4 DEF Single
  <2>6. Balanced(t)'
    BY <1>0, <2>1, <2>2 DEF SingleInv, Balanced
  <2>7. Honest(t)'
    BY <2>1, <2>2, SlotFacts DEF Honest
  <2> QED BY <2>5, <2>6, <2>7 DEF SingleInv
<1>15. CASE Collect(t) \/ Report(t)
  <2>1. /\ UNCHANGED <<fsm, states, reached, seen>>
        /\ \/ pc[t] = "collect" /\ pc'[t] = "report" /\ reported' = reported
           \/ pc[t] = "report" /\ pc'[t] = "clear" /\ reported' = reported + 1
    BY <1>0, <1>15 DEF Collect, Report, Goto
  <2>2. Leftover /\ fsm = 0
    BY <2>1 DEF SingleInv, Single, Leftover
  <2>3. Single(t)'
    BY <1>0, <2>1, <2>2 DEF Single, Prefix, Leftover
  <2>4. Balanced(t)'
    BY <1>0, <2>1, <2>2 DEF SingleInv, Balanced
  <2>5. Honest(t)'
    BY <2>1, <2>2, SlotFacts DEF Honest
  <2> QED BY <2>3, <2>4, <2>5 DEF SingleInv
<1>16. CASE ClearLocked(t)
  <2>1. /\ pc[t] = "clear" /\ pc'[t] = "idle" /\ UNCHANGED <<fsm, reached, reported, seen>>
        /\ states' = [k \in Slot |-> FALSE]
    BY <1>0, <1>16 DEF ClearLocked, Goto, Clear, NoStates
  <2>2. fsm = 0
    BY <2>1 DEF SingleInv, Single, Leftover
  <2>3. Prefix' /\ ~Leftover'
    BY <2>1, <2>2, SlotFacts DEF Prefix, Leftover
  <2>4. Single(t)'
    BY <1>0, <2>1, <2>2, <2>3 DEF Single
  <2>5. Balanced(t)'
    BY <1>0, <2>1, <2>2 DEF SingleInv, Balanced
  <2>6. Honest(t)'
    BY <2>1, <2>2, SlotFacts DEF Honest
  <2> QED BY <2>4, <2>5, <2>6 DEF SingleInv
<1> QED
  BY <1>3, <1>4, <1>5, <1>6, <1>7, <1>8, <1>9, <1>10, <1>11, <1>12, <1>13, <1>14, <1>15,
     <1>16 DEF ThreadStep

\* The thread that runs the sequence is given its next event.
LEMMA SingleEngineStep ==
    ASSUME TypeOK, NEW t \in Thread, SingleInv(t), NEW e \in Event,
           \/ Process(t, e) \/ ExpirePartials(t, e)
           \/ ExpireSequence(t, e) \/ ExpireTerminal(t, e)
    PROVE  SingleInv(t)'
<1> USE DEF seqVars, fsmVars, timerVars, alertVars
<1>0. pc \in [Thread -> PCs] /\ Terminal # 0
  BY DEF TypeOK, Terminal
<1>1. pc[t] = "idle" /\ pc'[t] \in {"idle", "next"} /\ UNCHANGED <<reached, reported>>
  BY <1>0 DEF Process, ExpirePartials, ExpireSequence, ExpireTerminal, Take, Enter, Goto
<1>2. Prefix /\ ~Leftover /\ fsm # Terminal
  BY <1>1 DEF SingleInv, Single
<1>3. CASE Process(t, e) \/ ExpirePartials(t, e)
  <2>1. UNCHANGED <<fsm, states, seen>>
    BY <1>3 DEF Process, ExpirePartials
  <2>2. Single(t)'
    BY <1>1, <1>2, <2>1 DEF Single, Prefix, Leftover
  <2>3. Balanced(t)'
    BY <1>1, <2>1 DEF SingleInv, Balanced
  <2>4. ~Unordered => Honest(t)'
    BY <1>1, <2>1 DEF SingleInv, Honest
  <2> QED BY <2>2, <2>3, <2>4 DEF SingleInv
<1>4. CASE ExpireSequence(t, e)
  <2>1. fsm' = 0 /\ states' = [k \in Slot |-> FALSE]
    BY <1>4 DEF ExpireSequence, Clear, NoStates
  <2>2. Prefix' /\ ~Leftover'
    BY <2>1, SlotFacts DEF Prefix, Leftover
  <2>3. Single(t)'
    BY <1>0, <1>1, <2>1, <2>2 DEF Single
  <2>4. Balanced(t)'
    BY <1>0, <1>1, <1>2, <2>1 DEF SingleInv, Balanced
  <2>5. Honest(t)'
    BY <1>1, <2>1, SlotFacts DEF Honest
  <2> QED BY <2>3, <2>4, <2>5 DEF SingleInv
<1>5. CASE ExpireTerminal(t, e)
  BY <1>2, <1>5 DEF ExpireTerminal
<1> QED
  BY <1>3, <1>4, <1>5

\* A step of another thread ends the lead; the scavenger leaves the state
\* machine and the marks alone.
LEMMA AloneStep ==
    ASSUME MaxSpan = FALSE, AloneInv, [Next]_vars
    PROVE  AloneInv'
<1>0. TypeOK' /\ NoTimers'
  BY TypeStep, TimersStep DEF AloneInv
<1> SUFFICES ASSUME NEW t \in Thread, Lead(t)'
             PROVE  SingleInv(t)'
  BY <1>0 DEF AloneInv
<1>c. cur \in [Thread -> Event \cup {None}] /\ None \notin Event
  BY DEF AloneInv, TypeOK
<1>1. ASSUME Lead(t) PROVE SingleInv(t)
  BY <1>1 DEF AloneInv
<1>2. ASSUME NEW u \in Thread, NEW e \in Event,
             \/ Process(u, e) \/ ExpirePartials(u, e)
             \/ ExpireSequence(u, e) \/ ExpireTerminal(u, e)
      PROVE  SingleInv(t)'
  <2>1. cur' = [cur EXCEPT ![u] = e]
    BY <1>2 DEF Process, ExpirePartials, ExpireSequence, ExpireTerminal, Take
  <2>2. cur'[u] = e /\ e # None
    BY <1>c, <2>1
  <2>3. u = t
    BY <2>2 DEF Lead
  <2>4. \A v \in Thread : v # t => cur'[v] = cur[v]
    BY <1>c, <2>1, <2>3
  <2>5. Lead(t)
    BY <2>4 DEF Lead
  <2>6. TypeOK /\ SingleInv(t)
    BY <1>1, <2>5 DEF AloneInv
  <2> QED BY <1>2, <2>3, <2>6, SingleEngineStep
<1>3. ASSUME UNCHANGED cur PROVE SingleInv(t)
  BY <1>1, <1>3 DEF Lead
<1>4. ASSUME NEW u \in Thread, ThreadStep(u)
      PROVE  SingleInv(t)'
  <2>1. pc[u] # "idle" /\ UNCHANGED cur
    BY <1>4 DEF ThreadStep, CheckNext, SkipExpr, KeepOutOfOrder, RunExpr, RunFails,
       AddPartial, AddOutOfOrder, Fire, SaveLastMatch, StartOutOfOrder, SkipOutOfOrder,
       FireOutOfOrder, NextOutOfOrder, EndOutOfOrder, CheckTerminal, ResetTerminal, Collect,
       Report, ClearLocked
  <2>2. cur[u] \in Event
    BY <2>1 DEF AloneInv, TypeOK
  <2>3. u = t
    BY <1>c, <2>1, <2>2 DEF Lead
  <2>4. TypeOK /\ SingleInv(t)
    BY <1>3, <2>1 DEF AloneInv
  <2> QED BY <1>4, <2>3, <2>4, SingleThreadStep
<1>5. ASSUME NEW r, TimerCheck(r) \/ TimerCancel(r) \/ TimerCancelTerminal(r)
      PROVE  SingleInv(t)'
  BY <1>5 DEF AloneInv, NoTimers, TimerCheck, TimerCancel, TimerCancelTerminal
<1>6. CASE (\E cut : Gc(cut)) \/ UNCHANGED vars
  <2>1. UNCHANGED <<cur, pc, idx, fsm, states, seen, reached, reported>>
    BY <1>6 DEF Gc, vars, seqVars, fsmVars, alertVars
  <2>2. SingleInv(t)
    BY <1>3, <2>1
  <2> QED
    BY <2>1, <2>2 DEF SingleInv, Single, Balanced, Honest, Prefix, Leftover
<1> QED
  BY <1>2, <1>4, <1>5, <1>6, NextCases

LEMMA AloneInvariant == MaxSpan = FALSE => (Spec => []AloneInv)
<1> SUFFICES ASSUME MaxSpan = FALSE PROVE Spec => []AloneInv
  OBVIOUS
<1>1. Init => AloneInv
  <2> SUFFICES ASSUME Init PROVE TypeOK /\ NoTimers /\ \A t \in Thread : SingleInv(t)
    BY DEF AloneInv
  <2>1. TypeOK /\ NoTimers
    BY InitType DEF Init, NoTimers
  <2> SUFFICES ASSUME NEW t \in Thread PROVE SingleInv(t)
    BY <2>1
  <2>2. pc[t] = "idle" /\ fsm = 0 /\ states = [k \in Slot |-> FALSE]
    BY DEF Init, NoStates
  <2>3. Terminal # 0
    BY DEF Terminal
  <2>4. Prefix /\ ~Leftover
    BY <2>2, SlotFacts DEF Prefix, Leftover
  <2>5. Single(t)
    BY <2>2, <2>3, <2>4 DEF Single
  <2>6. Balanced(t)
    BY <2>2, <2>3 DEF Init, Balanced
  <2>7. Honest(t)
    BY <2>2, SlotFacts DEF Honest
  <2> QED BY <2>5, <2>6, <2>7 DEF SingleInv
<1>2. AloneInv /\ [Next]_vars => AloneInv'
  BY AloneStep
<1> QED
  BY <1>1, <1>2, PTL DEF Spec

\* The only thread that has run the sequence, if there is one, leads it.
LEMMA SomeLead ==
    ASSUME Thread # {}, Alone
    PROVE  \E t \in Thread : Lead(t)
<1>1. CASE \E t \in Thread : cur[t] # None
  BY <1>1 DEF Alone, Lead
<1>2. CASE \A t \in Thread : cur[t] = None
  BY <1>2 DEF Lead
<1> QED
  BY <1>1, <1>2

\* A sequence without a maxspan appends one match each time it reaches its
\* terminal state, as long as one thread has run it (runSequence,
\* isTerminalState): no event of a process that ends, and no run of the
\* scavenger, takes the state machine out of Terminal first.
THEOREM EveryMatchReported ==
    ASSUME MaxSpan = FALSE, Thread # {}
    PROVE  Spec => []TerminalYields
<1>1. AloneInv => TerminalYields
  <2> SUFFICES ASSUME AloneInv, Alone
               PROVE  reached = reported + Cardinality(Collecting)
                                         + (IF fsm = Terminal THEN 1 ELSE 0)
    BY DEF TerminalYields
  <2>1. PICK t \in Thread : Lead(t)
    BY SomeLead
  <2>2. Balanced(t) /\ reported \in Nat
    BY <2>1 DEF AloneInv, SingleInv, TypeOK
  <2>3. \A u \in Thread : u # t => pc[u] = "idle"
    BY <2>1 DEF AloneInv, TypeOK, Lead
  <2>4. CASE pc[t] \in {"collect", "report"}
    <3>1. Collecting = {t}
      BY <2>3, <2>4 DEF Collecting
    <3>2. Cardinality(Collecting) = 1
      BY <3>1, FS_Singleton
    <3> QED BY <2>2, <2>4, <3>2 DEF Balanced
  <2>5. CASE pc[t] \notin {"collect", "report"}
    <3>1. Collecting = {}
      BY <2>3, <2>5 DEF Collecting
    <3>2. Cardinality(Collecting) = 0
      BY <3>1, FS_EmptySet
    <3> QED BY <2>2, <2>5, <3>2 DEF Balanced
  <2> QED BY <2>4, <2>5
<1>2. Spec => []AloneInv
  BY AloneInvariant
<1> QED
  BY <1>1, <1>2, PTL

\* In the same setting a finished match leaves no marks behind: they are up in
\* state 0 only while the thread that found the match is on its way to clear
\* (runSequence), so that the sequence can match again.
THEOREM MatchesRestart ==
    ASSUME MaxSpan = FALSE, Thread # {}
    PROVE  Spec => []Restartable
<1>1. AloneInv => Restartable
  <2> SUFFICES ASSUME AloneInv, Alone, fsm = 0, \E k \in Slot : states[k]
               PROVE  \E t \in Thread : pc[t] \in {"collect", "report", "clear"}
    BY DEF Restartable
  <2>1. PICK t \in Thread : Lead(t)
    BY SomeLead
  <2>2. Single(t)
    BY <2>1 DEF AloneInv, SingleInv
  <2>3. ~Prefix
    BY SlotFacts DEF Prefix
  <2>4. Leftover
    BY <2>2, <2>3 DEF Single
  <2> QED BY <2>2, <2>4 DEF Single
<1>2. Spec => []AloneInv
  BY AloneInvariant
<1> QED
  BY <1>1, <1>2, PTL

\* An ordered sequence without a maxspan reaches its terminal state only after
\* an event matched every expression since the last reset (next,
\* matchTransition), as long as one thread has run it.
THEOREM OrderedMatchesGenuine ==
    ASSUME MaxSpan = FALSE, Unordered = FALSE, Thread # {}
    PROVE  Spec => []Genuine
<1>1. AloneInv => Genuine
  <2> SUFFICES ASSUME AloneInv, Alone, fsm = Terminal
               PROVE  seen = Slot
    BY DEF Genuine
  <2>1. PICK t \in Thread : Lead(t)
    BY SomeLead
  <2>2. Honest(t) /\ seen \subseteq Slot
    BY <2>1 DEF AloneInv, SingleInv, TypeOK
  <2>3. \A k \in Slot : k < Terminal
    BY DEF Slot, Terminal
  <2> QED BY <2>2, <2>3 DEF Honest
<1>2. Spec => []AloneInv
  BY AloneInvariant
<1> QED
  BY <1>1, <1>2, PTL
-----------------------------------------------------------------------------
(* Two expressions, one thread *)

(***************************************************************************)
(* Three facts make the matches of an ordered sequence of two expressions  *)
(* coherent.  The partials are as old as lastMatch, but for the one being  *)
(* matched, so that no two of a slot share a timestamp.  A partial of the  *)
(* second slot is there only in Terminal or after it, and no event of the  *)
(* first is added next to it before the match is collected.  After a timer *)
(* refused in Terminal the marks of the match stay (Leftover): events pile *)
(* up in any order then, but no match is collected before they are cleared.*)
(***************************************************************************)
Timely(t) ==
    /\ pc[t] \in {"add", "fire", "after"} => lastMatch = 0 \/ cur[t].ts > lastMatch
    /\ \A k \in Slot : \A p \in partials[k] :
         p.ts <= lastMatch \/ (pc[t] \in {"fire", "after"} /\ p = cur[t])
    /\ \A k \in Slot : \A p, q \in partials[k] : p.ts = q.ts => p = q

\* The partials of the second expression that saw the first one match.
Followers == partials[1] \ overtaken

InOrder == \A p \in partials[0], q \in Followers : p.ts < q.ts

Sorted(t) ==
    /\ InOrder \/ (Leftover /\ pc[t] \notin {"reset", "collect", "report"})
    /\ Followers # {} => \/ fsm = Terminal \/ Leftover
                         \/ pc[t] = "fire" /\ idx[t] = 1 /\ fsm = 1
    /\ pc[t] \in {"run", "add"} /\ idx[t] = 1 => cur[t] \in overtaken \/ states[0]

InStep(t) ==
    /\ pc[t] \notin {"ooo", "addooo"}
    /\ fsm = Terminal => pc[t] \in {"after", "check", "reset"}
    /\ pc[t] \notin {"report", "clear"} => matches = NoMatches

PairCoherent(m) ==
    m[0] # None /\ m[1] # None => /\ By => m[0].link = m[1].link
                                  /\ m[1] \in overtaken \/ m[0].ts < m[1].ts

PairInv(t) ==
    /\ InStep(t) /\ Timely(t) /\ Sorted(t)
    /\ PairCoherent(matches)
    /\ \A m \in alerts : PairCoherent(m)

LEMMA TwoSlots ==
    ASSUME N = 2
    PROVE  Slot = {0, 1} /\ Terminal = 2 /\ FsmState = {0, 1, 2}
BY DEF Slot, Terminal, FsmState

\* clear empties the sequence; the thread keeps its place, or goes to it.
LEMMA PairCleared ==
    ASSUME N = 2, NEW t, partials' = NoPartials, matches' = NoMatches, lastMatch' = 0,
           fsm' = 0, alerts' = alerts, overtaken \subseteq overtaken', PairInv(t),
           pc'[t] \notin {"ooo", "addooo"},
           pc'[t] \in {"run", "add"} /\ idx'[t] = 1 => cur'[t] \in overtaken'
    PROVE  PairInv(t)'
<1>1. /\ \A k \in Slot : partials'[k] = {} /\ matches'[k] = None
      /\ 0 \in Slot /\ 1 \in Slot /\ Terminal # 0
  BY TwoSlots DEF NoPartials, NoMatches
<1>2. InStep(t)'
  BY <1>1 DEF InStep, NoMatches
<1>3. Timely(t)'
  BY <1>1 DEF Timely
<1>4. Sorted(t)'
  BY <1>1 DEF Sorted, InOrder, Followers
<1>5. PairCoherent(matches)'
  BY <1>1 DEF PairCoherent
<1>6. \A m \in alerts' : PairCoherent(m)'
  BY DEF PairInv, PairCoherent
<1> QED
  BY <1>2, <1>3, <1>4, <1>5, <1>6 DEF PairInv

\* The sequence keeps its state, or loses partials, and the thread is at an
\* expression that is not added yet.
LEMMA PairBefore ==
    ASSUME N = 2, NEW t, PairInv(t), fsm # Terminal,
           UNCHANGED <<states, fsm, matches, lastMatch, overtaken, alerts>>,
           \A k \in Slot : partials'[k] \subseteq partials[k],
           pc[t] \in {"idle", "next", "run", "check"},
           pc'[t] \in {"idle", "next", "run", "add"},
           pc'[t] = "add" => lastMatch = 0 \/ cur'[t].ts > lastMatch,
           pc'[t] \in {"run", "add"} /\ idx'[t] = 1 => cur'[t] \in overtaken \/ states[0]
    PROVE  PairInv(t)'
<1>0. 0 \in Slot /\ 1 \in Slot
  BY TwoSlots
<1>1. InStep(t)'
  BY DEF PairInv, InStep, NoMatches
<1>2. Timely(t)'
  BY DEF PairInv, Timely
<1>3. Leftover' = Leftover /\ Followers' \subseteq Followers
  BY <1>0 DEF Leftover, Followers
<1>4. InOrder => InOrder'
  BY <1>0, <1>3 DEF InOrder
<1>5. Sorted(t)'
  BY <1>3, <1>4 DEF PairInv, Sorted
<1>6. PairCoherent(matches)' /\ \A m \in alerts' : PairCoherent(m)'
  BY DEF PairInv, PairCoherent
<1> QED
  BY <1>1, <1>2, <1>5, <1>6 DEF PairInv

\* The scavenger, a timer that runs out, or nothing at all.
LEMMA PairAside ==
    ASSUME N = 2, NEW t, PairInv(t),
           UNCHANGED <<states, fsm, matches, lastMatch, overtaken, alerts, pc, cur, idx>>,
           \A k \in Slot : partials'[k] \subseteq partials[k]
    PROVE  PairInv(t)'
<1>0. 0 \in Slot /\ 1 \in Slot
  BY TwoSlots
<1>1. InStep(t)'
  BY DEF PairInv, InStep, NoMatches
<1>2. Timely(t)'
  BY DEF PairInv, Timely
<1>3. Leftover' = Leftover /\ Followers' \subseteq Followers
  BY <1>0 DEF Leftover, Followers
<1>4. InOrder => InOrder'
  BY <1>0, <1>3 DEF InOrder
<1>5. Sorted(t)'
  BY <1>3, <1>4 DEF PairInv, Sorted
<1>6. PairCoherent(matches)' /\ \A m \in alerts' : PairCoherent(m)'
  BY DEF PairInv, PairCoherent
<1> QED
  BY <1>1, <1>2, <1>5, <1>6 DEF PairInv

\* addPartial: an event of the first slot joins none of the second that counts,
\* one of the second is later than all of the first.
LEMMA PairAdd ==
    ASSUME N = 2, TypeOK, NEW t \in Thread, SoloControl(t), PairInv(t), AddPartial(t)
    PROVE  PairInv(t)'
<1> DEFINE e == cur[t]
           i == idx[t]
<1>0. /\ 0 \in Slot /\ 1 \in Slot /\ Slot = {0, 1} /\ Terminal = 2
      /\ i \in Slot /\ e \in Event /\ lastMatch \in Nat
      /\ pc \in [Thread -> PCs] /\ partials \in [Slot -> SUBSET Event]
      /\ fsm \in {0, 1, 2}
  <2>1. pc[t] # "idle"
    BY DEF AddPartial
  <2> QED BY <2>1, TwoSlots DEF TypeOK
<1>1. /\ UNCHANGED <<states, fsm, matches, lastMatch, overtaken, alerts, cur, idx>>
      /\ pc[t] = "add" /\ pc'[t] = "fire"
  BY <1>0 DEF AddPartial, Goto, fsmVars, alertVars
<1>2. /\ partials'[i] \subseteq partials[i] \cup {e}
      /\ \A k \in Slot : k # i => partials'[k] = partials[k]
  BY <1>0 DEF AddPartial, PartialsAfterAdd
<1>3. \A k \in Slot : \A p \in partials[k] : p.ts < e.ts
  <2>1. ASSUME NEW k \in Slot, NEW p \in partials[k]
        PROVE  p.ts < e.ts
    <3>1. p.ts <= lastMatch /\ (lastMatch = 0 \/ e.ts > lastMatch)
      BY <1>1 DEF PairInv, Timely
    <3>2. p.ts \in Nat \ {0} /\ e.ts \in Nat
      BY <1>0 DEF EventRecord
    <3> QED BY <1>0, <3>1, <3>2
  <2> QED BY <2>1
<1>4. e.ts \in Nat
  BY <1>0 DEF EventRecord
<1>5. InStep(t)'
  BY <1>1 DEF PairInv, InStep, NoMatches
<1>6. Timely(t)'
  <2>1. ASSUME NEW k \in Slot, NEW p \in partials'[k]
        PROVE  p \in partials[k] \/ (k = i /\ p = e)
    BY <1>2, <2>1
  <2>2. \A k \in Slot : \A p \in partials'[k] : p.ts <= lastMatch \/ p = e
    BY <1>1, <2>1 DEF PairInv, Timely
  <2>3. ASSUME NEW k \in Slot, NEW p \in partials'[k], NEW q \in partials'[k], p.ts = q.ts
        PROVE  p = q
    <3>1. ~(e.ts < e.ts)
      BY <1>4
    <3>2. p \in partials[k] /\ q = e => FALSE
      BY <1>3, <2>3, <3>1
    <3>3. q \in partials[k] /\ p = e => FALSE
      BY <1>3, <2>3, <3>1
    <3>4. p \in partials[k] /\ q \in partials[k] => p = q
      BY <2>3 DEF PairInv, Timely
    <3> QED BY <2>1, <3>2, <3>3, <3>4
  <2>4. lastMatch = 0 \/ e.ts > lastMatch
    BY <1>1 DEF PairInv, Timely
  <2> QED BY <1>1, <2>2, <2>3, <2>4 DEF Timely
<1>7. Leftover' = Leftover
  BY <1>1 DEF Leftover
<1>8. fsm # Terminal
  BY <1>1 DEF PairInv, InStep
<1>9. Followers # {} => Leftover
  BY <1>1, <1>8 DEF PairInv, Sorted
<1>10. Sorted(t)'
  <2>1. CASE Leftover
    BY <1>1, <1>7, <2>1 DEF Sorted
  <2>2. CASE ~Leftover /\ i = 0
    <3>1. Followers' = {}
      BY <1>0, <1>1, <1>2, <1>9, <2>2 DEF Followers
    <3> QED BY <1>1, <3>1 DEF Sorted, InOrder
  <2>3. CASE ~Leftover /\ i = 1
    <3>1. Followers' \subseteq {e} \ overtaken
      BY <1>0, <1>1, <1>2, <1>9, <2>3 DEF Followers
    <3>2. partials'[0] = partials[0]
      BY <1>0, <1>2, <2>3
    <3>3. InOrder'
      BY <1>0, <1>3, <3>1, <3>2 DEF InOrder
    <3>4. e \notin overtaken => fsm = 1
      <4>1. ASSUME e \notin overtaken PROVE states[0]
        BY <1>1, <2>3, <4>1 DEF PairInv, Sorted
      <4>2. Prefix
        BY <2>3 DEF SoloControl
      <4>3. e \notin overtaken => 0 < fsm
        BY <1>0, <4>1, <4>2 DEF Prefix
      <4> QED BY <1>0, <1>8, <4>3
    <3> QED BY <1>1, <2>3, <3>1, <3>3, <3>4 DEF Sorted
  <2> QED BY <1>0, <2>1, <2>2, <2>3
<1>11. PairCoherent(matches)' /\ \A m \in alerts' : PairCoherent(m)'
  BY <1>1 DEF PairInv, PairCoherent
<1> QED
  BY <1>5, <1>6, <1>10, <1>11 DEF PairInv

\* The match trigger: a follower takes the state machine to Terminal, unless
\* the marks of an earlier match keep it from firing.
LEMMA PairFire ==
    ASSUME N = 2, TypeOK, NEW t \in Thread, SoloControl(t), PairInv(t), Fire(t)
    PROVE  PairInv(t)'
<1>0. /\ 0 \in Slot /\ 1 \in Slot /\ Slot = {0, 1} /\ Terminal = 2
      /\ idx[t] \in Slot /\ fsm \in {0, 1, 2}
      /\ pc \in [Thread -> PCs]
  BY TwoSlots DEF TypeOK
<1>1. /\ UNCHANGED <<partials, matches, lastMatch, overtaken, alerts, cur, idx>>
      /\ pc[t] = "fire" /\ pc'[t] = "after" /\ MatchTransition(idx[t])
  BY <1>0 DEF Fire, Goto
<1>2. fsm # Terminal
  BY <1>1 DEF PairInv, InStep
<1>3. InStep(t)'
  BY <1>1 DEF PairInv, InStep, NoMatches
<1>4. Timely(t)'
  BY <1>1 DEF PairInv, Timely
<1>5. Followers' = Followers /\ InOrder' = InOrder
  BY <1>1 DEF Followers, InOrder
<1>6. Leftover => Leftover'
  <2>1. ASSUME Leftover PROVE UNCHANGED <<fsm, states>>
    <3>1. states[idx[t]]
      BY <1>0, <2>1 DEF Leftover
    <3> QED BY <1>1, <3>1 DEF MatchTransition, fsmVars
  <2> QED BY <2>1 DEF Leftover
<1>7. ASSUME ~Leftover, Followers # {} PROVE fsm' = Terminal
  <2>1. fsm = 1 /\ idx[t] = 1
    BY <1>2, <1>7 DEF PairInv, Sorted
  <2>2. Prefix
    BY <1>7 DEF SoloControl
  <2>3. ~states[1]
    BY <1>0, <2>1, <2>2 DEF Prefix
  <2>4. fsm' = fsm + 1
    BY <1>1, <1>2, <2>1, <2>3 DEF MatchTransition, StateAfter
  <2> QED BY <1>0, <2>1, <2>4
<1>8. Sorted(t)'
  BY <1>1, <1>5, <1>6, <1>7 DEF PairInv, Sorted
<1>9. PairCoherent(matches)' /\ \A m \in alerts' : PairCoherent(m)'
  BY <1>1 DEF PairInv, PairCoherent
<1> QED
  BY <1>3, <1>4, <1>8, <1>9 DEF PairInv

\* The timestamp of the match is saved.
LEMMA PairSave ==
    ASSUME N = 2, TypeOK, NEW t \in Thread, PairInv(t), SaveLastMatch(t)
    PROVE  PairInv(t)'
<1>0. pc \in [Thread -> PCs] /\ lastMatch \in Nat /\ cur[t] \in Event
      /\ partials \in [Slot -> SUBSET Event]
  <2>1. pc[t] # "idle"
    BY DEF SaveLastMatch
  <2> QED BY <2>1 DEF TypeOK
<1>1. /\ UNCHANGED <<partials, matches, states, fsm, overtaken, alerts, cur, idx>>
      /\ pc[t] = "after" /\ pc'[t] = "check" /\ lastMatch' = cur[t].ts
  BY <1>0 DEF SaveLastMatch, Goto, fsmVars, alertVars
<1>2. InStep(t)'
  BY <1>1 DEF PairInv, InStep, NoMatches
<1>3. Timely(t)'
  <2>1. ASSUME NEW k \in Slot, NEW p \in partials[k]
        PROVE  p.ts <= cur[t].ts
    <3>1. p.ts \in Nat \ {0} /\ cur[t].ts \in Nat
      BY <1>0 DEF EventRecord
    <3>2. /\ p.ts <= lastMatch \/ p = cur[t]
          /\ lastMatch = 0 \/ cur[t].ts > lastMatch
      BY <1>1 DEF PairInv, Timely
    <3> QED BY <1>0, <3>1, <3>2
  <2> QED BY <1>1, <2>1 DEF PairInv, Timely
<1>4. Followers' = Followers /\ InOrder' = InOrder /\ Leftover' = Leftover
  BY <1>1 DEF Followers, InOrder, Leftover
<1>5. Sorted(t)'
  BY <1>1, <1>4 DEF PairInv, Sorted
<1>6. PairCoherent(matches)' /\ \A m \in alerts' : PairCoherent(m)'
  BY <1>1 DEF PairInv, PairCoherent
<1> QED
  BY <1>2, <1>3, <1>5, <1>6 DEF PairInv

\* Terminal is seen, left by the reset, or left by a timer's: the partials of
\* the match are in order, and its marks stay.
LEMMA PairTerminal ==
    ASSUME N = 2, TypeOK, NEW t \in Thread, SoloControl(t), PairInv(t),
           UNCHANGED <<partials, states, matches, lastMatch, overtaken, alerts, cur, idx>>,
           \/ fsm = Terminal /\ fsm' = 0 /\ pc' = pc
           \/ fsm = Terminal /\ fsm' = fsm /\ pc[t] = "check" /\ pc'[t] = "reset"
           \/ fsm \in {0, Terminal} /\ fsm' = 0 /\ pc[t] = "reset" /\ pc'[t] = "collect"
    PROVE  PairInv(t)'
<1>0. Terminal # 0
  BY TwoSlots
<1>1. InStep(t)'
  BY <1>0 DEF PairInv, InStep, NoMatches
<1>2. Timely(t)'
  BY DEF PairInv, InStep, Timely
<1>3. Followers' = Followers /\ InOrder' = InOrder
  BY DEF Followers, InOrder
<1>4. InOrder
  BY <1>0 DEF PairInv, Sorted, Leftover
<1>5. fsm = Terminal => \A k \in Slot : states[k]
  BY <1>0, TerminalPrefix DEF SoloControl, Leftover
<1>6. Followers # {} => fsm' = Terminal \/ Leftover'
  <2>1. CASE fsm = Terminal
    BY <1>5, <2>1 DEF Leftover
  <2>2. CASE fsm # Terminal
    BY <2>2 DEF PairInv, Sorted, Leftover
  <2> QED BY <2>1, <2>2
<1>7. pc'[t] \notin {"run", "add"}
  BY DEF PairInv, InStep
<1>8. Sorted(t)'
  BY <1>3, <1>4, <1>6, <1>7 DEF Sorted
<1>9. PairCoherent(matches)' /\ \A m \in alerts' : PairCoherent(m)'
  BY DEF PairInv, PairCoherent
<1> QED
  BY <1>1, <1>2, <1>8, <1>9 DEF PairInv

\* The first pair of partials that join is one pair.
LEMMA OnePair ==
    ASSUME N = 2, TypeOK, NEW t, Timely(t),
           NEW r \in FirstPairs(0), NEW q \in FirstPairs(0)
    PROVE  r[1] = q[1] /\ r[2] = q[2]
<1>1. /\ r[1] \in partials[0] /\ r[2] \in partials[1]
      /\ q[1] \in partials[0] /\ q[2] \in partials[1]
  BY DEF FirstPairs
<1>2. /\ r[1].ts < q[1].ts \/ (r[1].ts = q[1].ts /\ r[2].ts <= q[2].ts)
      /\ q[1].ts < r[1].ts \/ (q[1].ts = r[1].ts /\ q[2].ts <= r[2].ts)
  BY DEF FirstPairs
<1>3. r[1].ts \in Nat /\ r[2].ts \in Nat /\ q[1].ts \in Nat /\ q[2].ts \in Nat
  <2>1. partials[0] \subseteq Event /\ partials[1] \subseteq Event
    BY TwoSlots DEF TypeOK
  <2> QED BY <1>1, <2>1, SlotFacts
<1>4. r[1].ts = q[1].ts /\ r[2].ts = q[2].ts
  BY <1>2, <1>3
<1> QED
  BY <1>1, <1>4, TwoSlots DEF Timely

LEMMA PairCollect ==
    ASSUME N = 2, TypeOK, NEW t \in Thread, SoloControl(t), PairInv(t), Collect(t)
    PROVE  PairInv(t)'
<1>0. /\ 0 \in Slot /\ 1 \in Slot /\ Terminal = 2
      /\ pc \in [Thread -> PCs]
  BY TwoSlots DEF TypeOK
<1>1. /\ UNCHANGED <<partials, states, fsm, lastMatch, overtaken, alerts, cur, idx>>
      /\ pc[t] = "collect" /\ pc'[t] = "report"
  BY <1>0 DEF Collect, Goto, fsmVars, alertVars
<1>2. InStep(t)'
  BY <1>1 DEF PairInv, InStep
<1>3. Timely(t)'
  BY <1>1 DEF PairInv, Timely
<1>4. /\ Followers' = Followers /\ InOrder' = InOrder /\ Leftover' = Leftover
      /\ InOrder
  BY <1>1 DEF Followers, InOrder, Leftover, PairInv, Sorted
<1>5. Sorted(t)'
  BY <1>1, <1>4 DEF PairInv, Sorted
<1>6. matches[0] = None /\ matches[1] = None
  BY <1>0, <1>1 DEF PairInv, InStep, NoMatches
<1>7. PairCoherent(matches)'
  <2> SUFFICES ASSUME matches'[0] # None, matches'[1] # None
               PROVE  /\ By => matches'[0].link = matches'[1].link
                      /\ matches'[1] \in overtaken \/ matches'[0].ts < matches'[1].ts
    BY <1>1 DEF PairCoherent
  <2>1. PICK n \in Lengths : \A k \in Slot : matches'[k] \in Collectable(k, n)
    BY <1>0 DEF Collect
  <2>0. matches'[0] \in Collectable(0, n) /\ matches'[1] \in Collectable(1, n)
    BY <1>0, <2>1
  <2>2. PICK r \in FirstPairs(0) : matches'[0] = r[1]
    BY <1>6, <2>0 DEF Collectable
  <2>3. 1 - 1 = 0 /\ 1 > 0 /\ ~(1 < N - 1)
    OBVIOUS
  <2>4. PICK q \in FirstPairs(0) : matches'[1] = q[2]
    BY <1>6, <2>0, <2>3 DEF Collectable
  <2>5. r[2] = q[2]
    BY OnePair DEF PairInv
  <2>6. r[1] \in partials[0] /\ r[2] \in partials[1] /\ JoinPair(r[1], r[2])
    BY DEF FirstPairs
  <2>7. By => r[1].link = r[2].link
    BY <2>6 DEF JoinPair
  <2>8. r[2] \in overtaken \/ r[1].ts < r[2].ts
    BY <1>4, <2>6 DEF InOrder, Followers
  <2> QED BY <2>2, <2>4, <2>5, <2>7, <2>8
<1>8. \A m \in alerts' : PairCoherent(m)'
  BY <1>1 DEF PairInv, PairCoherent
<1> QED
  BY <1>2, <1>3, <1>5, <1>7, <1>8 DEF PairInv

LEMMA PairReport ==
    ASSUME N = 2, TypeOK, NEW t \in Thread, PairInv(t), Report(t)
    PROVE  PairInv(t)'
<1>0. pc \in [Thread -> PCs]
  BY DEF TypeOK
<1>1. /\ UNCHANGED <<partials, states, fsm, matches, lastMatch, overtaken, cur, idx>>
      /\ pc[t] = "report" /\ pc'[t] = "clear" /\ alerts' = alerts \cup {matches}
  BY <1>0 DEF Report, Goto, seqVars, fsmVars
<1>2. InStep(t)'
  BY <1>1 DEF PairInv, InStep
<1>3. Timely(t)'
  BY <1>1 DEF PairInv, Timely
<1>4. /\ Followers' = Followers /\ InOrder' = InOrder /\ Leftover' = Leftover
      /\ InOrder
  BY <1>1 DEF Followers, InOrder, Leftover, PairInv, Sorted
<1>5. Sorted(t)'
  BY <1>1, <1>4 DEF PairInv, Sorted
<1>6. PairCoherent(matches)' /\ \A m \in alerts' : PairCoherent(m)'
  BY <1>1 DEF PairInv, PairCoherent
<1> QED
  BY <1>2, <1>3, <1>5, <1>6 DEF PairInv

\* One step of the only thread.
LEMMA PairThreadStep ==
    ASSUME N = 2, Unordered = FALSE, TypeOK, NEW t \in Thread, SoloControl(t), PairInv(t),
           ThreadStep(t)
    PROVE  PairInv(t)'
<1> USE DEF seqVars, fsmVars, alertVars
<1>0. /\ pc \in [Thread -> PCs] /\ idx[t] \in Slot /\ Slot = {0, 1}
      /\ cur \in [Thread -> Event \cup {None}]
  BY TwoSlots DEF TypeOK
<1>1. ASSUME UNCHANGED <<partials, states, fsm, matches, lastMatch, overtaken, alerts>>,
             pc[t] \in {"next", "run", "check"}, fsm # Terminal,
             pc'[t] \in {"idle", "next"}
      PROVE  PairInv(t)'
  BY <1>1, PairBefore
<1>2. pc[t] \in {"next", "run"} => fsm # Terminal
  BY DEF PairInv, InStep
<1>3. CASE CheckNext(t)
  <2>1. /\ UNCHANGED <<partials, states, fsm, matches, lastMatch, overtaken, alerts, cur, idx>>
        /\ pc[t] = "next" /\ pc'[t] = "run" /\ NextExpr(idx[t])
    BY <1>0, <1>3 DEF CheckNext, Goto
  <2>2. idx[t] = 1 => states[0]
    BY <2>1 DEF NextExpr
  <2> QED BY <1>2, <2>1, <2>2, PairBefore
<1>4. CASE SkipExpr(t) \/ RunFails(t)
  <2>1. /\ UNCHANGED <<partials, states, fsm, matches, lastMatch, overtaken, alerts>>
        /\ pc[t] \in {"next", "run"} /\ pc'[t] \in {"idle", "next"}
    BY <1>0, <1>4 DEF SkipExpr, RunFails, Continue, Goto
  <2> QED BY <1>1, <1>2, <2>1
<1>5. CASE RunExpr(t)
  <2>1. /\ UNCHANGED <<partials, states, fsm, matches, lastMatch, overtaken, alerts, cur>>
        /\ pc[t] = "run"
        /\ \/ pc'[t] \in {"idle", "next"}
           \/ Monotonic(cur[t]) /\ pc'[t] = "add" /\ idx' = idx
    BY <1>0, <1>5 DEF RunExpr, Continue, Goto
  <2>2. CASE Monotonic(cur[t]) /\ pc'[t] = "add" /\ idx' = idx
    <3>1. lastMatch = 0 \/ cur[t].ts > lastMatch
      BY <2>2 DEF Monotonic
    <3>2. idx[t] = 1 => cur[t] \in overtaken \/ states[0]
      BY <2>1 DEF PairInv, Sorted
    <3> QED BY <1>2, <2>1, <2>2, <3>1, <3>2, PairBefore
  <2> QED BY <1>1, <1>2, <2>1, <2>2
<1>6. CASE CheckTerminal(t)
  <2>1. /\ UNCHANGED <<partials, states, fsm, matches, lastMatch, overtaken, alerts, cur>>
        /\ pc[t] = "check"
        /\ \/ fsm = Terminal /\ pc'[t] = "reset" /\ idx' = idx
           \/ fsm # Terminal /\ pc'[t] \in {"idle", "next"}
    BY <1>0, <1>6 DEF CheckTerminal, Continue, Goto
  <2> QED BY <1>1, <2>1, PairTerminal
<1>7. CASE ResetTerminal(t)
  <2>1. /\ UNCHANGED <<partials, states, matches, lastMatch, overtaken, alerts, cur, idx>>
        /\ pc[t] = "reset" /\ pc'[t] = "collect" /\ fsm' = AfterReset
    BY <1>0, <1>7 DEF ResetTerminal, Goto
  <2>2. fsm \in {0, Terminal} /\ fsm' = 0
    BY <2>1 DEF SoloControl, AfterReset
  <2> QED BY <2>1, <2>2, PairTerminal
<1>8. CASE ClearLocked(t)
  <2>1. /\ Clear /\ fsm' = fsm /\ pc[t] = "clear" /\ pc'[t] = "idle" /\ UNCHANGED alerts
    BY <1>0, <1>8 DEF ClearLocked, Goto
  <2>2. fsm = 0
    BY <2>1 DEF SoloControl
  <2> QED BY <2>1, <2>2, PairCleared DEF Clear
<1>9. /\ ~KeepOutOfOrder(t) /\ ~AddOutOfOrder(t) /\ ~StartOutOfOrder(t) /\ ~EndOutOfOrder(t)
      /\ \A k \in Slot, p \in Event : ~SkipOutOfOrder(t, k, p) /\ ~FireOutOfOrder(t, k, p)
  BY DEF PairInv, InStep, KeepOutOfOrder, AddOutOfOrder, StartOutOfOrder, EndOutOfOrder,
         SkipOutOfOrder, FireOutOfOrder, NextOutOfOrder
<1> QED
  BY <1>3, <1>4, <1>5, <1>6, <1>7, <1>8, <1>9, PairAdd, PairFire, PairSave, PairCollect,
     PairReport DEF ThreadStep

\* A step of the engine, a timer or the scavenger.
LEMMA PairOtherStep ==
    ASSUME N = 2, TypeOK, NEW t, Thread = {t}, SoloControl(t), PairInv(t), [Next]_vars,
           ~ThreadStep(t)
    PROVE  PairInv(t)'
<1> USE DEF seqVars, fsmVars, alertVars
<1>0. /\ pc \in [Thread -> PCs] /\ t \in Thread /\ partials \in [Slot -> SUBSET Event]
  BY DEF TypeOK
<1>1. ASSUME NEW e \in Event,
             \/ Process(t, e) \/ ExpirePartials(t, e)
             \/ ExpireSequence(t, e) \/ ExpireTerminal(t, e)
      PROVE  PairInv(t)'
  <2>1. pc[t] = "idle" /\ pc'[t] \in {"idle", "next"}
    <3>1. Take(t, e) /\ Enter(t, e)
      BY <1>1 DEF Process, ExpirePartials, ExpireSequence, ExpireTerminal
    <3> QED BY <1>0, <3>1 DEF Take, Enter, Goto
  <2>2. fsm # Terminal
    BY <2>1 DEF PairInv, InStep
  <2>3. CASE Process(t, e) \/ ExpirePartials(t, e)
    <3>1. UNCHANGED <<states, fsm, matches, lastMatch, overtaken, alerts>>
      BY <2>3 DEF Process, ExpirePartials
    <3>2. \A k \in Slot : partials'[k] \subseteq partials[k]
      BY <2>3 DEF Process, ExpirePartials, PartialsAfterExpire, Alive
    <3> QED BY <2>1, <2>2, <3>1, <3>2, PairBefore
  <2>4. CASE ExpireSequence(t, e)
    <3>1. Clear /\ fsm' = 0 /\ alerts' = alerts
      BY <2>4 DEF ExpireSequence
    <3> QED BY <2>1, <3>1, PairCleared DEF Clear
  <2>5. ~ExpireTerminal(t, e)
    BY <2>2 DEF ExpireTerminal
  <2> QED BY <1>1, <2>3, <2>4, <2>5
<1>2. ASSUME NEW r, TimerCheck(r)
      PROVE  PairInv(t)'
  <2>1. UNCHANGED <<partials, states, fsm, matches, lastMatch, overtaken, alerts, pc, cur, idx>>
    BY <1>2 DEF TimerCheck
  <2> QED BY <2>1, PairAside
<1>3. ASSUME NEW r, TimerCancel(r)
      PROVE  PairInv(t)'
  <2>1. Clear /\ fsm' = 0 /\ UNCHANGED <<alerts, pc, cur, idx>>
    BY <1>3 DEF TimerCancel
  <2>2. pc[t] \in {"run", "add"} /\ idx[t] = 1 => cur[t] \in overtaken'
    BY <1>0, <2>1 DEF Clear, LetIn
  <2>3. pc[t] \notin {"ooo", "addooo"}
    BY DEF PairInv, InStep
  <2> QED BY <2>1, <2>2, <2>3, PairCleared DEF Clear
<1>4. ASSUME NEW r, TimerCancelTerminal(r)
      PROVE  PairInv(t)'
  <2>1. /\ UNCHANGED <<partials, states, matches, lastMatch, overtaken, alerts, cur, idx>>
        /\ fsm = Terminal /\ fsm' = 0 /\ pc' = pc
    BY <1>4 DEF TimerCancelTerminal
  <2> QED BY <1>0, <2>1, PairTerminal
<1>5. ASSUME NEW cut, Gc(cut)
      PROVE  PairInv(t)'
  <2>1. /\ UNCHANGED <<states, fsm, matches, lastMatch, overtaken, alerts, pc, cur, idx>>
        /\ \A k \in Slot : partials'[k] \subseteq partials[k]
    BY <1>5 DEF Gc
  <2> QED BY <2>1, PairAside
<1>6. CASE UNCHANGED vars
  BY <1>6, PairAside DEF vars
<1>7. \A u \in Thread : u = t
  OBVIOUS
<1> QED
  BY <1>1, <1>2, <1>3, <1>4, <1>5, <1>6, <1>7, NextCases

\* The events of every match of an ordered sequence of two expressions belong
\* together (runSequence): they share the fields of the by statement and come
\* in the order of the expressions, unless a span timer cleared the sequence
\* between the evaluation of the second one and addPartial.  One thread runs
\* the sequence; timers, scavenger and terminating processes interfere freely.
THEOREM PairsCoherent ==
    ASSUME N = 2, Unordered = FALSE, NEW t, Thread = {t}
    PROVE  Spec => []Coherent
<1>1. Init => PairInv(t)
  <2> SUFFICES ASSUME Init PROVE PairInv(t)
    OBVIOUS
  <2>1. /\ pc[t] = "idle" /\ fsm = 0 /\ matches = NoMatches /\ alerts = {}
        /\ Terminal # 0 /\ 0 \in Slot /\ 1 \in Slot
        /\ \A k \in Slot : partials[k] = {} /\ NoMatches[k] = None
    BY TwoSlots DEF Init, NoPartials, NoMatches
  <2>2. InStep(t)
    BY <2>1 DEF InStep
  <2>3. Timely(t)
    BY <2>1 DEF Timely
  <2>4. Sorted(t)
    BY <2>1 DEF Sorted, InOrder, Followers
  <2>5. PairCoherent(matches) /\ \A m \in alerts : PairCoherent(m)
    BY <2>1 DEF PairCoherent
  <2> QED BY <2>2, <2>3, <2>4, <2>5 DEF PairInv
<1>2. TypeOK /\ SoloControl(t) /\ PairInv(t) /\ [Next]_vars => PairInv(t)'
  BY PairThreadStep, PairOtherStep
<1>3. TypeOK /\ PairInv(t) => Coherent
  <2> SUFFICES ASSUME TypeOK, PairInv(t) PROVE JoinedMatches /\ Chronological
    BY DEF Coherent
  <2>1. Slot = {0, 1}
    BY TwoSlots
  <2>2. JoinedMatches
    BY <2>1 DEF PairInv, PairCoherent, JoinedMatches, MatchEvents
  <2>3. Chronological
    BY <2>1 DEF PairInv, PairCoherent, Chronological
  <2> QED BY <2>2, <2>3
<1>4. Spec => [](TypeOK /\ SoloControl(t))
  BY SoloInvariant, PTL
<1> QED
  BY <1>1, <1>2, <1>3, <1>4, PTL DEF Spec
-----------------------------------------------------------------------------
(* What the slots and the matches hold *)

\* The thread is inside addPartial for the slot, which takes its event.
Adds(t, k) ==
    /\ pc[t] # "idle" /\ idx[t] = k
    /\ ~Dropped(k, cur[t])
    /\ partials'[k] = partials[k] \cup {cur[t]}

\* A slot gains at most the event of one thread, by addPartial.
LEMMA PartialsEffect ==
    ASSUME TypeOK, [Next]_vars, NEW k \in Slot
    PROVE  partials'[k] \subseteq partials[k] \/ \E t \in Thread : Adds(t, k)
<1>0. partials \in [Slot -> SUBSET Event]
  BY DEF TypeOK
<1>1. ASSUME NEW t \in Thread, NEW e \in Event,
             \/ Process(t, e) \/ ExpirePartials(t, e)
             \/ ExpireSequence(t, e) \/ ExpireTerminal(t, e)
      PROVE  partials'[k] \subseteq partials[k]
  <2>1. \A V \in SUBSET Slot : PartialsAfterExpire(V, e)[k] \subseteq partials[k]
    BY <1>0 DEF PartialsAfterExpire, Alive
  <2>2. CASE Process(t, e)
    BY <2>2 DEF Process, seqVars
  <2>3. CASE ExpirePartials(t, e)
    BY <2>1, <2>3 DEF ExpirePartials
  <2>4. CASE ExpireSequence(t, e)
    BY <2>4 DEF ExpireSequence, Clear, NoPartials
  <2>5. CASE ExpireTerminal(t, e)
    <3>1. PICK z \in Slot, V \in SUBSET Slot : partials' = PartialsAfterExpire(V \cup {z}, e)
      BY <2>5 DEF ExpireTerminal
    <3>2. V \cup {z} \in SUBSET Slot
      OBVIOUS
    <3> QED BY <2>1, <3>1, <3>2
  <2> QED BY <1>1, <2>2, <2>3, <2>4, <2>5
<1>2. ASSUME NEW t \in Thread, ThreadStep(t)
      PROVE  partials'[k] \subseteq partials[k] \/ Adds(t, k)
  <2>1. CASE AddPartial(t) \/ AddOutOfOrder(t)
    <3>1. pc[t] # "idle" /\ partials' = PartialsAfterAdd(idx[t], cur[t])
      BY <2>1 DEF AddPartial, AddOutOfOrder
    <3>2. CASE Dropped(idx[t], cur[t]) \/ idx[t] # k
      <4>1. partials'[k] = partials[k]
        BY <1>0, <3>1, <3>2 DEF PartialsAfterAdd
      <4> QED BY <4>1
    <3>3. CASE ~Dropped(idx[t], cur[t]) /\ idx[t] = k
      <4>1. partials'[k] = partials[k] \cup {cur[t]}
        BY <1>0, <3>1, <3>3 DEF PartialsAfterAdd
      <4> QED BY <3>1, <3>3, <4>1 DEF Adds
    <3> QED BY <3>2, <3>3
  <2>2. CASE ClearLocked(t)
    BY <2>2 DEF ClearLocked, Clear, NoPartials
  <2>3. CASE \/ CheckNext(t) \/ SkipExpr(t) \/ KeepOutOfOrder(t) \/ RunExpr(t)
             \/ RunFails(t) \/ Fire(t) \/ SaveLastMatch(t) \/ StartOutOfOrder(t)
             \/ EndOutOfOrder(t) \/ CheckTerminal(t) \/ ResetTerminal(t)
             \/ Collect(t) \/ Report(t)
    BY <2>3 DEF CheckNext, SkipExpr, KeepOutOfOrder, RunExpr, RunFails, Fire,
                SaveLastMatch, StartOutOfOrder, EndOutOfOrder, CheckTerminal,
                ResetTerminal, Collect, Report, seqVars
  <2>4. ASSUME NEW j \in Slot, NEW p \in Event,
               SkipOutOfOrder(t, j, p) \/ FireOutOfOrder(t, j, p)
        PROVE  partials'[k] \subseteq partials[k]
    BY <2>4 DEF SkipOutOfOrder, FireOutOfOrder, seqVars
  <2> QED BY <1>2, <2>1, <2>2, <2>3, <2>4 DEF ThreadStep
<1>3. ASSUME NEW r, TimerCheck(r) \/ TimerCancel(r) \/ TimerCancelTerminal(r)
      PROVE  partials'[k] \subseteq partials[k]
  BY <1>3 DEF TimerCheck, TimerCancel, TimerCancelTerminal, Clear, NoPartials, seqVars
<1>4. ASSUME NEW cut, Gc(cut)
      PROVE  partials'[k] \subseteq partials[k]
  BY <1>4 DEF Gc
<1>5. CASE UNCHANGED vars
  BY <1>5 DEF vars, seqVars
<1> QED
  BY <1>1, <1>2, <1>3, <1>4, <1>5, NextCases

\* Cardinality alone says nothing of an infinite set.
SlotInv ==
    \A k \in Slot :
        /\ IsFiniteSet(partials[k])
        /\ Cardinality(partials[k]) <= MaxPartials + 1
        /\ \A p, q \in partials[k] : p.key # 0 /\ p.key = q.key => p = q

LEMMA SlotStep ==
    ASSUME TypeOK, SlotInv, [Next]_vars
    PROVE  SlotInv'
<1> SUFFICES ASSUME NEW k \in Slot
             PROVE  /\ IsFiniteSet(partials'[k])
                    /\ Cardinality(partials'[k]) <= MaxPartials + 1
                    /\ \A p, q \in partials'[k] : p.key # 0 /\ p.key = q.key => p = q
  BY DEF SlotInv
<1>1. /\ IsFiniteSet(partials[k])
      /\ Cardinality(partials[k]) <= MaxPartials + 1
      /\ \A p, q \in partials[k] : p.key # 0 /\ p.key = q.key => p = q
  BY DEF SlotInv
<1>2. Cardinality(partials[k]) \in Nat
  BY <1>1, FS_CardinalityType
<1>3. CASE partials'[k] \subseteq partials[k]
  <2>1. IsFiniteSet(partials'[k]) /\ Cardinality(partials'[k]) <= Cardinality(partials[k])
    BY <1>1, <1>3, FS_Subset
  <2>2. Cardinality(partials'[k]) \in Nat
    BY <2>1, FS_CardinalityType
  <2>3. Cardinality(partials'[k]) <= MaxPartials + 1
    BY <1>1, <1>2, <2>1, <2>2
  <2> QED BY <1>1, <1>3, <2>1, <2>3
<1>4. ASSUME NEW t \in Thread, Adds(t, k)
      PROVE  /\ IsFiniteSet(partials'[k])
             /\ Cardinality(partials'[k]) <= MaxPartials + 1
             /\ \A p, q \in partials'[k] : p.key # 0 /\ p.key = q.key => p = q
  <2>1. partials'[k] = partials[k] \cup {cur[t]} /\ ~Dropped(k, cur[t])
    BY <1>4 DEF Adds
  <2>2. /\ ~(Cardinality(partials[k]) > MaxPartials)
        /\ cur[t].key # 0 => \A p \in partials[k] : p.key # cur[t].key
    BY <2>1 DEF Dropped
  <2>3. /\ IsFiniteSet(partials'[k])
        /\ \/ Cardinality(partials'[k]) = Cardinality(partials[k])
           \/ Cardinality(partials'[k]) = Cardinality(partials[k]) + 1
    <3>1. /\ IsFiniteSet(partials[k] \cup {cur[t]})
          /\ \/ Cardinality(partials[k] \cup {cur[t]}) = Cardinality(partials[k])
             \/ Cardinality(partials[k] \cup {cur[t]}) = Cardinality(partials[k]) + 1
      BY <1>1, FS_AddElement
    <3> QED BY <2>1, <3>1
  <2>4. Cardinality(partials'[k]) <= MaxPartials + 1
    BY <1>1, <1>2, <2>2, <2>3
  <2>5. \A p, q \in partials'[k] : p.key # 0 /\ p.key = q.key => p = q
    BY <1>1, <2>1, <2>2
  <2> QED BY <2>3, <2>4, <2>5
<1> QED
  BY <1>3, <1>4, PartialsEffect

\* However many threads add partials, a slot holds at most one more than
\* maxOutstandingPartials and one partial for each PartialKey.
THEOREM SlotsAreBounded == Spec => []SlotsBounded
<1>1. Init => TypeOK /\ SlotInv
  <2> SUFFICES ASSUME Init PROVE SlotInv
    BY InitType
  <2>1. \A k \in Slot : partials[k] = {}
    BY DEF Init, NoPartials
  <2>2. \A k \in Slot : IsFiniteSet(partials[k]) /\ Cardinality(partials[k]) = 0
    BY <2>1, FS_EmptySet
  <2> QED BY <2>1, <2>2 DEF SlotInv
<1>2. TypeOK /\ SlotInv /\ [Next]_vars => (TypeOK /\ SlotInv)'
  BY TypeStep, SlotStep
<1>3. SlotInv => SlotsBounded
  BY DEF SlotInv, SlotsBounded
<1> QED
  BY <1>1, <1>2, <1>3, PTL DEF Spec

(***************************************************************************)
(* An event comes to an alert through the loop variable of runSequence,    *)
(* the slot it was added to and the match that was collected: on the way   *)
(* it always stands at an expression it satisfies.                         *)
(***************************************************************************)
InLoop == \A t \in Thread : pc[t] # "idle" => Arrived(cur[t], idx[t])

InSlots == \A k \in Slot : \A p \in partials[k] : Arrived(p, k)

InMatches == \A k \in Slot : matches[k] # None => Arrived(matches[k], k)

SatisfiedInv == InLoop /\ InSlots /\ InMatches /\ Satisfied

\* An event that has arrived stays so.
LEMMA ArrivalsStep ==
    ASSUME TypeOK, [Next]_vars
    PROVE  toCome' \subseteq toCome
<1>1. ASSUME NEW t \in Thread, NEW e \in Event,
             \/ Process(t, e) \/ ExpirePartials(t, e)
             \/ ExpireSequence(t, e) \/ ExpireTerminal(t, e)
      PROVE  toCome' \subseteq toCome
  BY <1>1 DEF Process, ExpirePartials, ExpireSequence, ExpireTerminal, Take
<1>2. ASSUME NEW t \in Thread, ThreadStep(t)
      PROVE  toCome' = toCome
  BY <1>2 DEF ThreadStep, CheckNext, SkipExpr, KeepOutOfOrder, RunExpr, RunFails,
              AddPartial, AddOutOfOrder, Fire, SaveLastMatch, StartOutOfOrder,
              SkipOutOfOrder, FireOutOfOrder, EndOutOfOrder, CheckTerminal,
              ResetTerminal, Collect, Report, ClearLocked
<1>3. ASSUME NEW r, TimerCheck(r) \/ TimerCancel(r) \/ TimerCancelTerminal(r)
      PROVE  toCome' = toCome
  BY <1>3 DEF TimerCheck, TimerCancel, TimerCancelTerminal
<1>4. ASSUME NEW cut, Gc(cut)
      PROVE  toCome' = toCome
  BY <1>4 DEF Gc
<1>5. CASE UNCHANGED vars
  BY <1>5 DEF vars
<1> QED
  BY <1>1, <1>2, <1>3, <1>4, <1>5, NextCases

\* The next expression of the loop is one that the event satisfies.
LEMMA InLoopContinue ==
    ASSUME TypeOK, InLoop, NEW t \in Thread, pc[t] # "idle", Continue(t),
           UNCHANGED <<toCome, cur>>
    PROVE  InLoop'
<1> SUFFICES ASSUME NEW u \in Thread, pc'[u] # "idle"
             PROVE  idx'[u] \in cur[u].slots /\ cur[u] \notin toCome
  BY DEF InLoop, Arrived
<1>0. pc \in [Thread -> PCs] /\ idx \in [Thread -> Slot]
  BY DEF TypeOK
<1>1. CASE u # t
  <2>1. pc'[u] = pc[u] /\ idx'[u] = idx[u]
    BY <1>0, <1>1 DEF Continue, Goto
  <2> QED BY <2>1 DEF InLoop, Arrived
<1>2. CASE u = t
  <2>1. idx'[t] \in Later(t, idx[t])
    BY <1>0, <1>2 DEF Continue, Goto
  <2>2. idx'[t] \in cur[t].slots
    BY <2>1 DEF Later
  <2> QED BY <1>2, <2>2 DEF InLoop, Arrived
<1> QED BY <1>1, <1>2

LEMMA InLoopEnter ==
    ASSUME TypeOK, InLoop, NEW t \in Thread, NEW e \in Event, Take(t, e), Enter(t, e)
    PROVE  InLoop'
<1> SUFFICES ASSUME NEW u \in Thread, pc'[u] # "idle"
             PROVE  idx'[u] \in cur'[u].slots /\ cur'[u] \notin toCome'
  BY DEF InLoop, Arrived
<1>0. /\ pc \in [Thread -> PCs] /\ idx \in [Thread -> Slot]
      /\ cur \in [Thread -> Event \cup {None}]
  BY DEF TypeOK
<1>1. CASE u # t
  <2>1. pc'[u] = pc[u] /\ idx'[u] = idx[u]
    BY <1>0, <1>1 DEF Enter, Goto
  <2>2. cur'[u] = cur[u] /\ toCome' \subseteq toCome
    BY <1>0, <1>1 DEF Take
  <2> QED BY <2>1, <2>2 DEF InLoop, Arrived
<1>2. CASE u = t
  <2>1. idx'[t] \in e.slots
    BY <1>0, <1>2 DEF Enter, Goto
  <2>2. cur'[t] = e /\ e \notin toCome'
    BY <1>0 DEF Take
  <2> QED BY <1>2, <2>1, <2>2
<1> QED BY <1>1, <1>2

LEMMA InLoopStep ==
    ASSUME TypeOK, InLoop, [Next]_vars
    PROVE  InLoop'
<1>0. /\ pc \in [Thread -> PCs] /\ idx \in [Thread -> Slot]
      /\ cur \in [Thread -> Event \cup {None}]
  BY DEF TypeOK
<1>1. ASSUME NEW t \in Thread, NEW e \in Event,
             \/ Process(t, e) \/ ExpirePartials(t, e)
             \/ ExpireSequence(t, e) \/ ExpireTerminal(t, e)
      PROVE  InLoop'
  <2>1. Take(t, e) /\ Enter(t, e)
    BY <1>1 DEF Process, ExpirePartials, ExpireSequence, ExpireTerminal
  <2> QED BY <2>1, InLoopEnter
<1>2. ASSUME NEW t \in Thread, ThreadStep(t)
      PROVE  InLoop'
  <2>1. CASE pc[t] # "idle" /\ Continue(t) /\ UNCHANGED <<toCome, cur>>
    BY <2>1, InLoopContinue
  <2>2. ASSUME NEW where, pc[t] # "idle", Goto(t, where), UNCHANGED <<toCome, cur, idx>>
        PROVE  InLoop'
    <3> SUFFICES ASSUME NEW u \in Thread, pc'[u] # "idle"
                 PROVE  idx[u] \in cur[u].slots /\ cur[u] \notin toCome
      BY <2>2 DEF InLoop, Arrived
    <3>1. pc[u] # "idle"
      BY <1>0, <2>2 DEF Goto
    <3> QED BY <3>1 DEF InLoop, Arrived
  <2>3. CASE UNCHANGED <<toCome, pc, cur, idx>>
    BY <2>3 DEF InLoop, Arrived
  <2>4. ASSUME NEW k \in Slot, NEW p \in Event,
               SkipOutOfOrder(t, k, p) \/ FireOutOfOrder(t, k, p)
        PROVE  UNCHANGED <<toCome, pc, cur, idx>>
    BY <2>4 DEF SkipOutOfOrder, FireOutOfOrder
  <2>5. CASE \/ CheckNext(t) \/ KeepOutOfOrder(t) \/ AddPartial(t) \/ Fire(t)
             \/ SaveLastMatch(t) \/ StartOutOfOrder(t) \/ EndOutOfOrder(t)
             \/ ResetTerminal(t) \/ Collect(t) \/ Report(t) \/ ClearLocked(t)
    <3>1. pc[t] # "idle" /\ UNCHANGED <<toCome, cur, idx>>
      BY <2>5 DEF CheckNext, KeepOutOfOrder, AddPartial, Fire, SaveLastMatch,
                  StartOutOfOrder, EndOutOfOrder, ResetTerminal, Collect, Report,
                  ClearLocked
    <3>2. \E where : Goto(t, where)
      BY <2>5 DEF CheckNext, KeepOutOfOrder, AddPartial, Fire, SaveLastMatch,
                  StartOutOfOrder, EndOutOfOrder, ResetTerminal, Collect, Report,
                  ClearLocked
    <3> QED BY <2>2, <3>1, <3>2
  <2>6. CASE \/ SkipExpr(t) \/ RunExpr(t) \/ RunFails(t) \/ AddOutOfOrder(t)
             \/ CheckTerminal(t)
    <3>1. pc[t] # "idle" /\ UNCHANGED <<toCome, cur>>
      BY <2>6 DEF SkipExpr, RunExpr, RunFails, AddOutOfOrder, CheckTerminal
    <3>2. Continue(t) \/ (UNCHANGED idx /\ \E where : Goto(t, where))
      BY <2>6 DEF SkipExpr, RunExpr, RunFails, AddOutOfOrder, CheckTerminal
    <3> QED BY <2>1, <2>2, <3>1, <3>2
  <2> QED BY <1>2, <2>3, <2>4, <2>5, <2>6 DEF ThreadStep
<1>3. ASSUME NEW r, TimerCheck(r) \/ TimerCancel(r) \/ TimerCancelTerminal(r)
      PROVE  InLoop'
  BY <1>3 DEF TimerCheck, TimerCancel, TimerCancelTerminal, InLoop, Arrived
<1>4. ASSUME NEW cut, Gc(cut)
      PROVE  InLoop'
  BY <1>4 DEF Gc, InLoop, Arrived
<1>5. CASE UNCHANGED vars
  BY <1>5 DEF vars, InLoop, Arrived
<1> QED
  BY <1>1, <1>2, <1>3, <1>4, <1>5, NextCases

\* The collection takes the event of a slot from its partials.
LEMMA CollectableFrom ==
    ASSUME TypeOK, NEW k \in Slot, NEW n
    PROVE  Collectable(k, n) \subseteq partials[k] \cup {matches[k], None}
<1>1. \A j \in Slot : \A r \in FirstPairs(j) : r \in partials[j] \X partials[j + 1]
  BY DEF FirstPairs
<1>2. k > 0 => \A r \in FirstPairs(k - 1) : r[2] \in partials[k]
  <2> SUFFICES ASSUME k > 0 PROVE \A r \in FirstPairs(k - 1) : r[2] \in partials[k]
    OBVIOUS
  <2>1. k - 1 \in Slot /\ (k - 1) + 1 = k
    BY DEF Slot
  <2> QED BY <1>1, <2>1
<1>3. \A r \in FirstPairs(k) : r[1] \in partials[k]
  BY <1>1
<1> QED
  BY <1>2, <1>3 DEF Collectable

\* A match changes by the collection or is dropped; an alert is a match.
LEMMA MatchesEffect ==
    ASSUME TypeOK, [Next]_vars
    PROVE  /\ \A k \in Slot : matches'[k] \in partials[k] \cup {matches[k], None}
           /\ alerts' \subseteq alerts \cup {matches}
<1> USE DEF seqVars, alertVars
<1>0. Clear => \A k \in Slot : matches'[k] = None
  BY DEF Clear, NoMatches
<1>1. ASSUME NEW t \in Thread, NEW e \in Event,
             \/ Process(t, e) \/ ExpirePartials(t, e)
             \/ ExpireSequence(t, e) \/ ExpireTerminal(t, e)
      PROVE  (UNCHANGED matches \/ Clear) /\ UNCHANGED alerts
  BY <1>1 DEF Process, ExpirePartials, ExpireSequence, ExpireTerminal
<1>2. ASSUME NEW t \in Thread, ThreadStep(t), ~Collect(t), ~Report(t)
      PROVE  (UNCHANGED matches \/ Clear) /\ UNCHANGED alerts
  BY <1>2 DEF ThreadStep, CheckNext, SkipExpr, KeepOutOfOrder, RunExpr, RunFails,
              AddPartial, AddOutOfOrder, Fire, SaveLastMatch, StartOutOfOrder,
              SkipOutOfOrder, FireOutOfOrder, EndOutOfOrder, CheckTerminal,
              ResetTerminal, ClearLocked
<1>3. ASSUME NEW t \in Thread, Collect(t)
      PROVE  /\ \E n \in Lengths : \A k \in Slot : matches'[k] \in Collectable(k, n)
             /\ UNCHANGED alerts
  BY <1>3 DEF Collect
<1>4. ASSUME NEW t \in Thread, Report(t)
      PROVE  UNCHANGED matches /\ alerts' = alerts \cup {matches}
  BY <1>4 DEF Report
<1>5. ASSUME NEW r, TimerCheck(r) \/ TimerCancel(r) \/ TimerCancelTerminal(r)
      PROVE  (UNCHANGED matches \/ Clear) /\ UNCHANGED alerts
  BY <1>5 DEF TimerCheck, TimerCancel, TimerCancelTerminal
<1>6. ASSUME NEW cut, Gc(cut)
      PROVE  UNCHANGED <<matches, alerts>>
  BY <1>6 DEF Gc
<1>7. CASE UNCHANGED vars
  BY <1>7 DEF vars
<1>8. CASE (UNCHANGED matches \/ Clear) /\ UNCHANGED alerts
  BY <1>0, <1>8
<1>9. ASSUME NEW t \in Thread, ThreadStep(t)
      PROVE  /\ \A k \in Slot : matches'[k] \in partials[k] \cup {matches[k], None}
             /\ alerts' \subseteq alerts \cup {matches}
  <2>1. CASE Collect(t)
    <3>1. PICK n \in Lengths : \A k \in Slot : matches'[k] \in Collectable(k, n)
      BY <1>3, <2>1
    <3> QED BY <1>3, <2>1, <3>1, CollectableFrom
  <2>2. CASE Report(t)
    BY <1>4, <2>2
  <2> QED BY <1>2, <1>8, <1>9, <2>1, <2>2
<1> QED
  BY <1>1, <1>5, <1>6, <1>7, <1>8, <1>9, NextCases

LEMMA SatisfiedStep ==
    ASSUME TypeOK, SatisfiedInv, [Next]_vars
    PROVE  SatisfiedInv'
<1>0. toCome' \subseteq toCome
  BY ArrivalsStep
<1>1. \A e, k : Arrived(e, k) => k \in e.slots /\ e \notin toCome'
  BY <1>0 DEF Arrived
<1>2. InLoop'
  BY InLoopStep DEF SatisfiedInv
<1>3. InSlots'
  <2> SUFFICES ASSUME NEW k \in Slot, NEW p \in partials'[k]
               PROVE  k \in p.slots /\ p \notin toCome'
    BY DEF InSlots, Arrived
  <2>1. CASE p \in partials[k]
    BY <1>1, <2>1 DEF SatisfiedInv, InSlots
  <2>2. CASE p \notin partials[k]
    <3>1. PICK t \in Thread : Adds(t, k)
      BY <2>2, PartialsEffect
    <3>2. p = cur[t] /\ pc[t] # "idle" /\ idx[t] = k
      BY <2>2, <3>1 DEF Adds
    <3> QED BY <1>1, <3>2 DEF SatisfiedInv, InLoop
  <2> QED BY <2>1, <2>2
<1>4. InMatches'
  <2> SUFFICES ASSUME NEW k \in Slot, matches'[k] # None
               PROVE  k \in matches'[k].slots /\ matches'[k] \notin toCome'
    BY DEF InMatches, Arrived
  <2>1. matches'[k] \in partials[k] \/ matches'[k] = matches[k]
    BY MatchesEffect
  <2> QED BY <1>1, <2>1 DEF SatisfiedInv, InSlots, InMatches
<1>5. Satisfied'
  <2> SUFFICES ASSUME NEW m \in alerts', NEW k \in Slot, m[k] # None
               PROVE  k \in m[k].slots /\ m[k] \notin toCome'
    BY DEF Satisfied, Arrived
  <2>1. m \in alerts \/ m = matches
    BY MatchesEffect
  <2> QED BY <1>1, <2>1 DEF SatisfiedInv, InMatches, Satisfied
<1> QED
  BY <1>2, <1>3, <1>4, <1>5 DEF SatisfiedInv

\* Every event of every alert has arrived and satisfies the expression that it
\* is shown for, for any number of threads and expressions, ordered or not.
THEOREM AlertsSatisfied == Spec => []Satisfied
<1>1. Init => TypeOK /\ SatisfiedInv
  <2> SUFFICES ASSUME Init PROVE SatisfiedInv
    BY InitType
  <2>1. InLoop /\ Satisfied
    BY DEF Init, InLoop, Satisfied
  <2>2. InSlots /\ InMatches
    BY DEF Init, InSlots, InMatches, NoPartials, NoMatches
  <2> QED BY <2>1, <2>2 DEF SatisfiedInv
<1>2. TypeOK /\ SatisfiedInv /\ [Next]_vars => (TypeOK /\ SatisfiedInv)'
  BY TypeStep, SatisfiedStep
<1>3. SatisfiedInv => Satisfied
  BY DEF SatisfiedInv
<1> QED
  BY <1>1, <1>2, <1>3, PTL DEF Spec
-----------------------------------------------------------------------------
(* Unordered sequences, one thread so far, no span timer *)

(***************************************************************************)
(* The loop over the out-of-order partials does not ask whether the        *)
(* upstream expressions have matched.  With a by statement it need not: a  *)
(* partial joins upstream partials that have their link, and an event gets *)
(* its link when an expression matches it.  But the link is the event's,   *)
(* not the slot's: an event that waits in two inner slots is linked by the *)
(* match of one, joins in the other, and is no longer marked as out of     *)
(* order there.  With four expressions the terminal state is then reached  *)
(* without a match of the other, so that the events must stand Apart.      *)
(***************************************************************************)
Apart == \A e \in Event : \A i, j \in e.slots : i < j /\ j <= N - 2 => i = 0 /\ j = 1

\* The expressions before the state of the FSM have matched, events of the
\* first one are never out of order, and events get their link when they come.
Noted ==
    /\ \A k \in Slot : k < fsm => k \in seen
    /\ partials[0] \subseteq linked
    /\ \A p \in linked : p \notin toCome

\* An expression that has a partial with a link has matched, or is about to.
Backed(t) ==
    \A k \in 0 .. N - 2 : \A p \in partials[k] :
        p \in linked => k \in seen \/ (pc[t] = "fire" /\ k = idx[t] /\ p = cur[t])

Placed(t) ==
    /\ pc[t] \in {"run", "add", "fire"} => idx[t] <= fsm
    /\ pc[t] = "add" => cur[t] \in linked
    /\ pc[t] = "addooo" => idx[t] # 0
    /\ pc[t] \in {"after", "ooo", "check"} => fsm # 0

\* An event that has its link comes to an inner expression only from the first
\* to the second, which it need not wait for.
Direct(t) ==
    pc[t] \in {"next", "run", "addooo"} /\ cur[t] \in linked /\ idx[t] <= N - 2 =>
        pc[t] # "addooo" /\ idx[t] = 1 /\ fsm # 0

\* The loop of runSequence has not been at the slots after idx.
Behind(t) ==
    pc[t] # "idle" => \A k \in Slot : cur[t] \in partials[k] =>
        k <= idx[t] /\ (pc[t] \in {"next", "run", "add", "addooo"} => k # idx[t])

Visits(t) == pc[t] = "ooo" => \A r \in todo[t] : r[2] \in partials[r[1]]

JointInv(t) ==
    /\ Noted /\ Placed(t) /\ Direct(t) /\ Behind(t) /\ Visits(t)
    /\ pc[t] \notin {"collect", "report", "clear"} => Backed(t)

LEMMA ByFacts ==
    ASSUME By = TRUE, NEW k \in Slot, NEW e
    PROVE  /\ Joined(e, k) <=> \A i \in 0 .. k - 1 :
                                  \E p \in partials[i] : p \in linked /\ p.link = e.link
           /\ LinkedAfter(e, k) = {linked \cup {e}}
<1>1. ~IsBound(k)
  <2>1. Bound[k] \in Slot /\ Bound[k] <= k /\ ~(Bound[k] < k)
    BY AliasAssumption
  <2>2. Bound[k] \in Nat /\ k \in Nat
    BY <2>1, SlotFacts
  <2>3. Bound[k] = k
    BY <2>1, <2>2
  <2> QED BY <2>3 DEF IsBound
<1> QED
  BY <1>1 DEF Joined, LinkedAfter

\* The thread is given an event that no slot holds.
LEMMA JointEnter ==
    ASSUME TypeOK, SatisfiedInv, NEW t \in Thread, NEW e \in Event, Take(t, e), Enter(t, e),
           UNCHANGED linked, Noted, Noted',
           \A k \in Slot : partials'[k] \subseteq partials[k],
           \A k \in 0 .. N - 2 : \A p \in partials'[k] : p \in linked => k \in seen'
    PROVE  JointInv(t)'
<1>1. /\ pc'[t] \in {"idle", "next"} /\ cur'[t] = e /\ e \in toCome
  BY DEF TypeOK, Take, Enter, Goto
<1>2. e \notin linked /\ \A k \in Slot : e \notin partials'[k]
  BY <1>1 DEF Noted, SatisfiedInv, InSlots, Arrived
<1>3. Placed(t)' /\ Visits(t)'
  BY <1>1 DEF Placed, Visits
<1>4. Direct(t)'
  BY <1>1, <1>2 DEF Direct
<1>5. Behind(t)'
  BY <1>1, <1>2 DEF Behind
<1>6. Backed(t)'
  BY DEF Backed
<1> QED
  BY <1>3, <1>4, <1>5, <1>6 DEF JointInv

\* The loop of runSequence goes on.
LEMMA JointContinue ==
    ASSUME TypeOK, Apart, InLoop, NEW t \in Thread, pc[t] # "idle", Continue(t),
           UNCHANGED <<cur, fsm, linked>>, Noted',
           \A k \in 0 .. N - 2 : \A p \in partials'[k] : p \in linked => k \in seen',
           \A k \in Slot : cur[t] \in partials'[k] => k <= idx[t],
           idx[t] = 0 /\ cur[t] \in linked => fsm # 0
    PROVE  JointInv(t)'
<1>0. /\ pc \in [Thread -> PCs] /\ idx \in [Thread -> Slot] /\ idx[t] \in Nat
      /\ cur[t] \in Event /\ cur[t].slots \subseteq Nat
  BY SlotFacts DEF TypeOK
<1>1. pc'[t] \in {"idle", "next"}
  BY <1>0 DEF Continue, Goto
<1>2. pc'[t] = "next" => idx'[t] \in cur[t].slots /\ idx'[t] \in Nat /\ idx'[t] > idx[t]
  BY <1>0 DEF Continue, Goto, Later
<1>3. Placed(t)' /\ Visits(t)'
  BY <1>1 DEF Placed, Visits
<1>4. Direct(t)'
  <2> SUFFICES ASSUME pc'[t] = "next", cur[t] \in linked, idx'[t] <= N - 2
               PROVE  idx'[t] = 1 /\ fsm # 0
    BY <1>1 DEF Direct
  <2>1. idx[t] \in cur[t].slots
    BY DEF InLoop, Arrived
  <2>2. idx[t] = 0 /\ idx'[t] = 1
    BY <1>0, <1>2, <2>1 DEF Apart
  <2> QED BY <2>2
<1>5. Behind(t)'
  <2> SUFFICES ASSUME pc'[t] # "idle", NEW k \in Slot, cur[t] \in partials'[k]
               PROVE  k <= idx'[t] /\ k # idx'[t]
    BY DEF Behind
  <2>1. k \in Nat /\ k <= idx[t]
    BY SlotFacts
  <2> QED BY <1>0, <1>1, <1>2, <2>1
<1>6. Backed(t)'
  BY DEF Backed
<1> QED
  BY <1>3, <1>4, <1>5, <1>6 DEF JointInv

\* If the upstream expressions have matched, a match keeps the account.
LEMMA MatchNoted ==
    ASSUME TypeOK, Prefix, Noted, NEW k \in Slot, MatchTransition(k),
           \A i \in Slot : i < k => i \in seen
    PROVE  /\ \A i \in Slot : i < fsm' => i \in seen'
           /\ fsm' # 0 /\ seen' = seen \cup {k}
<1>0. fsm \in Nat /\ k \in Nat /\ Slot \subseteq Nat /\ Terminal \in Nat \ {0}
  BY SlotFacts DEF TypeOK, FsmState, Terminal
<1>1. seen' = seen \cup {k}
  BY DEF MatchTransition
<1>2. CASE states[k] \/ fsm = Terminal
  <2>1. fsm' = fsm
    BY <1>2 DEF MatchTransition, fsmVars
  <2>2. states[k] => k < fsm
    BY DEF Prefix
  <2>3. fsm # 0
    BY <1>0, <1>2, <2>2
  <2> QED BY <1>1, <2>1, <2>3 DEF Noted
<1>3. CASE ~(states[k] \/ fsm = Terminal)
  <2>1. fsm' = fsm + 1
    BY <1>3 DEF MatchTransition, StateAfter
  <2>2. ~(k < fsm)
    BY <1>3 DEF Prefix
  <2>3. \A i \in Slot : i < fsm + 1 => i < k \/ i = k
    BY <1>0, <2>2
  <2> QED BY <1>0, <1>1, <2>1, <2>3
<1> QED
  BY <1>2, <1>3

\* Steps up to the match trigger.
LEMMA JointBefore ==
    ASSUME By = TRUE, Unordered = TRUE, Apart, TypeOK, NoTimers, Unblocked, SatisfiedInv,
           NEW t \in Thread, Single(t), JointInv(t),
           \/ CheckNext(t) \/ KeepOutOfOrder(t) \/ RunExpr(t) \/ RunFails(t)
           \/ AddPartial(t) \/ AddOutOfOrder(t)
    PROVE  JointInv(t)'
<1> USE DEF seqVars, fsmVars
<1>0. /\ pc \in [Thread -> PCs] /\ idx \in [Thread -> Slot] /\ cur[t] \in Event
      /\ idx[t] \in Slot /\ idx[t] \in Nat /\ fsm \in Nat /\ Slot \subseteq Nat
      /\ partials \in [Slot -> SUBSET Event] /\ N \in Nat
  <2>1. pc[t] # "idle"
    BY DEF CheckNext, KeepOutOfOrder, RunExpr, RunFails, AddPartial, AddOutOfOrder
  <2>2. /\ pc \in [Thread -> PCs] /\ idx \in [Thread -> Slot] /\ cur[t] \in Event
        /\ partials \in [Slot -> SUBSET Event] /\ idx[t] \in Slot /\ fsm \in FsmState
    BY <2>1 DEF TypeOK
  <2>3. Slot \subseteq Nat
    BY SlotFacts
  <2>4. fsm \in Nat
    BY <2>2 DEF FsmState
  <2> QED BY <2>2, <2>3, <2>4
<1>p. pc[t] \in {"next", "run", "add", "addooo"}
  BY DEF CheckNext, KeepOutOfOrder, RunExpr, RunFails, AddPartial, AddOutOfOrder
<1>1. Prefix /\ fsm # Terminal
  BY <1>p DEF Single
<1>2. Noted /\ Placed(t) /\ Direct(t) /\ Behind(t) /\ Backed(t)
  BY <1>p DEF JointInv
<1>3. \A k \in 0 .. N - 2 : \A p \in partials[k] : p \in linked => k \in seen
  BY <1>p, <1>2 DEF Backed
<1>4. \A k \in Slot : cur[t] \in partials[k] => k <= idx[t] /\ k # idx[t]
  BY <1>p, <1>2 DEF Behind
<1>5. cur[t] \notin toCome
  BY <1>p DEF SatisfiedInv, InLoop, Arrived
<1>6. CASE CheckNext(t)
  <2>1. /\ pc[t] = "next" /\ pc'[t] = "run" /\ NextExpr(idx[t])
        /\ UNCHANGED <<toCome, partials, fsm, linked, cur, idx, seen>>
    BY <1>0, <1>6 DEF CheckNext, Goto, metaVars
  <2>2. idx[t] <= fsm
    <3>1. CASE idx[t] = 0
      BY <1>0, <3>1
    <3>2. CASE idx[t] # 0
      <4>1. idx[t] - 1 \in Slot /\ idx[t] - 1 \in 0 .. idx[t] - 1
        BY <1>0, <3>2 DEF Slot
      <4>2. states[idx[t] - 1]
        BY <2>1, <3>2, <4>1 DEF NextExpr
      <4>3. idx[t] - 1 < fsm
        BY <1>1, <4>1, <4>2 DEF Prefix
      <4> QED BY <1>0, <4>3
    <3> QED BY <3>1, <3>2
  <2>3. Noted'
    BY <1>2, <2>1 DEF Noted
  <2>4. Placed(t)' /\ Visits(t)'
    BY <2>1, <2>2 DEF Placed, Visits
  <2>5. Direct(t)'
    BY <1>2, <2>1 DEF Direct
  <2>6. Behind(t)' /\ Backed(t)'
    BY <1>3, <1>4, <2>1 DEF Behind, Backed
  <2> QED BY <2>3, <2>4, <2>5, <2>6 DEF JointInv
<1>7. CASE KeepOutOfOrder(t)
  <2>1. /\ pc[t] = "next" /\ pc'[t] = "addooo" /\ ~NextExpr(idx[t])
        /\ UNCHANGED <<toCome, partials, fsm, linked, cur, idx, seen>>
    BY <1>0, <1>7 DEF KeepOutOfOrder, Goto, metaVars
  <2>2. idx[t] # 0
    BY <2>1 DEF NextExpr
  <2>3. Noted'
    BY <1>2, <2>1 DEF Noted
  <2>4. Placed(t)' /\ Visits(t)'
    BY <2>1, <2>2 DEF Placed, Visits
  <2>5. Direct(t)'
    <3> SUFFICES ASSUME cur[t] \in linked, idx[t] <= N - 2 PROVE FALSE
      BY <2>1 DEF Direct
    <3>1. idx[t] = 1 /\ fsm # 0
      BY <1>2, <2>1 DEF Direct
    <3>2. 0 < fsm /\ 0 \in Slot
      BY <1>0, <3>1, SlotFacts
    <3>3. states[0]
      BY <1>1, <3>2 DEF Prefix
    <3>4. \A n \in 0 .. idx[t] - 1 : n = 0
      BY <3>1
    <3>5. ~inDeadline /\ ~inExpired
      BY <3>1 DEF Unblocked, NoTimers
    <3> QED BY <2>1, <3>3, <3>4, <3>5 DEF NextExpr
  <2>6. Behind(t)' /\ Backed(t)'
    BY <1>3, <1>4, <2>1 DEF Behind, Backed
  <2> QED BY <2>3, <2>4, <2>5, <2>6 DEF JointInv
<1>8. CASE RunExpr(t)
  <2>1. /\ pc[t] = "run" /\ pc'[t] = "add" /\ linked' = linked \cup {cur[t]}
        /\ UNCHANGED <<toCome, partials, fsm, cur, idx, seen>>
    <3>1. linked' = linked \cup {cur[t]}
      BY <1>0, <1>8, ByFacts DEF RunExpr
    <3>2. Monotonic(cur[t])
      BY DEF Monotonic
    <3> QED BY <1>0, <1>8, <3>1, <3>2 DEF RunExpr, Goto
  <2>2. idx[t] <= fsm
    BY <1>2, <2>1 DEF Placed
  <2>3. Noted'
    BY <1>2, <1>5, <2>1 DEF Noted
  <2>4. Placed(t)' /\ Visits(t)' /\ Direct(t)'
    BY <2>1, <2>2 DEF Placed, Visits, Direct
  <2>5. Behind(t)'
    BY <1>4, <2>1 DEF Behind
  <2>6. Backed(t)'
    <3> SUFFICES ASSUME NEW k \in 0 .. N - 2, NEW p \in partials[k], p \in linked'
                 PROVE  k \in seen
      BY <2>1 DEF Backed
    <3>1. CASE p \in linked
      BY <1>3, <3>1
    <3>2. CASE p = cur[t]
      <4>1. k \in Slot /\ k \in Nat
        BY <1>0 DEF Slot
      <4>2. k < fsm
        BY <1>0, <1>4, <2>2, <3>2, <4>1
      <4> QED BY <1>2, <4>1, <4>2 DEF Noted
    <3> QED BY <2>1, <3>1, <3>2
  <2> QED BY <2>3, <2>4, <2>5, <2>6 DEF JointInv
<1>9. CASE RunFails(t)
  <2>1. /\ pc[t] = "run" /\ Continue(t)
        /\ UNCHANGED <<toCome, partials, fsm, linked, cur, seen>>
    BY <1>9 DEF RunFails, metaVars
  <2>2. Noted'
    BY <1>2, <2>1 DEF Noted
  <2>3. idx[t] = 0 /\ cur[t] \in linked => fsm # 0
    BY <1>0, <1>2, <2>1 DEF Direct
  <2> QED BY <1>3, <1>4, <2>1, <2>2, <2>3, JointContinue DEF SatisfiedInv
<1>10. CASE AddPartial(t)
  <2>1. /\ pc[t] = "add" /\ pc'[t] = "fire" /\ partials' = PartialsAfterAdd(idx[t], cur[t])
        /\ UNCHANGED <<toCome, fsm, linked, cur, idx, seen>>
    BY <1>0, <1>10 DEF AddPartial, Goto, metaVars
  <2>2. \A k \in Slot : \A p \in partials'[k] : p \in partials[k] \/ (k = idx[t] /\ p = cur[t])
    BY <1>0, <2>1 DEF PartialsAfterAdd
  <2>3. cur[t] \in linked /\ idx[t] <= fsm
    BY <1>2, <2>1 DEF Placed
  <2>4. Noted'
    BY <1>2, <2>1, <2>2, <2>3, SlotFacts DEF Noted
  <2>5. Placed(t)' /\ Visits(t)' /\ Direct(t)'
    BY <2>1, <2>3 DEF Placed, Visits, Direct
  <2>6. Behind(t)'
    <3>1. idx[t] <= idx[t]
      BY <1>0
    <3>2. \A k \in Slot : cur[t] \in partials'[k] => k <= idx[t]
      BY <1>4, <2>2, <3>1
    <3> QED BY <2>1, <3>2 DEF Behind
  <2>7. Backed(t)'
    <3>1. 0 .. N - 2 \subseteq Slot
      BY DEF Slot
    <3> QED BY <1>3, <2>1, <2>2, <3>1 DEF Backed
  <2> QED BY <2>4, <2>5, <2>6, <2>7 DEF JointInv
<1>11. CASE AddOutOfOrder(t)
  <2>1. /\ pc[t] = "addooo" /\ Continue(t) /\ partials' = PartialsAfterAdd(idx[t], cur[t])
        /\ UNCHANGED <<toCome, fsm, linked, cur, seen>>
    BY <1>11 DEF AddOutOfOrder
  <2>2. \A k \in Slot : \A p \in partials'[k] : p \in partials[k] \/ (k = idx[t] /\ p = cur[t])
    BY <1>0, <2>1 DEF PartialsAfterAdd
  <2>3. idx[t] # 0 /\ (cur[t] \in linked => ~(idx[t] <= N - 2))
    BY <1>2, <2>1 DEF Placed, Direct
  <2>4. Noted'
    BY <1>2, <2>1, <2>2, <2>3, SlotFacts DEF Noted
  <2>5. \A k \in 0 .. N - 2 : \A p \in partials'[k] : p \in linked => k \in seen
    <3>1. \A k \in 0 .. N - 2 : k \in Slot /\ k <= N - 2
      BY DEF Slot
    <3> QED BY <1>3, <2>2, <2>3, <3>1
  <2>6. \A k \in Slot : cur[t] \in partials'[k] => k <= idx[t]
    <3>1. idx[t] <= idx[t]
      BY <1>0
    <3> QED BY <1>4, <2>2, <3>1
  <2> QED BY <2>1, <2>3, <2>4, <2>5, <2>6, JointContinue DEF SatisfiedInv
<1> QED
  BY <1>6, <1>7, <1>8, <1>9, <1>10, <1>11

\* The match trigger fires for the event of the thread.
LEMMA JointFire ==
    ASSUME TypeOK, NEW t \in Thread, Single(t), JointInv(t), Fire(t)
    PROVE  JointInv(t)'
<1>0. /\ pc \in [Thread -> PCs] /\ idx[t] \in Slot /\ idx[t] \in Nat /\ fsm \in Nat
      /\ Slot \subseteq Nat
  <2>1. Slot \subseteq Nat
    BY SlotFacts
  <2>2. pc \in [Thread -> PCs] /\ idx[t] \in Slot /\ fsm \in FsmState
    BY DEF TypeOK
  <2>3. fsm \in Nat
    BY <2>2 DEF FsmState
  <2> QED BY <2>1, <2>2, <2>3
<1>1. /\ pc[t] = "fire" /\ pc'[t] = "after" /\ MatchTransition(idx[t])
      /\ UNCHANGED <<toCome, partials, linked, cur, idx>>
  BY <1>0 DEF Fire, Goto, metaVars
<1>2. Prefix /\ Noted /\ Placed(t) /\ Behind(t) /\ Backed(t)
  BY <1>1 DEF Single, JointInv
<1>3. \A i \in Slot : i < idx[t] => i \in seen
  <2>1. idx[t] <= fsm
    BY <1>1, <1>2 DEF Placed
  <2>2. \A i \in Slot : i < idx[t] => i < fsm
    BY <1>0, <2>1
  <2> QED BY <1>2, <2>2 DEF Noted
<1>4. /\ \A i \in Slot : i < fsm' => i \in seen'
      /\ fsm' # 0 /\ seen' = seen \cup {idx[t]}
  <2>1. PICK k \in Slot : k = idx[t]
    BY <1>0
  <2> QED BY <1>1, <1>2, <1>3, <2>1, MatchNoted
<1>5. Noted'
  BY <1>1, <1>2, <1>4 DEF Noted
<1>6. Placed(t)' /\ Direct(t)' /\ Visits(t)'
  BY <1>1, <1>4 DEF Placed, Direct, Visits
<1>7. Behind(t)'
  BY <1>1, <1>2 DEF Behind
<1>8. Backed(t)'
  BY <1>1, <1>2, <1>4 DEF Backed
<1> QED
  BY <1>5, <1>6, <1>7, <1>8 DEF JointInv

\* It fires for an event that arrived out of order: the events it joins have
\* matched the upstream expressions, and it is in no other inner slot that has
\* not matched.
LEMMA JointFireOutOfOrder ==
    ASSUME By = TRUE, Apart, TypeOK, SatisfiedInv, NEW t \in Thread, Single(t), JointInv(t),
           NEW k \in Slot, NEW p \in Event, FireOutOfOrder(t, k, p)
    PROVE  JointInv(t)'
<1>0. /\ k \in Nat /\ Slot \subseteq Nat /\ N \in Nat
      /\ todo \in [Thread -> SUBSET (Slot \X Event)]
  BY SlotFacts DEF TypeOK
<1>1. /\ pc[t] = "ooo" /\ pc'[t] = "ooo" /\ MatchTransition(k) /\ Joined(p, k)
      /\ <<k, p>> \in todo[t] /\ todo'[t] \subseteq todo[t] /\ linked' \in LinkedAfter(p, k)
      /\ UNCHANGED <<toCome, partials, cur, idx>>
  BY <1>0 DEF FireOutOfOrder, NextOutOfOrder
<1>2. linked' = linked \cup {p}
  BY <1>1, ByFacts
<1>3. Prefix /\ Noted /\ Placed(t) /\ Behind(t) /\ Backed(t) /\ Visits(t)
  BY <1>1 DEF Single, JointInv
<1>4. \A j \in 0 .. N - 2 : \A q \in partials[j] : q \in linked => j \in seen
  BY <1>1, <1>3 DEF Backed
<1>5. p \in partials[k]
  <2>1. \A r \in todo[t] : r[2] \in partials[r[1]]
    BY <1>1, <1>3 DEF Visits
  <2> QED BY <1>1, <2>1
<1>6. \A i \in Slot : i < k => i \in seen
  <2> SUFFICES ASSUME NEW i \in Slot, i < k PROVE i \in seen
    OBVIOUS
  <2>1. i \in 0 .. k - 1 /\ i \in 0 .. N - 2
    BY <1>0 DEF Slot
  <2>2. PICK q \in partials[i] : q \in linked
    BY <1>1, <2>1, ByFacts
  <2> QED BY <1>4, <2>1, <2>2
<1>7. /\ \A i \in Slot : i < fsm' => i \in seen'
      /\ fsm' # 0 /\ seen' = seen \cup {k}
  BY <1>1, <1>3, <1>6, MatchNoted
<1>8. Noted'
  <2>1. p \notin toCome
    BY <1>5 DEF SatisfiedInv, InSlots, Arrived
  <2> QED BY <1>1, <1>2, <1>3, <1>7, <2>1 DEF Noted
<1>9. Placed(t)' /\ Direct(t)' /\ Visits(t)'
  BY <1>1, <1>3, <1>7 DEF Placed, Direct, Visits
<1>10. Behind(t)'
  BY <1>1, <1>3 DEF Behind
<1>11. Backed(t)'
  <2> SUFFICES ASSUME NEW j \in 0 .. N - 2, NEW q \in partials[j], q \in linked'
               PROVE  j \in seen'
    BY <1>1 DEF Backed
  <2>1. j \in Slot /\ j \in Nat /\ j <= N - 2
    BY <1>0 DEF Slot
  <2>2. CASE q \in linked
    BY <1>4, <1>7, <2>2
  <2>3. CASE q = p /\ p \notin linked
    <3>1. k \in p.slots /\ j \in p.slots
      BY <1>5, <2>1, <2>3 DEF SatisfiedInv, InSlots, Arrived
    <3>2. k # 0
      BY <1>3, <1>5, <2>3 DEF Noted
    <3>3. ~(k < j)
      BY <2>1, <3>1, <3>2 DEF Apart
    <3>4. j < k \/ j = k
      BY <1>0, <2>1, <3>3
    <3> QED BY <1>6, <1>7, <2>1, <3>4
  <2> QED BY <1>2, <2>2, <2>3
<1> QED
  BY <1>8, <1>9, <1>10, <1>11 DEF JointInv

\* Steps behind the match trigger.
LEMMA JointAfter ==
    ASSUME Unordered = TRUE, Apart, TypeOK, SatisfiedInv, NEW t \in Thread, Single(t),
           JointInv(t),
           \/ SaveLastMatch(t) \/ StartOutOfOrder(t) \/ EndOutOfOrder(t) \/ CheckTerminal(t)
           \/ \E k \in Slot, p \in Event : SkipOutOfOrder(t, k, p)
    PROVE  JointInv(t)'
<1> USE DEF seqVars, fsmVars
<1>0. pc \in [Thread -> PCs] /\ todo \in [Thread -> SUBSET (Slot \X Event)] /\ Terminal # 0
  BY DEF TypeOK, Terminal
<1>p. pc[t] \in {"after", "ooo", "check"}
  BY DEF SaveLastMatch, StartOutOfOrder, EndOutOfOrder, CheckTerminal, SkipOutOfOrder,
         NextOutOfOrder
<1>1. Noted /\ Placed(t) /\ Behind(t) /\ Backed(t) /\ Visits(t) /\ fsm # 0
  BY <1>p DEF JointInv, Placed
<1>2. \A k \in 0 .. N - 2 : \A p \in partials[k] : p \in linked => k \in seen
  BY <1>p, <1>1 DEF Backed
<1>3. \A k \in Slot : cur[t] \in partials[k] => k <= idx[t]
  BY <1>p, <1>1 DEF Behind
<1>4. UNCHANGED <<toCome, partials, fsm, linked, cur, seen>>
  BY DEF SaveLastMatch, StartOutOfOrder, EndOutOfOrder, CheckTerminal, SkipOutOfOrder,
         metaVars
<1>5. Noted'
  BY <1>1, <1>4 DEF Noted
<1>6. ASSUME pc'[t] \in {"ooo", "check", "reset"}, UNCHANGED idx,
             pc'[t] = "ooo" => \A r \in todo'[t] : r[2] \in partials[r[1]]
      PROVE  JointInv(t)'
  <2>1. Placed(t)' /\ Direct(t)'
    BY <1>1, <1>4, <1>6 DEF Placed, Direct
  <2>2. Visits(t)'
    BY <1>4, <1>6 DEF Visits
  <2>3. Behind(t)'
    BY <1>3, <1>4, <1>6 DEF Behind
  <2>4. Backed(t)'
    BY <1>2, <1>4, <1>6 DEF Backed
  <2> QED BY <1>5, <2>1, <2>2, <2>3, <2>4 DEF JointInv
<1>7. CASE SaveLastMatch(t)
  BY <1>7 DEF SaveLastMatch
<1>8. CASE StartOutOfOrder(t)
  <2>1. UNCHANGED idx /\ pc'[t] \in {"ooo", "check"}
    BY <1>0, <1>8 DEF StartOutOfOrder, Goto
  <2>2. ASSUME pc'[t] = "ooo" PROVE \A r \in todo'[t] : r[2] \in partials[r[1]]
    <3>1. todo'[t] = {r \in Slot \X Event : r[2] \in partials[r[1]]}
      BY <1>0, <1>8, <2>2 DEF StartOutOfOrder, Goto
    <3> QED BY <3>1
  <2> QED BY <1>6, <2>1, <2>2
<1>9. CASE EndOutOfOrder(t)
  <2>1. UNCHANGED idx /\ pc'[t] = "check"
    BY <1>0, <1>9 DEF EndOutOfOrder, Goto
  <2> QED BY <1>6, <2>1
<1>10. CASE CheckTerminal(t)
  <2>1. CASE fsm = Terminal
    <3>1. UNCHANGED idx /\ pc'[t] = "reset"
      BY <1>0, <1>10, <2>1 DEF CheckTerminal, Goto
    <3> QED BY <1>6, <3>1
  <2>2. CASE fsm # Terminal
    <3>1. Continue(t)
      BY <1>10, <2>2 DEF CheckTerminal
    <3> QED BY <1>p, <1>1, <1>2, <1>3, <1>4, <1>5, <3>1, JointContinue DEF SatisfiedInv
  <2> QED BY <2>1, <2>2
<1>11. ASSUME NEW k \in Slot, NEW p \in Event, SkipOutOfOrder(t, k, p)
       PROVE  JointInv(t)'
  <2>1. UNCHANGED <<idx, pc>> /\ pc[t] = "ooo" /\ todo'[t] \subseteq todo[t]
    BY <1>0, <1>11 DEF SkipOutOfOrder, NextOutOfOrder
  <2>2. \A r \in todo'[t] : r[2] \in partials[r[1]]
    BY <1>1, <2>1 DEF Visits
  <2> QED BY <1>6, <2>1, <2>2
<1> QED
  BY <1>7, <1>8, <1>9, <1>10, <1>11

\* The end of a match, whose partials are cleared after the reset.
LEMMA JointEnd ==
    ASSUME TypeOK, NEW t \in Thread, Single(t), JointInv(t),
           ResetTerminal(t) \/ Collect(t) \/ Report(t) \/ ClearLocked(t)
    PROVE  JointInv(t)'
<1> USE DEF seqVars, fsmVars
<1>0. pc \in [Thread -> PCs] /\ Slot \subseteq Nat /\ Terminal # 0 /\ 0 \in Slot
  BY SlotFacts DEF TypeOK, Terminal
<1>1. Noted /\ Behind(t)
  BY DEF JointInv
<1>p. pc[t] \in {"reset", "collect", "report", "clear"}
  BY DEF ResetTerminal, Collect, Report, ClearLocked
<1>2. UNCHANGED <<toCome, linked, cur, idx>>
  BY DEF ResetTerminal, Collect, Report, ClearLocked, metaVars
<1>3. fsm' = 0
  <2>1. CASE ResetTerminal(t)
    BY <2>1 DEF ResetTerminal, AfterReset, Single
  <2>2. CASE Collect(t) \/ Report(t) \/ ClearLocked(t)
    BY <2>2 DEF Collect, Report, ClearLocked, Single, Leftover
  <2> QED BY <2>1, <2>2
<1>4. \A k \in Slot : ~(k < fsm')
  BY <1>0, <1>3
<1>5. CASE ResetTerminal(t) \/ Collect(t) \/ Report(t)
  <2>1. UNCHANGED partials /\ pc'[t] \in {"collect", "report", "clear"}
    BY <1>0, <1>5 DEF ResetTerminal, Collect, Report, Goto
  <2>2. Noted'
    BY <1>1, <1>2, <1>4, <2>1 DEF Noted
  <2>3. Placed(t)' /\ Direct(t)' /\ Visits(t)'
    BY <2>1 DEF Placed, Direct, Visits
  <2>4. Behind(t)'
    BY <1>p, <1>1, <1>2, <2>1 DEF Behind
  <2> QED BY <2>1, <2>2, <2>3, <2>4 DEF JointInv
<1>6. CASE ClearLocked(t)
  <2>1. pc'[t] = "idle" /\ \A k \in Slot : partials'[k] = {}
    BY <1>0, <1>6 DEF ClearLocked, Clear, NoPartials, Goto
  <2>2. Noted'
    BY <1>0, <1>1, <1>2, <1>4, <2>1 DEF Noted
  <2>3. Placed(t)' /\ Direct(t)' /\ Visits(t)' /\ Behind(t)'
    BY <2>1 DEF Placed, Direct, Visits, Behind
  <2>4. Backed(t)'
    <3>1. 0 .. N - 2 \subseteq Slot
      BY DEF Slot
    <3> QED BY <2>1, <3>1 DEF Backed
  <2> QED BY <2>2, <2>3, <2>4 DEF JointInv
<1> QED
  BY <1>5, <1>6

\* The thread is given an event, which may be the end of a process.
LEMMA JointEngineStep ==
    ASSUME TypeOK, SatisfiedInv, NEW t \in Thread, Single(t), JointInv(t), NEW e \in Event,
           [Next]_vars,
           \/ Process(t, e) \/ ExpirePartials(t, e)
           \/ ExpireSequence(t, e) \/ ExpireTerminal(t, e)
    PROVE  JointInv(t)'
<1>0. Slot \subseteq Nat /\ 0 \in Slot /\ 0 .. N - 2 \subseteq Slot
  BY SlotFacts DEF Slot
<1>1. /\ Take(t, e) /\ Enter(t, e) /\ pc[t] = "idle" /\ toCome' \subseteq toCome
      /\ UNCHANGED linked
  BY DEF Process, ExpirePartials, ExpireSequence, ExpireTerminal, Take, metaVars
<1>2. Noted /\ Backed(t) /\ fsm # Terminal
  BY <1>1 DEF JointInv, Single
<1>3. \A k \in 0 .. N - 2 : \A p \in partials[k] : p \in linked => k \in seen
  BY <1>1, <1>2 DEF Backed
<1>4. CASE Process(t, e) \/ ExpirePartials(t, e)
  <2>1. UNCHANGED <<fsm, seen>> /\ \A k \in Slot : partials'[k] \subseteq partials[k]
    <3>1. \A k \in Slot : PartialsAfterExpire(Slot, e)[k] \subseteq partials[k]
      BY DEF PartialsAfterExpire, Alive, TypeOK
    <3> QED BY <1>4, <3>1 DEF Process, ExpirePartials, seqVars, fsmVars
  <2>2. Noted'
    BY <1>0, <1>1, <1>2, <2>1 DEF Noted
  <2>3. \A k \in 0 .. N - 2 : \A p \in partials'[k] : p \in linked => k \in seen'
    BY <1>0, <1>3, <2>1
  <2> QED BY <1>1, <1>2, <2>1, <2>2, <2>3, JointEnter
<1>5. CASE ExpireSequence(t, e)
  <2>1. fsm' = 0 /\ \A k \in Slot : partials'[k] = {}
    BY <1>5 DEF ExpireSequence, Clear, NoPartials
  <2>2. \A k \in Slot : ~(k < fsm')
    BY <1>0, <2>1
  <2>3. Noted'
    BY <1>0, <1>1, <1>2, <2>1, <2>2 DEF Noted
  <2>4. /\ \A k \in Slot : partials'[k] \subseteq partials[k]
        /\ \A k \in 0 .. N - 2 : \A p \in partials'[k] : p \in linked => k \in seen'
    BY <1>0, <2>1
  <2> QED BY <1>1, <1>2, <2>3, <2>4, JointEnter
<1>6. CASE ExpireTerminal(t, e)
  BY <1>2, <1>6 DEF ExpireTerminal
<1> QED
  BY <1>4, <1>5, <1>6

JointAlone == \A t \in Thread : Lead(t) => JointInv(t)

LEMMA JointStep ==
    ASSUME By = TRUE, Unordered = TRUE, Apart, AloneInv, Unblocked, SatisfiedInv, JointAlone,
           [Next]_vars
    PROVE  JointAlone'
<1> SUFFICES ASSUME NEW t \in Thread, Lead(t)'
             PROVE  JointInv(t)'
  BY DEF JointAlone
<1>c. /\ cur \in [Thread -> Event \cup {None}] /\ None \notin Event /\ TypeOK /\ NoTimers
  BY DEF AloneInv, TypeOK
<1>1. ASSUME Lead(t) PROVE JointInv(t) /\ Single(t)
  BY <1>1 DEF AloneInv, SingleInv, JointAlone
<1>2. ASSUME NEW u \in Thread, NEW e \in Event,
             \/ Process(u, e) \/ ExpirePartials(u, e)
             \/ ExpireSequence(u, e) \/ ExpireTerminal(u, e)
      PROVE  JointInv(t)'
  <2>1. cur' = [cur EXCEPT ![u] = e]
    BY <1>2 DEF Process, ExpirePartials, ExpireSequence, ExpireTerminal, Take
  <2>2. cur'[u] = e /\ e # None
    BY <1>c, <2>1
  <2>3. u = t
    BY <2>2 DEF Lead
  <2>4. \A v \in Thread : v # t => cur'[v] = cur[v]
    BY <1>c, <2>1, <2>3
  <2>5. Lead(t)
    BY <2>4 DEF Lead
  <2>6. JointInv(t) /\ Single(t)
    BY <1>1, <2>5
  <2> QED BY <1>c, <1>2, <2>3, <2>6, JointEngineStep
<1>3. ASSUME UNCHANGED cur PROVE JointInv(t) /\ Single(t)
  BY <1>1, <1>3 DEF Lead
<1>4. ASSUME NEW u \in Thread, ThreadStep(u)
      PROVE  JointInv(t)'
  <2>1. pc[u] # "idle" /\ UNCHANGED cur
    BY <1>4 DEF ThreadStep, CheckNext, SkipExpr, KeepOutOfOrder, RunExpr, RunFails,
       AddPartial, AddOutOfOrder, Fire, SaveLastMatch, StartOutOfOrder, SkipOutOfOrder,
       FireOutOfOrder, NextOutOfOrder, EndOutOfOrder, CheckTerminal, ResetTerminal, Collect,
       Report, ClearLocked
  <2>2. cur[u] \in Event
    BY <1>c, <2>1 DEF TypeOK
  <2>3. u = t
    BY <1>c, <2>1, <2>2 DEF Lead
  <2>4. JointInv(t) /\ Single(t)
    BY <1>3, <2>1
  <2>5. ~SkipExpr(t)
    BY DEF SkipExpr
  <2> QED
    BY <1>c, <1>4, <2>3, <2>4, <2>5, JointBefore, JointFire, JointFireOutOfOrder, JointAfter,
       JointEnd DEF ThreadStep
<1>5. ASSUME NEW r, TimerCheck(r) \/ TimerCancel(r) \/ TimerCancelTerminal(r)
      PROVE  JointInv(t)'
  BY <1>5 DEF AloneInv, NoTimers, TimerCheck, TimerCancel, TimerCancelTerminal
<1>6. CASE (\E cut : Gc(cut)) \/ UNCHANGED vars
  <2>1. UNCHANGED <<toCome, cur, pc, idx, fsm, seen, linked, todo>>
    BY <1>6 DEF Gc, vars, seqVars, fsmVars, metaVars, loopVars
  <2>2. \A k \in Slot : partials'[k] \subseteq partials[k]
    BY <1>6 DEF Gc, vars, seqVars
  <2>3. pc[t] = "ooo" => partials' = partials
    BY <1>6 DEF Gc, NoReaders, vars, seqVars
  <2>4. JointInv(t)
    BY <1>3, <2>1
  <2>5. 0 \in Slot /\ 0 .. N - 2 \subseteq Slot
    BY SlotFacts DEF Slot
  <2>6. Noted'
    BY <2>1, <2>2, <2>4, <2>5 DEF JointInv, Noted
  <2>7. Placed(t)' /\ Direct(t)'
    BY <2>1, <2>4 DEF JointInv, Placed, Direct
  <2>8. Behind(t)'
    BY <2>1, <2>2, <2>4 DEF JointInv, Behind
  <2>9. Visits(t)'
    BY <2>1, <2>3, <2>4 DEF JointInv, Visits
  <2>10. ASSUME pc[t] \notin {"collect", "report", "clear"} PROVE Backed(t)'
    <3>1. Backed(t)
      BY <2>4, <2>10 DEF JointInv
    <3> QED BY <2>1, <2>2, <2>5, <3>1 DEF Backed
  <2> QED BY <2>1, <2>6, <2>7, <2>8, <2>9, <2>10 DEF JointInv
<1> QED
  BY <1>2, <1>4, <1>5, <1>6, NextCases

\* An unordered sequence with a by statement reaches its terminal state only
\* after an event matched every expression since the last reset, although the
\* loop over the out-of-order partials fires without asking for the upstream
\* ones (runSequence), as long as one thread has run it and there is no maxspan:
\* always with two or three expressions, and with more if no event satisfies two
\* inner expressions other than the first and the second.
THEOREM UnorderedMatchesGenuine ==
    ASSUME MaxSpan = FALSE, Unordered = TRUE, By = TRUE, Thread # {}, N <= 3 \/ Apart
    PROVE  Spec => []Genuine
<1>0. Apart
  <2> SUFFICES ASSUME N <= 3, NEW e \in Event, NEW i \in e.slots, NEW j \in e.slots,
                      i < j, j <= N - 2
               PROVE  i = 0 /\ j = 1
    BY DEF Apart
  <2>1. i \in Nat /\ j \in Nat
    BY SlotFacts
  <2> QED BY <2>1
<1>1. Init => Unblocked /\ SatisfiedInv /\ JointAlone
  <2> SUFFICES ASSUME Init PROVE Unblocked /\ SatisfiedInv /\ JointAlone
    OBVIOUS
  <2>1. Unblocked
    BY DEF Init, Unblocked
  <2>2. InLoop /\ Satisfied
    BY DEF Init, InLoop, Satisfied
  <2>3. InSlots /\ InMatches
    BY DEF Init, InSlots, InMatches, NoPartials, NoMatches
  <2>4. /\ \A k \in Slot : partials[k] = {} /\ ~(k < fsm)
        /\ 0 \in Slot /\ 0 .. N - 2 \subseteq Slot
    <3>1. 0 \in Slot /\ 0 .. N - 2 \subseteq Slot /\ Slot \subseteq Nat
      BY SlotFacts DEF Slot
    <3>2. \A k \in Slot : partials[k] = {} /\ ~(k < fsm)
      BY DEF Init, NoPartials, Slot
    <3> QED BY <3>1, <3>2
  <2>5. Noted
    BY <2>4 DEF Init, Noted
  <2>6. ASSUME NEW t \in Thread PROVE JointInv(t)
    <3>1. pc[t] = "idle"
      BY DEF Init
    <3>2. Placed(t) /\ Direct(t) /\ Behind(t) /\ Visits(t)
      BY <3>1 DEF Placed, Direct, Behind, Visits
    <3>3. Backed(t)
      BY <2>4 DEF Backed
    <3> QED BY <2>5, <3>2, <3>3 DEF JointInv
  <2> QED BY <2>1, <2>2, <2>3, <2>6 DEF SatisfiedInv, JointAlone
<1>2. /\ AloneInv /\ Unblocked /\ SatisfiedInv /\ JointAlone
      /\ [Next]_vars
      => (Unblocked /\ SatisfiedInv /\ JointAlone)'
  BY <1>0, UnblockedStep, SatisfiedStep, JointStep DEF AloneInv
<1>3. AloneInv /\ JointAlone => Genuine
  <2> SUFFICES ASSUME AloneInv, JointAlone, Alone, fsm = Terminal
               PROVE  seen = Slot
    BY DEF Genuine
  <2>1. PICK t \in Thread : Lead(t)
    BY SomeLead
  <2>2. Noted /\ seen \subseteq Slot
    BY <2>1 DEF AloneInv, TypeOK, JointAlone, JointInv
  <2>3. \A k \in Slot : k < Terminal
    BY DEF Slot, Terminal
  <2> QED BY <2>2, <2>3 DEF Noted
<1>4. Spec => []AloneInv
  BY AloneInvariant
<1> QED
  BY <1>1, <1>2, <1>3, <1>4, PTL DEF Spec
=============================================================================
