----------------------------- MODULE MCSequences -----------------------------
(***************************************************************************)
(* Two sequence rules in one run: an unordered one whose events two        *)
(* threads share, and an ordered one with a maxspan that one thread runs.  *)
(* The rules share no state, so the run takes the behaviours of each, the  *)
(* other staying in its initial state.                                     *)
(***************************************************************************)
EXTENDS MCSequenceState

VARIABLES
    part,    \* the rule whose behaviours these are
    sToCome, sPartials, sMatches, sStates, sFsm, sInDeadline, sInExpired, sLastMatch,
    sLinked, sOoo, sTimers, sFiring, sSpan, sGen, sPc, sCur, sIdx, sTodo, sOslot, sSeen,
    sReached, sReported, sAlerts, sOvertaken

\* The ordered rule.
S == INSTANCE SequenceState WITH
       N <- 2, Thread <- {"trace"}, Event <- OneThread, Bound <- [k \in 0 .. 1 |-> k],
       Unordered <- FALSE, MaxSpan <- TRUE,
       toCome <- sToCome, partials <- sPartials, matches <- sMatches, states <- sStates,
       fsm <- sFsm, inDeadline <- sInDeadline, inExpired <- sInExpired,
       lastMatch <- sLastMatch, linked <- sLinked, ooo <- sOoo, timers <- sTimers,
       firing <- sFiring, span <- sSpan, gen <- sGen, pc <- sPc, cur <- sCur, idx <- sIdx,
       todo <- sTodo, oslot <- sOslot, seen <- sSeen, reached <- sReached,
       reported <- sReported, alerts <- sAlerts, overtaken <- sOvertaken

sVars == <<sToCome, sPartials, sMatches, sStates, sFsm, sInDeadline, sInExpired,
           sLastMatch, sLinked, sOoo, sTimers, sFiring, sSpan, sGen, sPc, sCur, sIdx,
           sTodo, sOslot, sSeen, sReached, sReported, sAlerts, sOvertaken>>

MsInit == part \in {"unordered", "ordered"} /\ Init /\ S!Init

MsNext ==
    /\ UNCHANGED part
    /\ \/ part = "unordered" /\ Next /\ UNCHANGED sVars
       \/ part = "ordered" /\ S!Next /\ UNCHANGED vars

MsSpec ==
    /\ MsInit /\ [][MsNext]_<<part, vars, sVars>>
    /\ WF_sVars(part = "ordered" /\ S!ThreadStep("trace"))
    /\ WF_sVars(part = "ordered" /\ \E r \in sTimers : S!TimerCheck(r))
    /\ SF_sVars(part = "ordered" /\ \E r \in sFiring :
                        S!TimerCancel(r) \/ S!TimerCancelTerminal(r))

\* A timer is pending for the state of the ordered rule, which has a maxspan: the
\* timers that matchTransition stops and starts never leave it without one.
OrderedSpanArmed == S!SpanArmed

\* The states map of the ordered rule agrees with its state machine, whatever the
\* timers, the scavenger and the end of a process do between two expressions.
OrderedStatesPrefix == S!StatesPrefix

\* The events of a match of the ordered rule are joined and succeed each other in
\* time, but for one that was let in before the sequence was cleared.
OrderedCoherent == S!Coherent

\* The ordered rule does not stay in a state for ever: the next expression
\* matches, or the deadline or an expiration resets it.
OrderedSpanBounded == S!SpanBounded
=============================================================================
