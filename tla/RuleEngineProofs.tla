--------------------------- MODULE RuleEngineProofs ---------------------------
(***************************************************************************)
(* What RuleEngine promises for any number of goroutines, events and rules *)
(* and both match strategies: its type, the bound on the slice of matches, *)
(* the only ways in which a match can be lost, and how often one can be    *)
(* alerted and acted on.  And what the conditions of rules are made of:    *)
(* wildcards and operators, for strings and lists of any length and        *)
(* integers of any width.                                                  *)
(***************************************************************************)
EXTENDS RuleEngine, FilterOperators, FiniteSetTheorems, TLAPS

\* How often match m is among the first n of the slice.
Occurs(m, n) == Cardinality({i \in 1 .. n : matches[i] = m})
OccursActing(m, n) == Cardinality({i \in 1 .. n : matches[i] = m /\ m[2] \in WithAction})

\* A count over a prefix of the slice is a natural number, and is positive for
\* a match that is in the prefix: the loop of processActions alerts it.
LEMMA OccursNat ==
  ASSUME NEW n \in Nat, NEW m
  PROVE  /\ Occurs(m, n) \in Nat
         /\ OccursActing(m, n) \in Nat
         /\ \A i \in 1 .. n : matches[i] = m => Occurs(m, n) > 0
<1> DEFINE S == {i \in 1 .. n : matches[i] = m}
           T == {i \in 1 .. n : matches[i] = m /\ m[2] \in WithAction}
<1>1. IsFiniteSet(1 .. n)
  BY FS_Interval, SMT
<1>2. IsFiniteSet(S) /\ IsFiniteSet(T)
  BY <1>1, FS_Subset
<1>3. Cardinality(S) \in Nat /\ Cardinality(T) \in Nat
  BY <1>2, FS_CardinalityType
<1>4. ASSUME NEW i \in 1 .. n, matches[i] = m
      PROVE  Cardinality(S) > 0
  <2>1. S # {}
    BY <1>4
  <2>2. Cardinality(S) # 0
    BY <1>2, <2>1, FS_EmptySet
  <2> QED
    BY <1>3, <2>2
<1> QED
  BY <1>3, <1>4 DEF Occurs, OccursActing

\* The filter a thread is at is a rule.
LEMMA FilterRule ==
  ASSUME TypeOK, NEW t \in Thread, pc[t] = "run", HasFilter(t)
  PROVE  /\ cur[t] \in Event
         /\ Filter(t) \in Rule
         /\ <<cur[t], Filter(t)>> \in Match
<1>1. cur[t] \in Event /\ idx[t] \in Nat \ {0}
  BY DEF TypeOK
<1>2. Filters[cur[t]] \in Seq(Rule)
  BY <1>1, FilterAssumption
<1>3. Filter(t) \in Rule
  BY <1>1, <1>2 DEF HasFilter, Filter
<1> QED
  BY <1>1, <1>3 DEF Match

\* Executing a prefix keeps the counters natural numbers that do not shrink,
\* and alerts every match of the prefix.
LEMMA ExecutedCounts ==
  ASSUME TypeOK, NEW n \in Nat, NEW k \in Nat, n <= Len(matches), Executed(n, k)
  PROVE  /\ attempts' \in [Match -> Nat]
         /\ actions' \in [Match -> Nat]
         /\ \A m \in Match : attempts'[m] >= attempts[m]
         /\ \A i \in 1 .. n : attempts'[matches[i]] > 0
<1>1. \A m \in Match : /\ attempts[m] \in Nat /\ actions[m] \in Nat
                       /\ Occurs(m, n) \in Nat /\ OccursActing(m, k) \in Nat
  BY OccursNat DEF TypeOK
<1>2. /\ attempts' = [m \in Match |-> attempts[m] + Occurs(m, n)]
      /\ actions' = [m \in Match |-> actions[m] + OccursActing(m, k)]
  BY DEF Executed, Occurs, OccursActing
<1>3. ASSUME NEW i \in 1 .. n
      PROVE  attempts'[matches[i]] > 0
  <2>1. matches[i] \in Match
    BY DEF TypeOK
  <2>2. Occurs(matches[i], n) > 0
    BY OccursNat
  <2> QED
    BY <1>1, <1>2, <2>1, <2>2
<1> QED
  BY <1>1, <1>2, <1>3

\* A new engine has its type.
LEMMA InitType == Init => TypeOK
BY DEF Init, TypeOK

\* Taking an event keeps the types.
LEMMA TypeProcessEvent ==
  ASSUME TypeOK, NEW t \in Thread, NEW e \in Event, ProcessEvent(t, e)
  PROVE  TypeOK'
BY DEF TypeOK, ProcessEvent, Goto, FirstFilter

\* appendMatch keeps the types: what it appends is an event and a rule.
LEMMA TypeAppendMatch ==
  ASSUME TypeOK, NEW t \in Thread, AppendMatch(t)
  PROVE  TypeOK'
<1>1. <<cur[t], Filter(t)>> \in Match
  BY FilterRule DEF AppendMatch
<1> DEFINE m == <<cur[t], Filter(t)>>
<1>2. matches' = Append(matches, m) /\ appended' = appended \cup {m}
  BY DEF AppendMatch
<1>3. exposed' \subseteq exposed \cup {m}
  BY DEF AppendMatch
<1> HIDE DEF m
<1>0. m \in Match
  BY <1>1 DEF m
<1>4. /\ matches' \in Seq(Match)
      /\ appended' \subseteq Match
      /\ exposed' \subseteq appended'
  BY <1>0, <1>2, <1>3 DEF TypeOK
<1> QED
  BY <1>4 DEF TypeOK, AppendMatch, Goto

\* A processActions that reaches the end keeps the types.
LEMMA TypeProcessActions ==
  ASSUME TypeOK, NEW t \in Thread, ProcessActions(t)
  PROVE  TypeOK'
<1>1. Len(matches) \in Nat
  BY DEF TypeOK
<1>2. attempts' \in [Match -> Nat] /\ actions' \in [Match -> Nat]
  BY <1>1, ExecutedCounts DEF ProcessActions
<1> QED
  BY <1>2 DEF TypeOK, ProcessActions, Goto

\* The matches of the slice were appended.
InSlice == \A i \in 1 .. Len(matches) : matches[i] \in appended

\* A processActions that returns early keeps the types: it exposes only matches
\* that were appended.
LEMMA TypeProcessActionsFails ==
  ASSUME TypeOK, InSlice, NEW t \in Thread, ProcessActionsFails(t)
  PROVE  TypeOK'
<1>1. Len(matches) \in Nat
  BY DEF TypeOK
<1>2. PICK n \in 1 .. Len(matches) : \E k \in {n - 1, n} :
        /\ Executed(n, k)
        /\ exposed' = exposed \cup {matches[i] : i \in n + 1 .. Len(matches)}
  BY DEF ProcessActionsFails
<1>3. n \in Nat /\ n - 1 \in Nat /\ n <= Len(matches)
  BY <1>1
<1>4. attempts' \in [Match -> Nat] /\ actions' \in [Match -> Nat]
  BY <1>2, <1>3, ExecutedCounts
<1>5. {matches[i] : i \in n + 1 .. Len(matches)} \subseteq appended
  BY <1>1, <1>3 DEF InSlice
<1>6. appended' = appended /\ exposed' \subseteq appended'
  BY <1>2, <1>5 DEF ProcessActionsFails, TypeOK
<1> QED
  BY <1>4, <1>6 DEF TypeOK, ProcessActionsFails, Goto

\* clearMatches keeps the types, with either match strategy.
LEMMA TypeClearMatches ==
  ASSUME TypeOK, NEW t \in Thread, ClearMatches(t)
  PROVE  TypeOK'
<1>1. matches' = <<>> /\ matches' \in Seq(Match)
  BY DEF ClearMatches, ClearedMatches
<1>2. ContinueAfter(t) \in {"run", "idle"}
  BY DEF ContinueAfter
<1>3. pc' \in [Thread -> {"idle", "run", "act", "clear"}]
  BY <1>2 DEF TypeOK, ClearMatches, Goto
<1>4. cur[t] \in Event
  BY DEF TypeOK, ClearMatches
<1>5. \A u \in Thread : pc'[u] # "idle" => cur'[u] \in Event
  BY <1>4 DEF TypeOK, ClearMatches, Goto
<1>6. idx' \in [Thread -> Nat \ {0}]
  BY DEF TypeOK, ClearMatches
<1> QED
  BY <1>1, <1>3, <1>5, <1>6 DEF TypeOK, ClearMatches

\* Trying the next filter and returning keep the types.
LEMMA TypeRest ==
  ASSUME TypeOK, NEW t \in Thread, RunMiss(t) \/ Return(t)
  PROVE  TypeOK'
<1>1. CASE RunMiss(t)
  BY <1>1 DEF TypeOK, RunMiss
<1>2. CASE Return(t)
  BY <1>2 DEF TypeOK, Return, Goto
<1> QED
  BY <1>1, <1>2

\* How many threads are between append and clear.
Busy == {t \in Thread : pc[t] \in {"act", "clear"}}

\* A match of the slice that was neither alerted nor exposed meets no thread
\* that is about to clear: its own thread, or another one, will alert it first.
Guarded ==
    \A i \in 1 .. Len(matches) :
      \/ attempts[matches[i]] > 0
      \/ matches[i] \in exposed
      \/ \A u \in Thread : pc[u] # "clear"

Inv == TypeOK /\ InSlice /\ SliceBound /\ Guarded /\ LostOnlyIfExposed

\* The threads are finitely many, so are the busy ones.
LEMMA BusyFinite ==
  IsFiniteSet(Busy) /\ Cardinality(Busy) \in Nat
<1>1. IsFiniteSet(Busy)
  BY ThreadAssumption, FS_Subset DEF Busy
<1> QED
  BY <1>1, FS_CardinalityType

\* Steps that leave the slice, the busy threads and the histories alone.
LEMMA QuietStep ==
  ASSUME TypeOK, InSlice, SliceBound, Guarded, LostOnlyIfExposed,
         NEW t \in Thread,
         \/ \E e \in Event : ProcessEvent(t, e)
         \/ RunMiss(t)
         \/ Return(t)
  PROVE  InSlice' /\ SliceBound' /\ Guarded' /\ LostOnlyIfExposed'
<1>1. UNCHANGED <<matches, attempts, appended, exposed>>
  BY DEF ProcessEvent, RunMiss, Return
<1>2. \A u \in Thread : /\ (pc'[u] \in {"act", "clear"}) <=> (pc[u] \in {"act", "clear"})
                        /\ (pc'[u] = "clear") <=> (pc[u] = "clear")
  BY DEF TypeOK, ProcessEvent, RunMiss, Return, Goto
<1>3. {u \in Thread : pc'[u] \in {"act", "clear"}} = {u \in Thread : pc[u] \in {"act", "clear"}}
  BY <1>2
<1> QED
  BY <1>1, <1>2, <1>3 DEF InSlice, SliceBound, Guarded, LostOnlyIfExposed, Elems

\* appendMatch adds one match and makes one thread busy.
LEMMA AppendStep ==
  ASSUME Inv, NEW t \in Thread, AppendMatch(t)
  PROVE  InSlice' /\ SliceBound' /\ Guarded' /\ LostOnlyIfExposed'
<1> DEFINE m == <<cur[t], Filter(t)>>
<1>1. /\ matches' = Append(matches, m)
      /\ appended' = appended \cup {m}
      /\ exposed' = IF Overtaken(t) THEN exposed \cup {m} ELSE exposed
      /\ attempts' = attempts
      /\ pc[t] = "run"
      /\ pc' = [pc EXCEPT ![t] = "act"]
  BY DEF AppendMatch, Goto
<1>2. matches \in Seq(Match) /\ pc \in [Thread -> {"idle", "run", "act", "clear"}]
  BY DEF Inv, TypeOK
<1>m. m \in Match
  BY FilterRule DEF AppendMatch, Inv
<1> HIDE DEF m
<1>3. /\ Len(matches') = Len(matches) + 1
      /\ Len(matches) \in Nat
      /\ \A i \in 1 .. Len(matches) : matches'[i] = matches[i]
      /\ matches'[Len(matches) + 1] = m
  BY <1>1, <1>2, <1>m
<1>4. InSlice'
  BY <1>1, <1>3 DEF Inv, InSlice
<1>5. SliceBound'
  <2>1. t \notin Busy
    BY <1>1 DEF Busy
  <2>2. {u \in Thread : pc'[u] \in {"act", "clear"}} = Busy \cup {t}
    BY <1>1, <1>2 DEF Busy
  <2>3. Cardinality(Busy \cup {t}) = Cardinality(Busy) + 1
    BY <2>1, BusyFinite, FS_AddElement
  <2>4. Len(matches) <= Cardinality(Busy)
    BY DEF Inv, SliceBound, Busy
  <2>5. Len(matches') <= Cardinality(Busy) + 1
    BY <1>3, <2>4, BusyFinite
  <2> QED
    BY <2>2, <2>3, <2>5 DEF SliceBound
<1>6. Guarded'
  <2> SUFFICES ASSUME NEW i \in 1 .. Len(matches')
               PROVE  \/ attempts'[matches'[i]] > 0
                      \/ matches'[i] \in exposed'
                      \/ \A u \in Thread : pc'[u] # "clear"
    BY DEF Guarded
  <2>1. CASE i \in 1 .. Len(matches)
    <3>1. matches'[i] = matches[i]
      BY <2>1, <1>3
    <3>2. (\A u \in Thread : pc[u] # "clear") => (\A u \in Thread : pc'[u] # "clear")
      BY <1>1, <1>2
    <3>3. exposed \subseteq exposed'
      BY <1>1
    <3> QED
      BY <1>1, <2>1, <3>1, <3>2, <3>3 DEF Inv, Guarded
  <2>2. CASE i = Len(matches) + 1
    <3>1. matches'[i] = m
      BY <2>2, <1>3
    <3>2. CASE Overtaken(t)
      BY <1>1, <3>1, <3>2
    <3>3. CASE ~Overtaken(t)
      BY <1>1, <1>2, <3>3 DEF Overtaken
    <3> QED
      BY <3>2, <3>3
  <2> QED
    BY <1>3, <2>1, <2>2
<1>7. LostOnlyIfExposed'
  <2>1. Elems(matches) \subseteq Elems(matches')
    BY <1>3 DEF Elems
  <2>2. m \in Elems(matches')
    BY <1>3 DEF Elems
  <2>3. exposed \subseteq exposed'
    BY <1>1
  <2> QED
    BY <1>1, <2>1, <2>2, <2>3 DEF Inv, LostOnlyIfExposed, Elems
<1> QED
  BY <1>4, <1>5, <1>6, <1>7

\* What processActions does to the invariant, whether it fails at match n or
\* gets to the end: the prefix is alerted and the rest is exposed.
LEMMA ActStep ==
  ASSUME Inv, NEW t \in Thread, NEW n \in Nat, n <= Len(matches),
         pc[t] = "act", Goto(t, "clear"),
         UNCHANGED <<matches, appended>>,
         attempts' \in [Match -> Nat],
         \A m \in Match : attempts'[m] >= attempts[m],
         \A i \in 1 .. n : attempts'[matches[i]] > 0,
         exposed \subseteq exposed',
         \A i \in n + 1 .. Len(matches) : matches[i] \in exposed'
  PROVE  InSlice' /\ SliceBound' /\ Guarded' /\ LostOnlyIfExposed'
<1>1. matches \in Seq(Match) /\ Len(matches) \in Nat
  BY DEF Inv, TypeOK
<1>2. InSlice'
  BY DEF Inv, InSlice
<1>3. SliceBound'
  <2>1. pc \in [Thread -> {"idle", "run", "act", "clear"}]
    BY DEF Inv, TypeOK
  <2>2. {u \in Thread : pc'[u] \in {"act", "clear"}} = {u \in Thread : pc[u] \in {"act", "clear"}}
    BY <2>1 DEF Goto
  <2> QED
    BY <2>2 DEF Inv, SliceBound
<1>4. Guarded'
  <2>1. ASSUME NEW i \in 1 .. Len(matches)
        PROVE  attempts'[matches[i]] > 0 \/ matches[i] \in exposed'
    BY <1>1
  <2> QED
    BY <2>1 DEF Guarded
<1>5. LostOnlyIfExposed'
  <2> SUFFICES ASSUME NEW a \in appended'
               PROVE  a \in Elems(matches') \/ attempts'[a] > 0 \/ a \in exposed'
    BY DEF LostOnlyIfExposed, Elems
  <2>1. a \in Match /\ attempts[a] \in Nat /\ attempts'[a] \in Nat
    BY DEF Inv, TypeOK
  <2>2. a \in Elems(matches) \/ attempts[a] > 0 \/ a \in exposed
    BY DEF Inv, LostOnlyIfExposed, Elems
  <2> QED
    BY <2>1, <2>2 DEF Elems
<1> QED
  BY <1>2, <1>3, <1>4, <1>5

\* clearMatches empties the slice; what it removes was alerted or exposed.
LEMMA ClearStep ==
  ASSUME Inv, NEW t \in Thread, ClearMatches(t)
  PROVE  InSlice' /\ SliceBound' /\ Guarded' /\ LostOnlyIfExposed'
<1>1. /\ matches' = <<>> /\ Len(matches') = 0
      /\ pc[t] = "clear"
      /\ UNCHANGED <<attempts, appended, exposed>>
  BY DEF ClearMatches, ClearedMatches
<1>2. InSlice' /\ Guarded'
  BY <1>1 DEF InSlice, Guarded
<1>3. SliceBound'
  <2>1. IsFiniteSet({u \in Thread : pc'[u] \in {"act", "clear"}})
    BY ThreadAssumption, FS_Subset
  <2>2. Cardinality({u \in Thread : pc'[u] \in {"act", "clear"}}) \in Nat
    BY <2>1, FS_CardinalityType
  <2> QED
    BY <1>1, <2>2 DEF SliceBound
<1>4. LostOnlyIfExposed'
  <2>1. \A i \in 1 .. Len(matches) : attempts[matches[i]] > 0 \/ matches[i] \in exposed
    BY <1>1 DEF Inv, Guarded
  <2>2. \A a \in Elems(matches) : attempts[a] > 0 \/ a \in exposed
    BY <2>1 DEF Elems
  <2> QED
    BY <1>1, <2>2 DEF Inv, LostOnlyIfExposed, Elems
<1> QED
  BY <1>2, <1>3, <1>4

\* Every step of ProcessEvent by any goroutine preserves the invariant.
LEMMA InvStep == Inv /\ [Next]_vars => Inv'
<1> SUFFICES ASSUME Inv, [Next]_vars PROVE Inv'
  OBVIOUS
<1> USE DEF Inv
<1>1. ASSUME NEW t \in Thread, NEW e \in Event, ProcessEvent(t, e) PROVE Inv'
  BY <1>1, TypeProcessEvent, QuietStep
<1>2. ASSUME NEW t \in Thread, RunMiss(t) \/ Return(t) PROVE Inv'
  BY <1>2, TypeRest, QuietStep
<1>3. ASSUME NEW t \in Thread, AppendMatch(t) PROVE Inv'
  BY <1>3, TypeAppendMatch, AppendStep
<1>4. ASSUME NEW t \in Thread, ProcessActions(t) PROVE Inv'
  <2>1. Len(matches) \in Nat
    BY DEF TypeOK
  <2>2. /\ attempts' \in [Match -> Nat]
        /\ \A m \in Match : attempts'[m] >= attempts[m]
        /\ \A i \in 1 .. Len(matches) : attempts'[matches[i]] > 0
    BY <1>4, <2>1, ExecutedCounts DEF ProcessActions
  <2>3. /\ pc[t] = "act" /\ Goto(t, "clear")
        /\ UNCHANGED <<matches, appended, exposed>>
    BY <1>4 DEF ProcessActions
  <2>4. InSlice' /\ SliceBound' /\ Guarded' /\ LostOnlyIfExposed'
    BY <2>1, <2>2, <2>3, ActStep
  <2> QED
    BY <1>4, <2>4, TypeProcessActions
<1>5. ASSUME NEW t \in Thread, ProcessActionsFails(t) PROVE Inv'
  <2>1. Len(matches) \in Nat
    BY DEF TypeOK
  <2>2. PICK n \in 1 .. Len(matches) : \E k \in {n - 1, n} :
          /\ Executed(n, k)
          /\ exposed' = exposed \cup {matches[i] : i \in n + 1 .. Len(matches)}
    BY <1>5 DEF ProcessActionsFails
  <2>3. n \in Nat /\ n - 1 \in Nat /\ n <= Len(matches)
    BY <2>1
  <2>4. /\ attempts' \in [Match -> Nat]
        /\ \A m \in Match : attempts'[m] >= attempts[m]
        /\ \A i \in 1 .. n : attempts'[matches[i]] > 0
    BY <2>2, <2>3, ExecutedCounts
  <2>5. /\ exposed \subseteq exposed'
        /\ \A i \in n + 1 .. Len(matches) : matches[i] \in exposed'
    BY <2>2
  <2>6. /\ pc[t] = "act" /\ Goto(t, "clear")
        /\ UNCHANGED <<matches, appended>>
    BY <1>5 DEF ProcessActionsFails
  <2>7. InSlice' /\ SliceBound' /\ Guarded' /\ LostOnlyIfExposed'
    BY <2>3, <2>4, <2>5, <2>6, ActStep
  <2> QED
    BY <1>5, <2>7, TypeProcessActionsFails
<1>6. ASSUME NEW t \in Thread, ClearMatches(t) PROVE Inv'
  BY <1>6, TypeClearMatches, ClearStep
<1>7. CASE UNCHANGED vars
  BY <1>7 DEF vars, TypeOK, InSlice, SliceBound, Guarded, LostOnlyIfExposed, Elems
<1>8. CASE Rest
  BY <1>7, <1>8 DEF Rest
<1> QED
  BY <1>1, <1>2, <1>3, <1>4, <1>5, <1>6, <1>7, <1>8 DEF Next

\* The invariant holds of a new engine.
LEMMA InitInv == Init => Inv
<1> SUFFICES ASSUME Init PROVE Inv
  OBVIOUS
<1>1. TypeOK
  BY InitType
<1>2. matches = <<>> /\ Len(matches) = 0 /\ appended = {}
  BY DEF Init
<1>3. InSlice /\ Guarded /\ LostOnlyIfExposed
  BY <1>2 DEF InSlice, Guarded, LostOnlyIfExposed
<1>4. SliceBound
  BY <1>2, BusyFinite DEF SliceBound, Busy
<1> QED
  BY <1>1, <1>3, <1>4 DEF Inv

\* The invariant holds of every reachable state.
LEMMA Invariance == Spec => []Inv
BY InitInv, InvStep, PTL DEF Spec

\* The engine's fields and the locals of ProcessEvent keep their types.
THEOREM TypeCorrect == Spec => []TypeOK
<1>1. Inv => TypeOK
  BY DEF Inv
<1> QED
  BY <1>1, Invariance, PTL

\* The slice never holds more matches than there are goroutines between
\* appendMatch and clearMatches, however many goroutines there are.
THEOREM SliceBounded == Spec => []SliceBound
<1>1. Inv => SliceBound
  BY DEF Inv
<1> QED
  BY <1>1, Invariance, PTL

\* A match is dropped without an alert only through the window before another
\* goroutine's deferred clearMatches or behind a failed alert or action.
THEOREM LossesExplained == Spec => []LostOnlyIfExposed
<1>1. Inv => LostOnlyIfExposed
  BY DEF Inv
<1> QED
  BY <1>1, Invariance, PTL
-----------------------------------------------------------------------------
(* How often a match is alerted and acted on *)

Indexed(m) == {i \in DOMAIN Filters[m[1]] : Filters[m[1]][i] = m[2]}

\* The event has not been run against its filter i.
Ahead(e, i) ==
    \/ e \in toCome
    \/ \E t \in Thread : /\ cur[t] = e
                          /\ \/ pc[t] = "run" /\ i >= idx[t]
                             \/ pc[t] \in {"act", "clear"} /\ i > idx[t]

Remaining(m) == {i \in Indexed(m) : Ahead(m[1], i)}

\* The threads that may act on the slice before they clear it.
MayAct == {t \in Thread : pc[t] # "clear"}

\* An event is with one thread.
OneTaker ==
    \A t \in Thread : cur[t] # None =>
        cur[t] \notin toCome /\ \A u \in Thread : cur[u] = cur[t] => u = t

\* How often match m is in the slice.
InSliceTimes(m) == Cardinality({i \in 1 .. Len(matches) : matches[i] = m})

\* What a match has cost, what its copies in the slice may cost before they are
\* cleared, and what its later copies may cost, is within the bound.
Budget ==
    \A m \in Match :
        attempts[m] + InSliceTimes(m) * Cardinality(MayAct)
          + Cardinality(Thread) * Cardinality(Remaining(m))
            <= Cardinality(Thread) * Cardinality(Indexed(m))

Fewer == \A m \in Match : actions[m] <= attempts[m]

BudgetInv == Inv /\ OneTaker /\ Budget /\ Fewer

LEMMA TimesMonotonic ==
  ASSUME NEW a \in Nat, NEW b \in Nat, NEW c \in Nat, a <= b
  PROVE  c * a <= c * b
<1>1. PICK d \in Nat : b = a + d
  <2>1. b - a \in Nat /\ b = a + (b - a)
    OBVIOUS
  <2> QED BY <2>1
<1>2. c * b = c * a + c * d
  BY <1>1
<1>3. c * a \in Nat /\ c * d \in Nat
  OBVIOUS
<1> QED
  BY <1>2, <1>3

LEMMA TimesNext ==
  ASSUME NEW a \in Nat, NEW c \in Nat
  PROVE  (a + 1) * c = a * c + c /\ c * (a + 1) = c * a + c /\ a * c \in Nat /\ c * a \in Nat
OBVIOUS

\* The sets that are counted are finite.
LEMMA Counted ==
  ASSUME NEW m \in Match
  PROVE  /\ Cardinality(Thread) \in Nat
         /\ IsFiniteSet(Indexed(m)) /\ Cardinality(Indexed(m)) \in Nat
         /\ IsFiniteSet(Remaining(m)) /\ Cardinality(Remaining(m)) \in Nat
         /\ IsFiniteSet(MayAct) /\ Cardinality(MayAct) \in Nat
         /\ Cardinality(MayAct) <= Cardinality(Thread)
<1>1. Cardinality(Thread) \in Nat
  BY ThreadAssumption, FS_CardinalityType
<1>2. IsFiniteSet(MayAct) /\ Cardinality(MayAct) <= Cardinality(Thread)
  BY ThreadAssumption, FS_Subset DEF MayAct
<1>3. IsFiniteSet(Indexed(m))
  <2>1. Filters[m[1]] \in Seq(Rule)
    BY FilterAssumption DEF Match
  <2>2. Len(Filters[m[1]]) \in Nat /\ DOMAIN Filters[m[1]] = 1 .. Len(Filters[m[1]])
    BY <2>1
  <2>3. IsFiniteSet(1 .. Len(Filters[m[1]]))
    BY <2>2, FS_Interval
  <2> QED
    BY <2>2, <2>3, FS_Subset DEF Indexed
<1>4. IsFiniteSet(Remaining(m))
  BY <1>3, FS_Subset DEF Remaining
<1> QED
  BY <1>1, <1>2, <1>3, <1>4, FS_CardinalityType

LEMMA TimesNat ==
  ASSUME TypeOK, NEW m \in Match
  PROVE  /\ InSliceTimes(m) \in Nat
         /\ IsFiniteSet({i \in 1 .. Len(matches) : matches[i] = m})
<1>1. Len(matches) \in Nat
  BY DEF TypeOK
<1>2. IsFiniteSet(1 .. Len(matches))
  BY <1>1, FS_Interval
<1>3. IsFiniteSet({i \in 1 .. Len(matches) : matches[i] = m})
  BY <1>2, FS_Subset
<1> QED
  BY <1>3, FS_CardinalityType DEF InSliceTimes

\* A step that costs a match no more than it frees keeps within the bound.
LEMMA WithinBudget ==
  ASSUME TypeOK, TypeOK', Budget, NEW m \in Match,
         Remaining(m)' \subseteq Remaining(m),
         attempts'[m] + InSliceTimes(m)' * Cardinality(MayAct')
           <= attempts[m] + InSliceTimes(m) * Cardinality(MayAct)
  PROVE  attempts'[m] + InSliceTimes(m)' * Cardinality(MayAct')
           + Cardinality(Thread) * Cardinality(Remaining(m)')
             <= Cardinality(Thread) * Cardinality(Indexed(m))
<1> DEFINE T == Cardinality(Thread)
           I == T * Cardinality(Indexed(m))
           r == Cardinality(Remaining(m))
           rr == Cardinality(Remaining(m)')
           x == attempts[m] + InSliceTimes(m) * Cardinality(MayAct)
           xx == attempts'[m] + InSliceTimes(m)' * Cardinality(MayAct')
<1>1. T \in Nat /\ r \in Nat /\ rr \in Nat /\ rr <= r
  <2>1. IsFiniteSet(Remaining(m)) /\ T \in Nat
    BY Counted
  <2>2. IsFiniteSet(Remaining(m)') /\ Cardinality(Remaining(m)') <= Cardinality(Remaining(m))
    BY <2>1, FS_Subset
  <2> QED
    BY <2>1, <2>2, FS_CardinalityType
<1>2. I \in Nat
  <2>1. Cardinality(Indexed(m)) \in Nat
    BY Counted
  <2> QED
    BY <1>1, <2>1, TimesNext
<1>3. x \in Nat
  <2>1. attempts[m] \in Nat /\ InSliceTimes(m) \in Nat /\ Cardinality(MayAct) \in Nat
    BY TimesNat, Counted DEF TypeOK
  <2>2. InSliceTimes(m) * Cardinality(MayAct) \in Nat
    BY <2>1, TimesNext
  <2> QED
    BY <2>1, <2>2
<1>4. xx \in Nat
  <2>1. attempts'[m] \in Nat
    BY DEF TypeOK
  <2>2. InSliceTimes(m)' \in Nat
    <3>1. Len(matches') \in Nat
      BY DEF TypeOK
    <3>2. IsFiniteSet(1 .. Len(matches'))
      BY <3>1, FS_Interval
    <3>3. IsFiniteSet({i \in 1 .. Len(matches') : matches'[i] = m})
      BY <3>2, FS_Subset
    <3> QED
      BY <3>3, FS_CardinalityType DEF InSliceTimes
  <2>3. Cardinality(MayAct') \in Nat
    <3>1. IsFiniteSet(MayAct')
      BY ThreadAssumption, FS_Subset DEF MayAct
    <3> QED
      BY <3>1, FS_CardinalityType
  <2>4. InSliceTimes(m)' * Cardinality(MayAct') \in Nat
    BY <2>2, <2>3, TimesNext
  <2> QED
    BY <2>1, <2>4
<1>5. T * rr <= T * r /\ T * rr \in Nat /\ T * r \in Nat
  BY <1>1, TimesMonotonic, TimesNext
<1>6. x + T * r <= I
  BY DEF Budget
<1> HIDE DEF T, I, r, rr, x, xx
<1>7. xx <= x
  BY DEF x, xx
<1>8. xx + T * rr <= I
  BY <1>2, <1>3, <1>4, <1>5, <1>6, <1>7
<1> QED
  BY <1>8 DEF T, I, rr, xx

\* Of the filters of an event, none comes back once it has been run.
LEMMA RemainingShrinks ==
  ASSUME TypeOK, OneTaker, [Next]_vars, NEW m \in Match
  PROVE  Remaining(m)' \subseteq Remaining(m)
<1>1. /\ idx \in [Thread -> Nat \ {0}] /\ cur \in [Thread -> Event \cup {None}]
      /\ pc \in [Thread -> {"idle", "run", "act", "clear"}] /\ m[1] \in Event
  BY DEF TypeOK, Match
<1>2. \A i \in Indexed(m) : i \in Nat \ {0}
  <2>1. Filters[m[1]] \in Seq(Rule)
    BY <1>1, FilterAssumption
  <2> QED
    BY <2>1 DEF Indexed
<1> SUFFICES ASSUME NEW i \in Indexed(m), Ahead(m[1], i)'
             PROVE  Ahead(m[1], i)
  BY DEF Remaining, Indexed
<1>3. m[1] \in toCome' => m[1] \in toCome
  BY DEF Next, ProcessEvent, RunMiss, AppendMatch, Return, ProcessActions,
         ProcessActionsFails, ClearMatches, Rest, vars
<1>4. CASE m[1] \in toCome'
  BY <1>3, <1>4 DEF Ahead
<1>5. ASSUME NEW u \in Thread, cur'[u] = m[1],
             \/ pc'[u] = "run" /\ i >= idx'[u]
             \/ pc'[u] \in {"act", "clear"} /\ i > idx'[u]
      PROVE  Ahead(m[1], i)
  <2>i. i \in Nat \ {0}
    BY <1>2
  <2>1. ASSUME NEW t \in Thread, NEW e \in Event, ProcessEvent(t, e)
        PROVE  Ahead(m[1], i)
    <3>1. CASE u = t
      <4>1. cur'[u] = e /\ e \in toCome
        BY <1>1, <2>1, <3>1 DEF ProcessEvent
      <4> QED
        BY <1>5, <4>1 DEF Ahead
    <3>2. CASE u # t
      <4>1. cur'[u] = cur[u] /\ pc'[u] = pc[u] /\ idx'[u] = idx[u]
        BY <1>1, <2>1, <3>2 DEF ProcessEvent, Goto
      <4> QED
        BY <1>5, <4>1 DEF Ahead
    <3> QED
      BY <3>1, <3>2
  <2>2. ASSUME cur'[u] = cur[u], pc'[u] = pc[u], idx'[u] = idx[u]
        PROVE  Ahead(m[1], i)
    BY <1>5, <2>2 DEF Ahead
  <2>3. ASSUME NEW t \in Thread, RunMiss(t) PROVE Ahead(m[1], i)
    <3>1. CASE u = t
      <4>1. cur'[u] = cur[u] /\ pc[u] = "run" /\ pc'[u] = "run" /\ idx'[u] = idx[u] + 1
        BY <1>1, <2>3, <3>1 DEF RunMiss
      <4>2. i >= idx[u]
        BY <1>1, <1>5, <2>i, <4>1
      <4> QED
        BY <1>5, <4>1, <4>2 DEF Ahead
    <3>2. CASE u # t
      BY <1>1, <2>2, <2>3, <3>2 DEF RunMiss
    <3> QED
      BY <3>1, <3>2
  <2>4. ASSUME NEW t \in Thread, AppendMatch(t) PROVE Ahead(m[1], i)
    <3>1. CASE u = t
      <4>1. cur'[u] = cur[u] /\ pc[u] = "run" /\ pc'[u] = "act" /\ idx'[u] = idx[u]
        BY <1>1, <2>4, <3>1 DEF AppendMatch, Goto
      <4>2. i >= idx[u]
        BY <1>1, <1>5, <2>i, <4>1
      <4> QED
        BY <1>5, <4>1, <4>2 DEF Ahead
    <3>2. CASE u # t
      BY <1>1, <2>2, <2>4, <3>2 DEF AppendMatch, Goto
    <3> QED
      BY <3>1, <3>2
  <2>5. ASSUME NEW t \in Thread, Return(t) PROVE Ahead(m[1], i)
    <3>1. CASE u = t
      BY <1>1, <1>5, <2>5, <3>1 DEF Return, Goto
    <3>2. CASE u # t
      BY <1>1, <2>2, <2>5, <3>2 DEF Return, Goto
    <3> QED
      BY <3>1, <3>2
  <2>6. ASSUME NEW t \in Thread, pc[t] = "act", Goto(t, "clear"), UNCHANGED <<cur, idx>>
        PROVE  Ahead(m[1], i)
    <3>1. CASE u = t
      <4>1. cur'[u] = cur[u] /\ pc[u] = "act" /\ pc'[u] = "clear" /\ idx'[u] = idx[u]
        BY <1>1, <2>6, <3>1 DEF Goto
      <4> QED
        BY <1>5, <4>1 DEF Ahead
    <3>2. CASE u # t
      BY <1>1, <2>2, <2>6, <3>2 DEF Goto
    <3> QED
      BY <3>1, <3>2
  <2>7. ASSUME NEW t \in Thread, ClearMatches(t) PROVE Ahead(m[1], i)
    <3>1. CASE u = t
      <4>1. cur'[u] = cur[u] /\ pc[u] = "clear" /\ pc'[u] \in {"run", "idle"}
            /\ idx'[u] = idx[u] + 1
        BY <1>1, <2>7, <3>1 DEF ClearMatches, Goto, ContinueAfter
      <4>2. i > idx[u]
        BY <1>1, <1>5, <2>i, <4>1
      <4> QED
        BY <1>5, <4>1, <4>2 DEF Ahead
    <3>2. CASE u # t
      BY <1>1, <2>2, <2>7, <3>2 DEF ClearMatches, Goto
    <3> QED
      BY <3>1, <3>2
  <2>8. CASE UNCHANGED vars
    BY <2>2, <2>8 DEF vars
  <2> QED
    BY <2>1, <2>3, <2>4, <2>5, <2>6, <2>7, <2>8
       DEF Next, ProcessActions, ProcessActionsFails, Rest
<1> QED
  BY <1>4, <1>5 DEF Ahead

\* An event is taken by one thread, and stays with it.
LEMMA OneTakerStep ==
  ASSUME TypeOK, OneTaker, [Next]_vars
  PROVE  OneTaker'
<1>1. cur \in [Thread -> Event \cup {None}]
  BY DEF TypeOK
<1>2. ASSUME NEW t \in Thread, NEW e \in Event, ProcessEvent(t, e) PROVE OneTaker'
  <2>1. /\ e \in toCome /\ toCome' = toCome \ {e} /\ cur'[t] = e
        /\ \A u \in Thread : u # t => cur'[u] = cur[u]
    BY <1>1, <1>2 DEF ProcessEvent
  <2>2. \A u \in Thread : cur[u] # e
    BY <2>1, NoneAssumption DEF OneTaker
  <2> QED
    BY <2>1, <2>2 DEF OneTaker
<1>3. CASE UNCHANGED <<toCome, cur>>
  BY <1>3 DEF OneTaker
<1> QED
  BY <1>2, <1>3 DEF Next, RunMiss, AppendMatch, Return, ProcessActions,
         ProcessActionsFails, ClearMatches, Rest, vars

\* appendMatch: one copy more in the slice, one filter less to come.
LEMMA BudgetAppend ==
  ASSUME TypeOK, TypeOK', OneTaker, Budget, [Next]_vars, NEW t \in Thread, AppendMatch(t)
  PROVE  Budget'
<1>t. /\ matches \in Seq(Match) /\ pc \in [Thread -> {"idle", "run", "act", "clear"}]
      /\ idx \in [Thread -> Nat \ {0}] /\ cur[t] \in Event
      /\ <<cur[t], Filter(t)>> \in Match /\ Len(matches) \in Nat
  BY FilterRule DEF TypeOK, AppendMatch
<1>1. PICK a : a = <<cur[t], Filter(t)>>
  OBVIOUS
<1>2. /\ matches' = Append(matches, a) /\ UNCHANGED <<toCome, cur, idx, attempts>>
      /\ pc[t] = "run" /\ pc'[t] = "act" /\ \A u \in Thread : u # t => pc'[u] = pc[u]
  BY <1>t, <1>1 DEF AppendMatch, Goto
<1>3. /\ Len(matches') = Len(matches) + 1
      /\ \A i \in 1 .. Len(matches) : matches'[i] = matches[i]
      /\ matches'[Len(matches) + 1] = a
  BY <1>t, <1>1, <1>2
<1>4. MayAct' = MayAct
  BY <1>2 DEF MayAct
<1> SUFFICES ASSUME NEW m \in Match
             PROVE  attempts'[m] + InSliceTimes(m)' * Cardinality(MayAct')
                      + Cardinality(Thread) * Cardinality(Remaining(m)')
                        <= Cardinality(Thread) * Cardinality(Indexed(m))
  BY DEF Budget, Indexed
<1>5. \A i : i \in 1 .. Len(matches') <=> i \in 1 .. Len(matches) \/ i = Len(matches) + 1
  BY <1>t, <1>3
<1>6. CASE m # a
  <2>1. {i \in 1 .. Len(matches') : matches'[i] = m} = {i \in 1 .. Len(matches) : matches[i] = m}
    BY <1>3, <1>5, <1>6
  <2>2. InSliceTimes(m)' = InSliceTimes(m)
    BY <2>1 DEF InSliceTimes
  <2>3. attempts'[m] + InSliceTimes(m)' * Cardinality(MayAct')
          <= attempts[m] + InSliceTimes(m) * Cardinality(MayAct)
    <3>1. attempts[m] \in Nat /\ InSliceTimes(m) \in Nat /\ Cardinality(MayAct) \in Nat
      BY TimesNat, Counted DEF TypeOK
    <3>2. InSliceTimes(m) * Cardinality(MayAct) \in Nat
      BY <3>1, TimesNext
    <3> QED
      BY <1>2, <1>4, <2>2, <3>1, <3>2
  <2> QED
    BY <2>3, RemainingShrinks, WithinBudget
<1>7. CASE m = a
  <2> DEFINE S == {i \in 1 .. Len(matches) : matches[i] = m}
             n == Len(matches) + 1
  <2>1. {i \in 1 .. Len(matches') : matches'[i] = m} = S \cup {n}
    BY <1>3, <1>5, <1>7
  <2>2. InSliceTimes(m)' = InSliceTimes(m) + 1
    <3>1. n \notin S
      BY <1>t
    <3>2. IsFiniteSet(S)
      BY TimesNat
    <3>3. Cardinality(S \cup {n}) = Cardinality(S) + 1
      BY <3>1, <3>2, FS_AddElement
    <3> QED
      BY <2>1, <3>3 DEF InSliceTimes
  <2>3. idx[t] \in Remaining(m)
    <3>1. m[1] = cur[t] /\ m[2] = Filters[cur[t]][idx[t]]
      BY <1>1, <1>7 DEF Filter
    <3>2. idx[t] \in DOMAIN Filters[cur[t]]
      <4>1. Filters[cur[t]] \in Seq(Rule) /\ idx[t] \in Nat \ {0}
        BY <1>t, FilterAssumption
      <4> QED
        BY <4>1 DEF AppendMatch, HasFilter
    <3>3. idx[t] >= idx[t]
      BY <1>t
    <3> QED
      BY <1>2, <3>1, <3>2, <3>3 DEF Remaining, Indexed, Ahead
  <2>4. idx[t] \notin Remaining(m)'
    <3>1. m[1] = cur[t] /\ cur[t] # None
      BY <1>1, <1>7, <1>t, NoneAssumption
    <3>2. m[1] \notin toCome' /\ \A u \in Thread : cur'[u] = m[1] => u = t
      BY <1>2, <3>1 DEF OneTaker
    <3>3. ~(idx[t] > idx'[t])
      BY <1>t, <1>2
    <3> QED
      BY <1>2, <3>2, <3>3 DEF Remaining, Ahead
  <2>5. /\ Cardinality(Remaining(m)') \in Nat
        /\ Cardinality(Remaining(m)') + 1 <= Cardinality(Remaining(m))
    <3>1. IsFiniteSet(Remaining(m)) /\ Cardinality(Remaining(m)) \in Nat
      BY Counted
    <3>2. Remaining(m)' \subseteq Remaining(m)
      BY RemainingShrinks
    <3>3. Remaining(m)' \subseteq Remaining(m) \ {idx[t]}
      BY <2>4, <3>2
    <3>4. /\ IsFiniteSet(Remaining(m) \ {idx[t]})
          /\ Cardinality(Remaining(m) \ {idx[t]}) = Cardinality(Remaining(m)) - 1
      BY <2>3, <3>1, FS_RemoveElement
    <3>5. /\ IsFiniteSet(Remaining(m)')
          /\ Cardinality(Remaining(m)') <= Cardinality(Remaining(m) \ {idx[t]})
      BY <3>3, <3>4, FS_Subset
    <3>6. Cardinality(Remaining(m)') \in Nat
      BY <3>5, FS_CardinalityType
    <3> QED
      BY <3>1, <3>4, <3>5, <3>6
  <2> DEFINE T == Cardinality(Thread)
             k == Cardinality(MayAct)
             I == T * Cardinality(Indexed(m))
             r == Cardinality(Remaining(m))
             rr == Cardinality(Remaining(m)')
             o == InSliceTimes(m)
  <2>6. /\ T \in Nat /\ k \in Nat /\ k <= T /\ r \in Nat /\ o \in Nat
        /\ attempts[m] \in Nat /\ Cardinality(Indexed(m)) \in Nat
    BY Counted, TimesNat DEF TypeOK
  <2>7. I \in Nat
    BY <2>6, TimesNext
  <2>8. attempts[m] + o * k + T * r <= I
    BY DEF Budget
  <2>9. /\ (o + 1) * k = o * k + k /\ o * k \in Nat
        /\ T * (rr + 1) = T * rr + T /\ T * rr \in Nat /\ T * r \in Nat
    BY <2>5, <2>6, TimesNext
  <2>10. T * (rr + 1) <= T * r
    BY <2>5, <2>6, TimesMonotonic
  <2> HIDE DEF T, k, I, r, rr, o
  <2>11. attempts[m] + (o * k + k) + T * rr <= I
    <3>1. PICK x \in Nat : x = o * k
      BY <2>9
    <3>2. PICK y \in Nat : y = T * rr
      BY <2>9
    <3>3. PICK z \in Nat : z = T * r
      BY <2>9
    <3>4. y + T <= z /\ attempts[m] + x + z <= I
      BY <2>8, <2>9, <2>10, <3>1, <3>2, <3>3
    <3>5. attempts[m] + (x + k) + y <= I
      BY <2>6, <2>7, <3>4
    <3> QED
      BY <3>1, <3>2, <3>5
  <2> QED
    BY <1>2, <1>4, <2>2, <2>9, <2>11 DEF T, k, I, rr, o
<1> QED
  BY <1>6, <1>7

\* processActions: a thread that acts once on each copy of a match cannot act
\* again before it clears the slice.
LEMMA BudgetAct ==
  ASSUME TypeOK, TypeOK', OneTaker, Budget, [Next]_vars,
         NEW t \in Thread, NEW n \in Nat, NEW k \in Nat, n <= Len(matches),
         pc[t] = "act", Goto(t, "clear"), UNCHANGED matches, Executed(n, k)
  PROVE  Budget'
<1>t. /\ matches \in Seq(Match) /\ pc \in [Thread -> {"idle", "run", "act", "clear"}]
      /\ Len(matches) \in Nat
  BY DEF TypeOK
<1>1. MayAct' = MayAct \ {t} /\ t \in MayAct
  BY <1>t DEF MayAct, Goto
<1> SUFFICES ASSUME NEW m \in Match
             PROVE  attempts'[m] + InSliceTimes(m)' * Cardinality(MayAct')
                      + Cardinality(Thread) * Cardinality(Remaining(m)')
                        <= Cardinality(Thread) * Cardinality(Indexed(m))
  BY DEF Budget, Indexed
<1>2. InSliceTimes(m)' = InSliceTimes(m)
  BY DEF InSliceTimes
<1>3. Cardinality(MayAct) \in Nat \ {0} /\ Cardinality(MayAct') = Cardinality(MayAct) - 1
  <2>1. IsFiniteSet(MayAct) /\ Cardinality(MayAct) \in Nat
    BY Counted
  <2>2. Cardinality(MayAct \ {t}) = Cardinality(MayAct) - 1
    BY <1>1, <2>1, FS_RemoveElement
  <2>3. Cardinality(MayAct) # 0
    BY <1>1, <2>1, FS_EmptySet
  <2> QED
    BY <1>1, <2>1, <2>2, <2>3
<1>4. attempts'[m] = attempts[m] + Occurs(m, n)
  BY DEF Executed, Occurs
<1>5. Occurs(m, n) \in Nat /\ Occurs(m, n) <= InSliceTimes(m)
  <2>1. {i \in 1 .. n : matches[i] = m} \subseteq {i \in 1 .. Len(matches) : matches[i] = m}
    BY <1>t
  <2>2. IsFiniteSet({i \in 1 .. Len(matches) : matches[i] = m})
    BY TimesNat
  <2> QED
    BY <2>1, <2>2, FS_Subset, OccursNat DEF Occurs, InSliceTimes
<1>6. InSliceTimes(m) \in Nat /\ attempts[m] \in Nat
  BY TimesNat DEF TypeOK
<1>7. attempts'[m] + InSliceTimes(m)' * Cardinality(MayAct')
        <= attempts[m] + InSliceTimes(m) * Cardinality(MayAct)
  <2>1. PICK c \in Nat : Cardinality(MayAct) = c + 1 /\ Cardinality(MayAct') = c
    <3>1. Cardinality(MayAct) - 1 \in Nat /\ Cardinality(MayAct) = (Cardinality(MayAct) - 1) + 1
      BY <1>3
    <3> QED
      BY <1>3, <3>1
  <2>2. PICK x \in Nat : x = InSliceTimes(m) * c
    BY <1>6, TimesNext
  <2>3. InSliceTimes(m) * (c + 1) = x + InSliceTimes(m)
    BY <1>6, <2>2, TimesNext
  <2>4. attempts[m] + Occurs(m, n) + x <= attempts[m] + (x + InSliceTimes(m))
    BY <1>5, <1>6
  <2> QED
    BY <1>2, <1>4, <2>1, <2>2, <2>3, <2>4
<1> QED
  BY <1>7, RemainingShrinks, WithinBudget

LEMMA BudgetStep ==
  ASSUME TypeOK, TypeOK', OneTaker, Budget, [Next]_vars
  PROVE  Budget'
<1>t. /\ pc \in [Thread -> {"idle", "run", "act", "clear"}] /\ Len(matches) \in Nat
  BY DEF TypeOK
<1>1. ASSUME UNCHANGED <<matches, attempts>>, MayAct' = MayAct PROVE Budget'
  <2> SUFFICES ASSUME NEW m \in Match
               PROVE  attempts'[m] + InSliceTimes(m)' * Cardinality(MayAct')
                        + Cardinality(Thread) * Cardinality(Remaining(m)')
                          <= Cardinality(Thread) * Cardinality(Indexed(m))
    BY DEF Budget, Indexed
  <2>1. InSliceTimes(m)' = InSliceTimes(m)
    BY <1>1 DEF InSliceTimes
  <2>2. attempts[m] \in Nat /\ InSliceTimes(m) * Cardinality(MayAct) \in Nat
    BY TimesNat, Counted, TimesNext DEF TypeOK
  <2>3. attempts'[m] + InSliceTimes(m)' * Cardinality(MayAct')
          <= attempts[m] + InSliceTimes(m) * Cardinality(MayAct)
    BY <1>1, <2>1, <2>2
  <2> QED
    BY <2>3, RemainingShrinks, WithinBudget
<1>2. ASSUME NEW t \in Thread,
             (\E e \in Event : ProcessEvent(t, e)) \/ RunMiss(t) \/ Return(t)
      PROVE  Budget'
  <2>1. UNCHANGED <<matches, attempts>>
    BY <1>2 DEF ProcessEvent, RunMiss, Return
  <2>2. \A u \in Thread : pc'[u] = "clear" <=> pc[u] = "clear"
    BY <1>t, <1>2 DEF ProcessEvent, RunMiss, Return, Goto
  <2> QED
    BY <1>1, <2>1, <2>2 DEF MayAct
<1>3. ASSUME NEW t \in Thread, ProcessActions(t) PROVE Budget'
  BY <1>t, <1>3, BudgetAct DEF ProcessActions
<1>4. ASSUME NEW t \in Thread, ProcessActionsFails(t) PROVE Budget'
  <2>1. PICK n \in 1 .. Len(matches) : \E k \in {n - 1, n} : Executed(n, k)
    BY <1>4 DEF ProcessActionsFails
  <2>2. n \in Nat /\ n - 1 \in Nat /\ n <= Len(matches)
    BY <1>t
  <2>3. pc[t] = "act" /\ Goto(t, "clear") /\ UNCHANGED matches
    BY <1>4 DEF ProcessActionsFails
  <2> QED
    BY <2>1, <2>2, <2>3, BudgetAct
<1>5. ASSUME NEW t \in Thread, ClearMatches(t) PROVE Budget'
  <2> SUFFICES ASSUME NEW m \in Match
               PROVE  attempts'[m] + InSliceTimes(m)' * Cardinality(MayAct')
                        + Cardinality(Thread) * Cardinality(Remaining(m)')
                          <= Cardinality(Thread) * Cardinality(Indexed(m))
    BY DEF Budget, Indexed
  <2>1. Len(matches') = 0 /\ attempts' = attempts
    BY <1>5 DEF ClearMatches, ClearedMatches
  <2>2. InSliceTimes(m)' = 0
    <3>1. 1 .. Len(matches') = {}
      BY <2>1
    <3>2. {i \in 1 .. Len(matches') : matches'[i] = m} = {}
      BY <3>1
    <3> QED
      BY <3>2, FS_EmptySet DEF InSliceTimes
  <2>3. Cardinality(MayAct') \in Nat
    <3>1. IsFiniteSet(MayAct')
      BY ThreadAssumption, FS_Subset DEF MayAct
    <3> QED
      BY <3>1, FS_CardinalityType
  <2>4. attempts[m] \in Nat /\ InSliceTimes(m) * Cardinality(MayAct) \in Nat
    BY TimesNat, Counted, TimesNext DEF TypeOK
  <2>5. InSliceTimes(m)' * Cardinality(MayAct') = 0
    BY <2>2, <2>3
  <2>6. attempts'[m] + InSliceTimes(m)' * Cardinality(MayAct')
          <= attempts[m] + InSliceTimes(m) * Cardinality(MayAct)
    BY <2>1, <2>4, <2>5
  <2> QED
    BY <2>6, RemainingShrinks, WithinBudget
<1>6. CASE UNCHANGED vars
  <2>1. UNCHANGED <<matches, attempts, pc>>
    BY <1>6 DEF vars
  <2> QED
    BY <1>1, <2>1 DEF MayAct
<1> QED
  BY <1>2, <1>3, <1>4, <1>5, <1>6, BudgetAppend DEF Next, Rest

\* The actions of a match are executed after its alert was sent.
LEMMA FewerStep ==
  ASSUME TypeOK, Fewer, [Next]_vars
  PROVE  Fewer'
<1>1. ASSUME NEW n \in Nat, NEW k \in Nat, k <= n, Executed(n, k) PROVE Fewer'
  <2> SUFFICES ASSUME NEW m \in Match PROVE actions'[m] <= attempts'[m]
    BY DEF Fewer
  <2>1. /\ attempts'[m] = attempts[m] + Occurs(m, n)
        /\ actions'[m] = actions[m] + OccursActing(m, k)
    BY <1>1 DEF Executed, Occurs, OccursActing
  <2>2. /\ attempts[m] \in Nat /\ actions[m] \in Nat /\ actions[m] <= attempts[m]
        /\ Occurs(m, n) \in Nat /\ OccursActing(m, k) \in Nat
    BY OccursNat DEF TypeOK, Fewer
  <2>3. OccursActing(m, k) <= Occurs(m, n)
    <3>1. IsFiniteSet(1 .. n)
      BY FS_Interval
    <3>2. IsFiniteSet({i \in 1 .. n : matches[i] = m})
      BY <3>1, FS_Subset
    <3>3. {i \in 1 .. k : matches[i] = m /\ m[2] \in WithAction}
            \subseteq {i \in 1 .. n : matches[i] = m}
      BY <1>1
    <3> QED
      BY <3>2, <3>3, FS_Subset DEF Occurs, OccursActing
  <2> QED
    BY <2>1, <2>2, <2>3
<1>2. Len(matches) \in Nat
  BY DEF TypeOK
<1>3. ASSUME NEW t \in Thread, ProcessActions(t) PROVE Fewer'
  BY <1>1, <1>2, <1>3 DEF ProcessActions
<1>4. ASSUME NEW t \in Thread, ProcessActionsFails(t) PROVE Fewer'
  <2>1. PICK n \in 1 .. Len(matches) : \E k \in {n - 1, n} : Executed(n, k)
    BY <1>4 DEF ProcessActionsFails
  <2>2. n \in Nat /\ n - 1 \in Nat /\ n - 1 <= n /\ n <= n
    BY <1>2
  <2> QED
    BY <1>1, <2>1, <2>2
<1>5. CASE UNCHANGED <<attempts, actions>>
  BY <1>5 DEF Fewer
<1> QED
  BY <1>3, <1>4, <1>5 DEF Next, ProcessEvent, RunMiss, AppendMatch, Return, ClearMatches,
                         Rest, vars

\* However many goroutines append, act and clear at the same time and whichever
\* alerts and actions fail, a match is alerted at most once by each goroutine
\* for every time its rule is indexed, and acted on no more often.
THEOREM ActionsBounded == Spec => []ActedBound
<1>1. Init => BudgetInv
  <2> SUFFICES ASSUME Init PROVE BudgetInv
    OBVIOUS
  <2>1. Inv
    BY InitInv
  <2>2. OneTaker /\ Fewer
    BY DEF Init, OneTaker, Fewer
  <2>3. Budget
    <3> SUFFICES ASSUME NEW m \in Match
                 PROVE  attempts[m] + InSliceTimes(m) * Cardinality(MayAct)
                          + Cardinality(Thread) * Cardinality(Remaining(m))
                            <= Cardinality(Thread) * Cardinality(Indexed(m))
      BY DEF Budget
    <3>1. attempts[m] = 0 /\ Len(matches) = 0 /\ m[1] \in toCome
      BY DEF Init, Match
    <3>2. InSliceTimes(m) = 0
      <4>1. {i \in 1 .. Len(matches) : matches[i] = m} = {}
        BY <3>1
      <4> QED
        BY <4>1, FS_EmptySet DEF InSliceTimes
    <3>3. Remaining(m) = Indexed(m)
      BY <3>1 DEF Remaining, Ahead
    <3>4. /\ Cardinality(MayAct) \in Nat
          /\ Cardinality(Thread) * Cardinality(Indexed(m)) \in Nat
      BY Counted, TimesNext
    <3>5. InSliceTimes(m) * Cardinality(MayAct) = 0
      BY <3>2, <3>4
    <3> QED
      BY <3>1, <3>3, <3>4, <3>5
  <2> QED
    BY <2>1, <2>2, <2>3 DEF BudgetInv
<1>2. BudgetInv /\ [Next]_vars => BudgetInv'
  <2> SUFFICES ASSUME BudgetInv, [Next]_vars PROVE BudgetInv'
    OBVIOUS
  <2>1. Inv'
    BY InvStep DEF BudgetInv
  <2>2. TypeOK /\ TypeOK'
    BY <2>1 DEF BudgetInv, Inv
  <2> QED
    BY <2>1, <2>2, OneTakerStep, BudgetStep, FewerStep DEF BudgetInv
<1>3. BudgetInv => ActedBound
  <2> SUFFICES ASSUME BudgetInv, NEW m \in Match
               PROVE  /\ attempts[m] <= Cardinality(Thread) * Cardinality(Indexed(m))
                      /\ actions[m] <= attempts[m]
    BY DEF ActedBound, Indexed
  <2>1. TypeOK /\ Budget /\ Fewer
    BY DEF BudgetInv, Inv
  <2>2. /\ attempts[m] \in Nat /\ InSliceTimes(m) * Cardinality(MayAct) \in Nat
        /\ Cardinality(Thread) * Cardinality(Remaining(m)) \in Nat
        /\ Cardinality(Thread) * Cardinality(Indexed(m)) \in Nat
    BY <2>1, TimesNat, Counted, TimesNext DEF TypeOK
  <2>3. attempts[m] + InSliceTimes(m) * Cardinality(MayAct)
          + Cardinality(Thread) * Cardinality(Remaining(m))
            <= Cardinality(Thread) * Cardinality(Indexed(m))
    BY <2>1 DEF Budget
  <2>4. attempts[m] <= Cardinality(Thread) * Cardinality(Indexed(m))
    <3>1. PICK x \in Nat : x = InSliceTimes(m) * Cardinality(MayAct)
      BY <2>2
    <3>2. PICK y \in Nat : y = Cardinality(Thread) * Cardinality(Remaining(m))
      BY <2>2
    <3>3. PICK z \in Nat : z = Cardinality(Thread) * Cardinality(Indexed(m))
      BY <2>2
    <3>4. attempts[m] + x + y <= z
      BY <2>3, <3>1, <3>2, <3>3
    <3>5. attempts[m] <= z
      BY <2>2, <3>4
    <3> QED
      BY <3>3, <3>5
  <2> QED
    BY <2>1, <2>4 DEF Fewer
<1> QED
  BY <1>1, <1>2, <1>3, PTL DEF Spec
-----------------------------------------------------------------------------
(* The wildcards *)

WcTypeOK ==
    /\ pattern \in Seq(WcChar \cup {"*", "?"})
    /\ text \in Seq(WcChar \cup {Cont}) /\ Utf8(text)
    /\ patAt \in 1 .. Len(pattern) + 1
    /\ textAt \in 1 .. Len(text) + 1
    /\ wildcardIdx \in 0 .. patAt - 1
    /\ matchIdx \in 1 .. textAt
    /\ wildcardIdx = 0 => matchIdx = 1
    /\ wildcardIdx # 0 => pattern[wildcardIdx] = "*"

\* Facts about a text: the character at a start is whole and ends at a start,
\* and no character starts inside another.
LEMMA TextFacts ==
    ASSUME NEW t \in Seq(WcChar \cup {Cont}), Utf8(t)
    PROVE  /\ Len(t) \in Nat /\ DOMAIN t = 1 .. Len(t)
           /\ Starts(t) \subseteq 1 .. Len(t) + 1 /\ 1 \in Starts(t)
           /\ \A i \in 1 .. Len(t) : RuneSize(t, i) \in Nat \ {0}
           /\ \A i \in 1 .. Len(t) : t[i] = Cont => RuneSize(t, i) = 1
           /\ \A i \in Starts(t) : i <= Len(t) => /\ t[i] # Cont /\ t[i] \in WcChar
                                                  /\ RuneSize(t, i) = WcWidth[t[i]]
                                                  /\ i + RuneSize(t, i) \in Starts(t)
           /\ \A i, j \in Starts(t) : i < j => i + RuneSize(t, i) <= j
<1>0. Len(t) \in Nat /\ DOMAIN t = 1 .. Len(t)
  OBVIOUS
<1>1. \A i \in 1 .. Len(t) : t[i] \in WcChar \cup {Cont}
  BY <1>0
<1>2. \A i \in 1 .. Len(t) : RuneSize(t, i) \in Nat \ {0} /\ (t[i] = Cont => RuneSize(t, i) = 1)
  BY <1>1, WcAssumption DEF RuneSize
<1>3. Starts(t) \subseteq 1 .. Len(t) + 1
  BY <1>0 DEF Starts
<1>4. \A i \in Starts(t) : i <= Len(t) =>
         i \in 1 .. Len(t) /\ t[i] # Cont /\ t[i] \in WcChar /\ RuneSize(t, i) = WcWidth[t[i]]
  BY <1>0, <1>1 DEF Starts, RuneSize
<1>5. 1 \in Starts(t)
  <2>1. CASE Len(t) = 0
    BY <2>1 DEF Starts
  <2>2. CASE Len(t) # 0
    <3>1. 1 \in DOMAIN t /\ 1 .. 1 - 1 = {}
      BY <1>0, <2>2
    <3>2. t[1] # Cont
      BY <3>1 DEF Utf8
    <3> QED BY <3>1, <3>2 DEF Starts
  <2> QED BY <2>1, <2>2
<1>6. ASSUME NEW i \in 1 .. Len(t), NEW k \in 1 .. Len(t), t[i] # Cont, i < k, k < i + WcWidth[t[i]]
      PROVE  t[k] = Cont
  <2>1. i \in 1 .. k - 1 /\ k \in DOMAIN t
    BY <1>0, <1>6
  <2> QED BY <1>6, <2>1 DEF Utf8
<1>7. ASSUME NEW i \in Starts(t), NEW j \in Starts(t), i < j
      PROVE  i + RuneSize(t, i) <= j
  <2>1. i \in 1 .. Len(t) /\ t[i] # Cont /\ RuneSize(t, i) = WcWidth[t[i]] /\ j \in 1 .. Len(t) + 1
    BY <1>0, <1>3, <1>4, <1>7
  <2>2. WcWidth[t[i]] \in Nat
    BY <1>4, <1>7, <2>1, WcAssumption
  <2>3. CASE j = Len(t) + 1
    <3>1. i \in DOMAIN t
      BY <1>0, <2>1
    <3>2. i + WcWidth[t[i]] <= Len(t) + 1
      BY <2>1, <3>1 DEF Utf8
    <3> QED BY <2>1, <2>3, <3>2
  <2>4. CASE j # Len(t) + 1
    <3>1. j \in 1 .. Len(t) /\ t[j] # Cont
      BY <1>0, <1>4, <2>1, <2>4
    <3>2. ~(j < i + WcWidth[t[i]])
      BY <1>6, <1>7, <2>1, <3>1
    <3> QED BY <2>1, <2>2, <3>1, <3>2
  <2> QED BY <2>3, <2>4
<1>8. ASSUME NEW i \in Starts(t), i <= Len(t)
      PROVE  i + RuneSize(t, i) \in Starts(t)
  <2> DEFINE k == i + RuneSize(t, i)
  <2>1. i \in 1 .. Len(t) /\ t[i] # Cont /\ RuneSize(t, i) = WcWidth[t[i]] /\ i \in DOMAIN t
    BY <1>0, <1>4, <1>8
  <2>2. k \in Nat /\ k > i
    BY <1>2, <2>1
  <2>6. k = i + WcWidth[t[i]] /\ WcWidth[t[i]] \in Nat
    BY <1>2, <2>1
  <2>3. k <= Len(t) + 1
    BY <2>1 DEF Utf8
  <2>4. CASE k = Len(t) + 1
    BY <2>4 DEF Starts
  <2>5. CASE k # Len(t) + 1
    <3>1. k \in 1 .. Len(t) /\ k \in DOMAIN t
      BY <1>0, <2>1, <2>2, <2>3, <2>5
    <3>2. ASSUME NEW b \in 1 .. k - 1, t[b] # Cont, k < b + WcWidth[t[b]]
          PROVE  FALSE
      <4>1. b \in 1 .. Len(t) /\ b \in DOMAIN t
        BY <1>0, <3>1
      <4>2. b # i
        BY <2>2, <2>6, <3>1, <3>2
      <4>3. ~(i < b)
        <5> SUFFICES ASSUME i < b PROVE FALSE
          OBVIOUS
        <5>1. b < i + WcWidth[t[i]]
          BY <2>2, <2>6, <3>1, <4>1
        <5> QED BY <1>6, <2>1, <3>2, <4>1, <5>1
      <4>4. b < i
        BY <2>1, <4>1, <4>2, <4>3
      <4>5. WcWidth[t[b]] \in Nat
        BY <1>1, <3>2, <4>1, WcAssumption
      <4>6. i < b + WcWidth[t[b]]
        BY <2>1, <2>2, <3>1, <3>2, <4>1, <4>5
      <4>7. t[i] = Cont
        BY <1>6, <2>1, <3>2, <4>1, <4>4, <4>6
      <4> QED BY <2>1, <4>7
    <3>3. t[k] # Cont
      <4> HIDE DEF k
      <4> QED BY <3>1, <3>2 DEF Utf8
    <3> QED BY <3>1, <3>3 DEF Starts
  <2> QED BY <2>4, <2>5
<1> QED
  BY <1>0, <1>2, <1>3, <1>4, <1>5, <1>7, <1>8

\* The loop looks at the first byte of a character or at a continuation byte.
LEMMA TextAdvance ==
    ASSUME WcTypeOK, textAt <= Len(text)
    PROVE  /\ textAt \in 1 .. Len(text) /\ RuneSize(text, textAt) \in Nat \ {0}
           /\ textAt + RuneSize(text, textAt) \in 1 .. Len(text) + 1
           /\ textAt \in Starts(text) \/ (text[textAt] = Cont /\ RuneSize(text, textAt) = 1)
<1>1. text \in Seq(WcChar \cup {Cont}) /\ Utf8(text) /\ textAt \in 1 .. Len(text)
  BY DEF WcTypeOK
<1>2. RuneSize(text, textAt) \in Nat \ {0}
  BY <1>1, TextFacts
<1>3. CASE text[textAt] = Cont
  <2>1. RuneSize(text, textAt) = 1
    BY <1>1, <1>3, TextFacts
  <2> QED BY <1>1, <1>3, <2>1
<1>4. CASE text[textAt] # Cont
  <2>1. textAt \in Starts(text)
    BY <1>1, <1>4 DEF Starts
  <2>2. textAt + RuneSize(text, textAt) \in Starts(text)
    BY <1>1, <2>1, TextFacts
  <2>3. textAt + RuneSize(text, textAt) \in 1 .. Len(text) + 1
    BY <1>1, <2>2, TextFacts
  <2> QED BY <1>1, <1>2, <2>1, <2>3
<1> QED BY <1>3, <1>4

\* Every step of the loop of Match keeps the positions in the pattern and the text.
LEMMA WcTypeStep ==
    ASSUME WcTypeOK, [WcNext]_wcVars
    PROVE  WcTypeOK'
<1>0. /\ pattern \in Seq(WcChar \cup {"*", "?"}) /\ Len(pattern) \in Nat /\ Len(text) \in Nat
      /\ text \in Seq(WcChar \cup {Cont}) /\ Utf8(text)
      /\ patAt \in 1 .. Len(pattern) + 1 /\ textAt \in 1 .. Len(text) + 1
      /\ wildcardIdx \in 0 .. patAt - 1 /\ matchIdx \in 1 .. textAt
      /\ wildcardIdx = 0 => matchIdx = 1
      /\ wildcardIdx # 0 => pattern[wildcardIdx] = "*"
  BY DEF WcTypeOK
<1>1. CASE MatchAny \/ MatchLiteral
  <2>1. /\ patAt <= Len(pattern) /\ textAt <= Len(text)
        /\ patAt' = patAt + 1 /\ textAt' = textAt + RuneSize(text, textAt)
        /\ UNCHANGED <<pattern, text, wildcardIdx, matchIdx>>
    BY <1>1 DEF MatchAny, MatchLiteral, AtPattern, Searching
  <2>2. textAt' \in 1 .. Len(text) + 1 /\ textAt' > textAt
    BY <1>0, <2>1, TextAdvance
  <2>3. patAt' \in 1 .. Len(pattern) + 1 /\ wildcardIdx \in 0 .. patAt' - 1 /\ matchIdx \in 1 .. textAt'
    BY <1>0, <2>1, <2>2
  <2> QED BY <1>0, <2>1, <2>2, <2>3 DEF WcTypeOK, Utf8
<1>2. CASE MatchStar
  <2>1. /\ patAt <= Len(pattern) /\ pattern[patAt] = "*" /\ textAt <= Len(text)
        /\ patAt' = patAt + 1 /\ wildcardIdx' = patAt /\ matchIdx' = textAt
        /\ UNCHANGED <<pattern, text, textAt>>
    BY <1>2 DEF MatchStar, AtPattern, Searching
  <2>2. /\ patAt' \in 1 .. Len(pattern) + 1 /\ wildcardIdx' \in 0 .. patAt' - 1
        /\ matchIdx' \in 1 .. textAt' /\ wildcardIdx' # 0
    BY <1>0, <2>1
  <2> QED BY <1>0, <2>1, <2>2 DEF WcTypeOK, Utf8
<1>3. CASE Backtrack
  <2>1. /\ wildcardIdx # 0 /\ textAt <= Len(text)
        /\ patAt' = wildcardIdx + 1 /\ matchIdx' = matchIdx + 1 /\ textAt' = matchIdx + 1
        /\ UNCHANGED <<pattern, text, wildcardIdx>>
    BY <1>3 DEF Backtrack, Mismatch, Searching
  <2>2. /\ patAt' \in 1 .. Len(pattern) + 1 /\ wildcardIdx \in 0 .. patAt' - 1
        /\ matchIdx' \in 1 .. textAt' /\ textAt' \in 1 .. Len(text) + 1
    BY <1>0, <2>1
  <2> QED BY <1>0, <2>1, <2>2 DEF WcTypeOK, Utf8
<1>4. CASE SkipStar
  <2>1. /\ patAt <= Len(pattern) /\ patAt' = patAt + 1
        /\ UNCHANGED <<pattern, text, textAt, wildcardIdx, matchIdx>>
    BY <1>4 DEF SkipStar, AtPattern
  <2>2. patAt' \in 1 .. Len(pattern) + 1 /\ wildcardIdx \in 0 .. patAt' - 1
    BY <1>0, <2>1
  <2> QED BY <1>0, <2>1, <2>2 DEF WcTypeOK, Utf8
<1>5. CASE GiveUp \/ Conclude \/ UNCHANGED wcVars
  <2>1. UNCHANGED <<pattern, text, patAt, textAt, wildcardIdx, matchIdx>>
    BY <1>5 DEF GiveUp, Conclude, wcVars
  <2> QED BY <1>0, <2>1 DEF WcTypeOK, Utf8
<1> QED
  BY <1>1, <1>2, <1>3, <1>4, <1>5 DEF WcNext

(***************************************************************************)
(* What has been matched.  The pattern before patAt stands for the text    *)
(* before the character that textAt is in.  It is inside one only after    *)
(* the loop went back; if that character has two bytes, the second stands  *)
(* for the whole of it: both are one character to a question mark, and end *)
(* at the same place.                                                      *)
(***************************************************************************)
\* The characters of the pattern before i match the text before b, a start.
Prefix(i, b) ==
    \E f \in [1 .. i -> Starts(text)] :
        /\ f[1] = 1 /\ f[i] = b
        /\ \A j \in 1 .. i - 1 : Stands(pattern, text, f, j)

Within(b, s) ==
    b = s \/ /\ wildcardIdx # 0 /\ s <= Len(text) /\ text[s] = Cont
             /\ b < s /\ s < b + WcWidth[text[b]]

WcSound ==
    /\ \E b \in Starts(text) : Prefix(patAt, b) /\ Within(b, textAt)
    /\ wildcardIdx # 0 => \E b \in Starts(text) : b <= matchIdx /\ Prefix(wildcardIdx + 1, b)

\* One more character of the pattern.
LEMMA PrefixNext ==
    ASSUME WcTypeOK, NEW i \in 1 .. Len(pattern), NEW b \in Starts(text), NEW c \in Starts(text),
           Prefix(i, b),
           \/ pattern[i] = "*" /\ b <= c
           \/ /\ pattern[i] # "*" /\ b <= Len(text) /\ c = b + RuneSize(text, b)
              /\ pattern[i] \in {"?", text[b]}
    PROVE  Prefix(i + 1, c)
<1>1. PICK f \in [1 .. i -> Starts(text)] :
          /\ f[1] = 1 /\ f[i] = b
          /\ \A j \in 1 .. i - 1 : Stands(pattern, text, f, j)
  BY DEF Prefix
<1> DEFINE g == [j \in 1 .. i + 1 |-> IF j = i + 1 THEN c ELSE f[j]]
<1>0. i \in Nat /\ i >= 1
  BY DEF WcTypeOK
<1>2. g \in [1 .. i + 1 -> Starts(text)] /\ g[i + 1] = c /\ \A j \in 1 .. i : g[j] = f[j]
  BY <1>0
<1> HIDE DEF g
<1>3. g[1] = 1
  BY <1>0, <1>1, <1>2
<1>4. ASSUME NEW j \in 1 .. i PROVE Stands(pattern, text, g, j)
  <2>1. CASE j = i
    BY <1>0, <1>1, <1>2, <2>1 DEF Stands
  <2>2. CASE j # i
    <3>1. j \in 1 .. i - 1 /\ g[j] = f[j] /\ g[j + 1] = f[j + 1]
      BY <1>0, <1>2, <2>2
    <3> QED BY <1>1, <3>1 DEF Stands
  <2> QED BY <2>1, <2>2
<1>5. (i + 1) - 1 = i
  BY <1>0
<1> QED
  BY <1>2, <1>3, <1>4, <1>5 DEF Prefix

\* A star may stand for more.
LEMMA PrefixMore ==
    ASSUME WcTypeOK, NEW i \in 1 .. Len(pattern), NEW b \in Starts(text), NEW c \in Starts(text),
           Prefix(i + 1, b), pattern[i] = "*", b <= c
    PROVE  Prefix(i + 1, c)
<1>1. PICK f \in [1 .. i + 1 -> Starts(text)] :
          /\ f[1] = 1 /\ f[i + 1] = b
          /\ \A j \in 1 .. (i + 1) - 1 : Stands(pattern, text, f, j)
  BY DEF Prefix
<1>0. i \in Nat /\ i >= 1 /\ (i + 1) - 1 = i
  BY DEF WcTypeOK
<1>2. f[i] <= b /\ f[i] \in Starts(text)
  BY <1>0, <1>1 DEF Stands
<1>3. f[i] <= c
  <2>1. Starts(text) \subseteq Nat
    BY DEF WcTypeOK, Starts
  <2> QED BY <1>2, <2>1
<1>4. Prefix(i, f[i])
  <2>1. [j \in 1 .. i |-> f[j]] \in [1 .. i -> Starts(text)]
    BY <1>0
  <2>2. \A j \in 1 .. i - 1 : Stands(pattern, text, [k \in 1 .. i |-> f[k]], j)
    BY <1>0, <1>1 DEF Stands
  <2>3. [j \in 1 .. i |-> f[j]][1] = 1 /\ [j \in 1 .. i |-> f[j]][i] = f[i]
    BY <1>0, <1>1
  <2> QED BY <2>1, <2>2, <2>3 DEF Prefix
<1> QED
  BY <1>2, <1>3, <1>4, PrefixNext

\* The character that a byte is part of.
LEMMA CharOf ==
    ASSUME WcTypeOK, NEW s \in 1 .. Len(text) + 1
    PROVE  \E b \in Starts(text) :
              b = s \/ (s <= Len(text) /\ text[s] = Cont /\ b < s /\ s < b + WcWidth[text[b]])
<1>0. text \in Seq(WcChar \cup {Cont}) /\ Utf8(text) /\ Len(text) \in Nat
      /\ DOMAIN text = 1 .. Len(text)
  BY DEF WcTypeOK
<1>1. CASE s = Len(text) + 1
  BY <1>1 DEF Starts
<1>2. CASE s \in DOMAIN text /\ text[s] # Cont
  BY <1>2 DEF Starts
<1>3. CASE s \in DOMAIN text /\ text[s] = Cont
  <2>1. PICK b \in 1 .. s - 1 : text[b] # Cont /\ s < b + WcWidth[text[b]]
    BY <1>0, <1>3 DEF Utf8
  <2>2. b \in DOMAIN text
    BY <1>0
  <2> QED BY <1>0, <1>3, <2>1, <2>2 DEF Starts
<1> QED BY <1>0, <1>1, <1>2, <1>3

\* What a prefix stands for does not change while the pattern and the text do not.
LEMMA PrefixKept ==
    ASSUME UNCHANGED <<pattern, text>>
    PROVE  Starts(text)' = Starts(text) /\ \A i, b : Prefix(i, b)' <=> Prefix(i, b)
BY DEF Prefix, Stands, Starts, RuneSize

\* Each step of Match keeps what it has matched so far a match of a prefix, unless
\* it may have torn a character.
LEMMA SoundStep ==
    ASSUME WcTypeOK, WcSound, ~Torn(pattern, text), [WcNext]_wcVars
    PROVE  WcSound'
<1>0. /\ Len(pattern) \in Nat /\ Len(text) \in Nat
      /\ text \in Seq(WcChar \cup {Cont}) /\ Utf8(text)
      /\ patAt \in 1 .. Len(pattern) + 1 /\ textAt \in 1 .. Len(text) + 1
      /\ wildcardIdx \in 0 .. patAt - 1 /\ matchIdx \in 1 .. textAt
      /\ Starts(text) \subseteq 1 .. Len(text) + 1
  BY TextFacts DEF WcTypeOK
<1>b. PICK b \in Starts(text) : Prefix(patAt, b) /\ Within(b, textAt)
  BY DEF WcSound
<1>1. CASE MatchAny \/ MatchLiteral
  <2>1. /\ patAt <= Len(pattern) /\ textAt <= Len(text)
        /\ pattern[patAt] # "*" /\ pattern[patAt] \in {"?", text[textAt]}
        /\ patAt' = patAt + 1 /\ textAt' = textAt + RuneSize(text, textAt)
        /\ UNCHANGED <<pattern, text, wildcardIdx, matchIdx>>
    BY <1>1 DEF MatchAny, MatchLiteral, AtPattern, Searching
  <2>2. \E c \in Starts(text) : Prefix(patAt + 1, c) /\ c = textAt'
    <3>1. CASE b = textAt
      <4>1. b + RuneSize(text, b) \in Starts(text)
        BY <1>0, <2>1, <3>1, TextFacts
      <4>2. patAt \in 1 .. Len(pattern)
        BY <1>0, <2>1
      <4> QED BY <1>b, <2>1, <3>1, <4>1, <4>2, PrefixNext
    <3>2. CASE b # textAt
      <4>1. /\ wildcardIdx # 0 /\ text[textAt] = Cont
            /\ b < textAt /\ textAt < b + WcWidth[text[b]]
        BY <1>b, <3>2 DEF Within
      <4>2. pattern[patAt] = "?"
        <5>1. pattern[patAt] # Cont
          <6>1. patAt \in 1 .. Len(pattern) /\ pattern \in Seq(WcChar \cup {"*", "?"})
            BY <1>0, <2>1 DEF WcTypeOK
          <6>2. pattern[patAt] \in WcChar \cup {"*", "?"}
            BY <6>1
          <6> QED BY <6>2, WcAssumption DEF Cont
        <5> QED BY <2>1, <4>1, <5>1
      <4>3. /\ wildcardIdx \in DOMAIN pattern /\ patAt \in DOMAIN pattern
            /\ wildcardIdx < patAt /\ pattern[wildcardIdx] = "*"
        BY <1>0, <2>1, <4>1 DEF WcTypeOK
      <4>4. \A i \in DOMAIN text : ~(text[i] # Cont /\ WcWidth[text[i]] > 2)
        BY <4>2, <4>3 DEF Torn
      <4>5. b \in DOMAIN text /\ text[b] # Cont /\ text[b] \in WcChar /\ b <= Len(text)
        <5>1. b <= Len(text) /\ b \in 1 .. Len(text)
          BY <1>0, <4>1
        <5> QED BY <1>0, <5>1, TextFacts
      <4>6. WcWidth[text[b]] \in Nat /\ ~(WcWidth[text[b]] > 2)
        BY <4>4, <4>5, WcAssumption
      <4>7. WcWidth[text[b]] = 2 /\ b = textAt - 1
        BY <1>0, <4>1, <4>6
      <4>8. RuneSize(text, textAt) = 1 /\ RuneSize(text, b) = 2
        BY <4>1, <4>5, <4>7 DEF RuneSize
      <4>9. b + RuneSize(text, b) \in Starts(text) /\ textAt' = b + RuneSize(text, b)
        BY <1>0, <2>1, <4>5, <4>7, <4>8, TextFacts
      <4>10. patAt \in 1 .. Len(pattern)
        BY <1>0, <2>1
      <4> QED BY <1>b, <2>1, <4>2, <4>5, <4>9, <4>10, PrefixNext
    <3> QED BY <3>1, <3>2
  <2>3. \E c \in Starts(text)' : Prefix(patAt, c)' /\ Within(c, textAt)'
    BY <2>1, <2>2, PrefixKept DEF Within
  <2>4. (wildcardIdx # 0 => \E c \in Starts(text) : c <= matchIdx /\ Prefix(wildcardIdx + 1, c))'
    BY <2>1, PrefixKept DEF WcSound
  <2> QED BY <2>3, <2>4 DEF WcSound
<1>2. CASE MatchStar
  <2>1. /\ patAt <= Len(pattern) /\ pattern[patAt] = "*" /\ textAt <= Len(text)
        /\ patAt' = patAt + 1 /\ wildcardIdx' = patAt /\ matchIdx' = textAt
        /\ UNCHANGED <<pattern, text, textAt>>
    BY <1>2 DEF MatchStar, AtPattern, Searching
  <2>2. Prefix(patAt + 1, b)
    <3>1. patAt \in 1 .. Len(pattern) /\ b <= b
      BY <1>0, <2>1
    <3> QED BY <1>b, <2>1, <3>1, PrefixNext
  <2>3. Prefix(patAt, b)' /\ Prefix(wildcardIdx + 1, b)'
    BY <2>1, <2>2, PrefixKept
  <2>4. Within(b, textAt)' /\ b <= matchIdx' /\ b \in Starts(text)'
    <3>1. wildcardIdx' # 0
      BY <1>0, <2>1
    <3>2. b <= textAt
      BY <1>0, <1>b DEF Within
    <3> QED BY <1>b, <2>1, <3>1, <3>2 DEF Within
  <2> QED BY <2>3, <2>4 DEF WcSound
<1>3. CASE Backtrack
  <2>1. /\ wildcardIdx # 0 /\ textAt <= Len(text)
        /\ patAt' = wildcardIdx + 1 /\ matchIdx' = matchIdx + 1 /\ textAt' = matchIdx + 1
        /\ UNCHANGED <<pattern, text, wildcardIdx>>
    BY <1>3 DEF Backtrack, Mismatch, Searching
  <2>2. PICK a \in Starts(text) : a <= matchIdx /\ Prefix(wildcardIdx + 1, a)
    BY <2>1 DEF WcSound
  <2>3. matchIdx + 1 \in 1 .. Len(text) + 1
    BY <1>0, <2>1
  <2>4. PICK c \in Starts(text) :
            \/ c = matchIdx + 1
            \/ /\ matchIdx + 1 <= Len(text) /\ text[matchIdx + 1] = Cont
               /\ c < matchIdx + 1 /\ matchIdx + 1 < c + WcWidth[text[c]]
    BY <2>3, CharOf
  <2>5. a <= c
    <3> SUFFICES ASSUME c < a PROVE FALSE
      BY <1>0
    <3>1. c + RuneSize(text, c) <= a
      BY <1>0, TextFacts
    <3>2. /\ matchIdx + 1 < c + WcWidth[text[c]] /\ c <= Len(text)
      BY <1>0, <2>2, <2>4
    <3>3. /\ \A i \in Starts(text) : i <= Len(text) => RuneSize(text, i) = WcWidth[text[i]]
          /\ \A i \in 1 .. Len(text) : RuneSize(text, i) \in Nat \ {0}
          /\ Starts(text) \subseteq 1 .. Len(text) + 1 /\ Len(text) \in Nat
      BY <1>0, TextFacts
    <3>4. c \in 1 .. Len(text)
      BY <3>2, <3>3
    <3>5. RuneSize(text, c) = WcWidth[text[c]] /\ RuneSize(text, c) \in Nat
      BY <3>3, <3>4
    <3> QED BY <1>0, <2>2, <3>1, <3>2, <3>5
  <2>6. Prefix(wildcardIdx + 1, c)
    <3>1. wildcardIdx \in 1 .. Len(pattern) /\ pattern[wildcardIdx] = "*"
      BY <1>0, <2>1 DEF WcTypeOK
    <3> QED BY <2>2, <2>5, <3>1, PrefixMore
  <2>7. Prefix(patAt, c)' /\ Within(c, textAt)' /\ c \in Starts(text)'
    BY <2>1, <2>4, <2>6, PrefixKept DEF Within
  <2>8. a \in Starts(text)' /\ a <= matchIdx' /\ Prefix(wildcardIdx + 1, a)'
    <3>1. a <= matchIdx + 1
      BY <1>0, <2>2
    <3> QED BY <2>1, <2>2, <3>1, PrefixKept
  <2> QED BY <2>7, <2>8 DEF WcSound
<1>4. CASE SkipStar
  <2>1. /\ patAt <= Len(pattern) /\ pattern[patAt] = "*" /\ patAt' = patAt + 1
        /\ UNCHANGED <<pattern, text, textAt, wildcardIdx, matchIdx>>
    BY <1>4 DEF SkipStar, AtPattern
  <2>2. Prefix(patAt + 1, b)
    <3>1. patAt \in 1 .. Len(pattern) /\ b <= b
      BY <1>0, <2>1
    <3> QED BY <1>b, <2>1, <3>1, PrefixNext
  <2>3. Prefix(patAt, b)' /\ Within(b, textAt)' /\ b \in Starts(text)'
    BY <1>b, <2>1, <2>2, PrefixKept DEF Within
  <2>4. (wildcardIdx # 0 => \E c \in Starts(text) : c <= matchIdx /\ Prefix(wildcardIdx + 1, c))'
    BY <2>1, PrefixKept DEF WcSound
  <2> QED BY <2>3, <2>4 DEF WcSound
<1>5. CASE GiveUp \/ Conclude \/ UNCHANGED wcVars
  <2>1. UNCHANGED <<pattern, text, patAt, textAt, wildcardIdx, matchIdx>>
    BY <1>5 DEF GiveUp, Conclude, wcVars
  <2> QED BY <2>1, PrefixKept DEF WcSound, Within
<1> QED
  BY <1>1, <1>2, <1>3, <1>4, <1>5 DEF WcNext

(***************************************************************************)
(* What cannot be matched any more.  If the pattern matches the text, what *)
(* follows the last star matches from matchIdx or from later, so nothing   *)
(* is lost when an attempt is given up.  The pattern between the star and  *)
(* patAt has no star: it takes as many characters from wherever it starts, *)
(* and so a match from later is further on at patAt than this attempt.     *)
(* That is why going back to the last star only is enough.                 *)
(***************************************************************************)
Suffix(f, i, j) ==
    /\ f \in [i .. Len(pattern) + 1 -> Starts(text)]
    /\ f[i] = j /\ f[Len(pattern) + 1] = Len(text) + 1
    /\ \A k \in i .. Len(pattern) : Stands(pattern, text, f, k)

WcComplete ==
    /\ Glob(pattern, text) =>
          \E f, j : j \in Starts(text) /\ j >= matchIdx /\ Suffix(f, wildcardIdx + 1, j)
                    /\ (wildcardIdx = 0 => j = matchIdx)
    /\ \A f, j : j \in Starts(text) /\ j >= matchIdx /\ Suffix(f, wildcardIdx + 1, j) =>
          f[patAt] >= textAt
    /\ \A f : Suffix(f, wildcardIdx + 1, matchIdx) => f[patAt] = textAt

\* The same of a suffix.
LEMMA SuffixKept ==
    ASSUME UNCHANGED <<pattern, text>>
    PROVE  /\ Starts(text)' = Starts(text) /\ Glob(pattern, text)' = Glob(pattern, text)
           /\ \A f, i, j : Suffix(f, i, j)' <=> Suffix(f, i, j)
BY DEF Suffix, Glob, Stands, Starts, RuneSize

\* What a match says of the character at patAt.
LEMMA SuffixAt ==
    ASSUME WcTypeOK, NEW f, NEW j, Suffix(f, wildcardIdx + 1, j), patAt <= Len(pattern)
    PROVE  /\ f[patAt] \in Starts(text) /\ f[patAt + 1] \in Starts(text)
           /\ Stands(pattern, text, f, patAt)
<1>1. /\ patAt \in wildcardIdx + 1 .. Len(pattern)
      /\ patAt \in wildcardIdx + 1 .. Len(pattern) + 1
      /\ patAt + 1 \in wildcardIdx + 1 .. Len(pattern) + 1
  BY DEF WcTypeOK
<1> QED BY <1>1 DEF Suffix

\* An attempt that meets a mismatch does not match.
LEMMA MismatchRefutes ==
    ASSUME WcTypeOK, WcComplete, Mismatch, NEW f, Suffix(f, wildcardIdx + 1, matchIdx)
    PROVE  FALSE
<1>0. textAt <= Len(text) /\ f[patAt] = textAt /\ Len(text) \in Nat /\ Len(pattern) \in Nat
  BY DEF Mismatch, Searching, WcComplete, WcTypeOK
<1>1. CASE patAt <= Len(pattern)
  <2>1. Stands(pattern, text, f, patAt)
    BY <1>1, SuffixAt
  <2>2. pattern[patAt] \notin {"?", "*", text[textAt]}
    BY <1>1 DEF Mismatch, AtPattern
  <2> QED BY <1>0, <2>1, <2>2 DEF Stands
<1>2. CASE ~(patAt <= Len(pattern))
  <2>1. patAt = Len(pattern) + 1
    BY <1>0, <1>2 DEF WcTypeOK
  <2>2. f[patAt] = Len(text) + 1
    BY <2>1 DEF Suffix
  <2> QED BY <1>0, <2>2
<1> QED BY <1>1, <1>2

\* Each step of Match keeps every alignment that the text may still have.
LEMMA CompleteStep ==
    ASSUME WcTypeOK, WcComplete, [WcNext]_wcVars
    PROVE  WcComplete'
<1>0. /\ Len(pattern) \in Nat /\ Len(text) \in Nat
      /\ text \in Seq(WcChar \cup {Cont}) /\ Utf8(text)
      /\ patAt \in 1 .. Len(pattern) + 1 /\ textAt \in 1 .. Len(text) + 1
      /\ wildcardIdx \in 0 .. patAt - 1 /\ matchIdx \in 1 .. textAt
      /\ Starts(text) \subseteq 1 .. Len(text) + 1
  BY TextFacts DEF WcTypeOK
<1>1. CASE MatchAny \/ MatchLiteral
  <2>1. /\ patAt <= Len(pattern) /\ textAt <= Len(text) /\ pattern[patAt] # "*"
        /\ patAt' = patAt + 1 /\ textAt' = textAt + RuneSize(text, textAt)
        /\ UNCHANGED <<pattern, text, wildcardIdx, matchIdx>>
    BY <1>1 DEF MatchAny, MatchLiteral, AtPattern, Searching
  <2>2. ASSUME NEW f, NEW j, Suffix(f, wildcardIdx + 1, j)
        PROVE  /\ f[patAt] >= textAt => f[patAt + 1] >= textAt'
               /\ f[patAt] = textAt => f[patAt + 1] = textAt'
    <3> DEFINE y == f[patAt]
    <3>1. y \in Starts(text) /\ Stands(pattern, text, f, patAt)
      BY <2>1, <2>2, SuffixAt
    <3>2. y <= Len(text) /\ f[patAt + 1] = y + RuneSize(text, y)
      BY <2>1, <3>1 DEF Stands
    <3>3. y \in 1 .. Len(text) /\ RuneSize(text, y) \in Nat \ {0}
      BY <1>0, <3>1, <3>2, TextFacts
    <3>4. /\ RuneSize(text, textAt) \in Nat \ {0}
          /\ textAt \in Starts(text) \/ RuneSize(text, textAt) = 1
      BY <2>1, TextAdvance
    <3>5. y > textAt => textAt + RuneSize(text, textAt) <= y
      <4>1. CASE textAt \in Starts(text)
        BY <1>0, <3>1, <4>1, TextFacts
      <4>2. CASE RuneSize(text, textAt) = 1
        BY <1>0, <3>3, <4>2
      <4> QED BY <3>4, <4>1, <4>2
    <3> HIDE DEF y
    <3>6. y >= textAt => y = textAt \/ y > textAt
      BY <1>0, <3>3
    <3>7. y > textAt => f[patAt + 1] >= textAt'
      BY <1>0, <2>1, <3>2, <3>3, <3>4, <3>5
    <3>8. y = textAt => f[patAt + 1] = textAt'
      BY <2>1, <3>2
    <3>9. y = textAt => f[patAt + 1] >= textAt'
      BY <1>0, <2>1, <3>2, <3>3
    <3> QED BY <3>6, <3>7, <3>8, <3>9 DEF y
  <2>3. \A f, j : j \in Starts(text) /\ j >= matchIdx /\ Suffix(f, wildcardIdx + 1, j) =>
            f[patAt + 1] >= textAt'
    BY <2>2 DEF WcComplete
  <2>4. \A f : Suffix(f, wildcardIdx + 1, matchIdx) => f[patAt + 1] = textAt'
    BY <2>2 DEF WcComplete
  <2> QED BY <2>1, <2>3, <2>4, SuffixKept DEF WcComplete
<1>2. CASE MatchStar
  <2>1. /\ patAt <= Len(pattern) /\ pattern[patAt] = "*" /\ textAt <= Len(text)
        /\ patAt' = patAt + 1 /\ wildcardIdx' = patAt /\ matchIdx' = textAt
        /\ UNCHANGED <<pattern, text, textAt>>
    BY <1>2 DEF MatchStar, AtPattern, Searching
  <2>2. ASSUME Glob(pattern, text)
        PROVE  \E g, c : c \in Starts(text) /\ c >= textAt /\ Suffix(g, patAt + 1, c)
    <3>1. PICK f, j : j \in Starts(text) /\ j >= matchIdx /\ Suffix(f, wildcardIdx + 1, j)
      BY <2>2 DEF WcComplete
    <3>2. /\ f[patAt] >= textAt /\ f[patAt] \in Starts(text) /\ f[patAt + 1] \in Starts(text)
          /\ f[patAt] <= f[patAt + 1]
      BY <2>1, <3>1, SuffixAt DEF WcComplete, Stands
    <3>3. f[patAt + 1] >= textAt
      BY <1>0, <3>2
    <3> DEFINE g == [k \in patAt + 1 .. Len(pattern) + 1 |-> f[k]]
    <3>4. \A k \in patAt + 1 .. Len(pattern) + 1 : k \in wildcardIdx + 1 .. Len(pattern) + 1
      BY <1>0
    <3>5. /\ g \in [patAt + 1 .. Len(pattern) + 1 -> Starts(text)]
          /\ \A k \in patAt + 1 .. Len(pattern) + 1 : g[k] = f[k]
      BY <3>1, <3>4 DEF Suffix
    <3> HIDE DEF g
    <3>6. /\ patAt + 1 \in patAt + 1 .. Len(pattern) + 1
          /\ Len(pattern) + 1 \in patAt + 1 .. Len(pattern) + 1
      BY <1>0, <2>1
    <3>7. ASSUME NEW k \in patAt + 1 .. Len(pattern) PROVE Stands(pattern, text, g, k)
      <4>1. /\ k \in wildcardIdx + 1 .. Len(pattern)
            /\ k \in patAt + 1 .. Len(pattern) + 1 /\ k + 1 \in patAt + 1 .. Len(pattern) + 1
        BY <1>0
      <4>2. Stands(pattern, text, f, k)
        BY <3>1, <4>1 DEF Suffix
      <4> QED BY <3>5, <4>1, <4>2 DEF Stands
    <3>8. Suffix(g, patAt + 1, f[patAt + 1])
      BY <3>1, <3>5, <3>6, <3>7 DEF Suffix
    <3> QED BY <3>2, <3>3, <3>8
  <2>3. \A f, j : Suffix(f, patAt + 1, j) => f[patAt + 1] = j
    BY DEF Suffix
  <2>4. wildcardIdx' # 0
    BY <1>0, <2>1
  <2> QED BY <2>1, <2>2, <2>3, <2>4, SuffixKept DEF WcComplete
<1>3. CASE Backtrack
  <2>1. /\ wildcardIdx # 0 /\ Mismatch
        /\ patAt' = wildcardIdx + 1 /\ matchIdx' = matchIdx + 1 /\ textAt' = matchIdx + 1
        /\ UNCHANGED <<pattern, text, wildcardIdx>>
    BY <1>3 DEF Backtrack
  <2>2. ASSUME NEW f, NEW j, j \in Starts(text), j >= matchIdx, Suffix(f, wildcardIdx + 1, j)
        PROVE  j >= matchIdx + 1
    <3>1. j # matchIdx
      BY <2>1, <2>2, MismatchRefutes
    <3> QED BY <1>0, <2>2, <3>1
  <2>3. \A f, j : Suffix(f, wildcardIdx + 1, j) => f[wildcardIdx + 1] = j
    BY DEF Suffix
  <2>4. Glob(pattern, text) =>
          \E f, j : j \in Starts(text) /\ j >= matchIdx + 1 /\ Suffix(f, wildcardIdx + 1, j)
    BY <2>2 DEF WcComplete
  <2> QED BY <2>1, <2>3, <2>4, SuffixKept DEF WcComplete
<1>4. CASE SkipStar
  <2>1. /\ patAt <= Len(pattern) /\ pattern[patAt] = "*" /\ patAt' = patAt + 1
        /\ textAt > Len(text)
        /\ UNCHANGED <<pattern, text, textAt, wildcardIdx, matchIdx>>
    BY <1>4 DEF SkipStar, AtPattern
  <2>2. textAt = Len(text) + 1
    BY <1>0, <2>1
  <2>3. ASSUME NEW f, NEW j, Suffix(f, wildcardIdx + 1, j), f[patAt] >= textAt
        PROVE  f[patAt + 1] = textAt /\ f[patAt + 1] >= textAt
    <3>1. /\ f[patAt] \in Starts(text) /\ f[patAt + 1] \in Starts(text)
          /\ f[patAt] <= f[patAt + 1]
      BY <2>1, <2>3, SuffixAt DEF Stands
    <3> QED BY <1>0, <2>2, <2>3, <3>1
  <2>4. \A f, j : j \in Starts(text) /\ j >= matchIdx /\ Suffix(f, wildcardIdx + 1, j) =>
            f[patAt + 1] >= textAt
    BY <2>3 DEF WcComplete
  <2>5. \A f : Suffix(f, wildcardIdx + 1, matchIdx) => f[patAt + 1] = textAt
    <3> SUFFICES ASSUME NEW f, Suffix(f, wildcardIdx + 1, matchIdx)
                 PROVE  f[patAt + 1] = textAt
      OBVIOUS
    <3>1. f[patAt] = textAt
      BY DEF WcComplete
    <3>2. f[patAt] >= textAt
      BY <1>0, <3>1
    <3> QED BY <2>3, <3>2
  <2> QED BY <2>1, <2>4, <2>5, SuffixKept DEF WcComplete
<1>5. CASE GiveUp \/ Conclude \/ UNCHANGED wcVars
  <2>1. UNCHANGED <<pattern, text, patAt, textAt, wildcardIdx, matchIdx>>
    BY <1>5 DEF GiveUp, Conclude, wcVars
  <2> QED BY <2>1, SuffixKept DEF WcComplete
<1> QED
  BY <1>1, <1>2, <1>3, <1>4, <1>5 DEF WcNext

WcInv ==
    /\ WcTypeOK /\ WcComplete
    /\ ~Torn(pattern, text) => WcSound
    /\ WcDecides

\* So the verdict of Match is right when it is reached.
LEMMA DecidesStep ==
    ASSUME WcInv, [WcNext]_wcVars
    PROVE  WcDecides'
<1>0. /\ WcTypeOK /\ WcComplete /\ WcDecides /\ (~Torn(pattern, text) => WcSound)
      /\ Len(pattern) \in Nat /\ Len(text) \in Nat
  BY DEF WcInv, WcTypeOK
<1>1. UNCHANGED <<pattern, text>>
  BY DEF WcNext, wcVars, MatchAny, MatchStar, MatchLiteral, Backtrack, GiveUp, SkipStar, Conclude
<1>2. Glob(pattern, text)' = Glob(pattern, text) /\ Torn(pattern, text)' = Torn(pattern, text)
  BY <1>1, SuffixKept DEF Torn
<1>3. CASE UNCHANGED verdict
  BY <1>0, <1>2, <1>3 DEF WcDecides
<1>4. CASE GiveUp
  <2>1. verdict' = "no" /\ Mismatch /\ wildcardIdx = 0
    BY <1>4 DEF GiveUp
  <2>2. ~Glob(pattern, text)
    BY <1>0, <2>1, MismatchRefutes DEF WcComplete
  <2> QED BY <1>2, <2>1, <2>2 DEF WcDecides
<1>5. CASE Conclude
  <2>1. /\ textAt > Len(text) /\ ~AtPattern("*")
        /\ verdict' = IF patAt = Len(pattern) + 1 THEN "yes" ELSE "no"
    BY <1>5 DEF Conclude
  <2>2. textAt = Len(text) + 1
    BY <1>0, <2>1 DEF WcTypeOK
  <2>3. CASE patAt = Len(pattern) + 1
    <3>1. verdict' = "yes"
      BY <2>1, <2>3
    <3>2. ASSUME ~Torn(pattern, text) PROVE Glob(pattern, text)
      <4>1. PICK b \in Starts(text) : Prefix(patAt, b) /\ Within(b, textAt)
        BY <1>0, <3>2 DEF WcSound
      <4>2. b = Len(text) + 1
        BY <1>0, <2>2, <4>1 DEF Within
      <4>3. PICK f \in [1 .. Len(pattern) + 1 -> Starts(text)] :
                /\ f[1] = 1 /\ f[Len(pattern) + 1] = Len(text) + 1
                /\ \A j \in 1 .. (Len(pattern) + 1) - 1 : Stands(pattern, text, f, j)
        BY <2>3, <4>1, <4>2 DEF Prefix
      <4>4. DOMAIN pattern = 1 .. (Len(pattern) + 1) - 1
        BY <1>0 DEF WcTypeOK
      <4> QED BY <4>3, <4>4 DEF Glob
    <3> QED BY <1>2, <3>1, <3>2 DEF WcDecides
  <2>4. CASE patAt # Len(pattern) + 1
    <3>1. verdict' = "no"
      BY <2>1, <2>4
    <3>2. patAt <= Len(pattern) /\ pattern[patAt] # "*"
      BY <1>0, <2>1, <2>4 DEF WcTypeOK, AtPattern
    <3>3. ASSUME Glob(pattern, text) PROVE FALSE
      <4>1. PICK f, j : j \in Starts(text) /\ j >= matchIdx /\ Suffix(f, wildcardIdx + 1, j)
        BY <1>0, <3>3 DEF WcComplete
      <4>2. f[patAt] >= textAt
        BY <1>0, <4>1 DEF WcComplete
      <4>3. f[patAt] \in Starts(text) /\ f[patAt] <= Len(text)
        BY <1>0, <3>2, <4>1, SuffixAt DEF Stands
      <4>4. f[patAt] \in Nat
        BY <1>0, <4>3, TextFacts DEF WcTypeOK
      <4> QED BY <1>0, <2>2, <4>2, <4>3, <4>4
    <3> QED BY <1>2, <3>1, <3>3 DEF WcDecides
  <2> QED BY <2>3, <2>4
<1> QED
  BY <1>3, <1>4, <1>5 DEF WcNext, wcVars, MatchAny, MatchStar, MatchLiteral, Backtrack, SkipStar

\* At the start nothing is matched and everything may be.
LEMMA WcInitInv == WcInit => WcInv
<1> SUFFICES ASSUME WcInit PROVE WcInv
  OBVIOUS
<1>0. /\ pattern \in Seq(WcChar \cup {"*", "?"}) /\ Len(pattern) \in Nat /\ Len(text) \in Nat
      /\ text \in Seq(WcChar \cup {Cont}) /\ Utf8(text)
      /\ patAt = 1 /\ textAt = 1 /\ wildcardIdx = 0 /\ matchIdx = 1 /\ verdict = "none"
  BY WcAssumption DEF WcInit
<1>1. WcTypeOK
  BY <1>0 DEF WcTypeOK
<1>2. 1 \in Starts(text)
  BY <1>0, TextFacts
<1>3. WcComplete
  <2>1. \A f, j : Suffix(f, wildcardIdx + 1, j) => f[patAt] = j
    BY <1>0 DEF Suffix
  <2>2. ASSUME Glob(pattern, text) PROVE \E f : Suffix(f, wildcardIdx + 1, 1)
    <3>1. PICK f \in [1 .. Len(pattern) + 1 -> Starts(text)] :
              /\ f[1] = 1 /\ f[Len(pattern) + 1] = Len(text) + 1
              /\ \A i \in DOMAIN pattern : Stands(pattern, text, f, i)
      BY <2>2 DEF Glob
    <3>2. DOMAIN pattern = 1 .. Len(pattern) /\ wildcardIdx + 1 = 1
      BY <1>0
    <3> QED BY <3>1, <3>2 DEF Suffix
  <2> QED BY <1>0, <1>2, <2>1, <2>2 DEF WcComplete
<1>4. WcSound
  <2>1. Prefix(1, 1)
    <3>1. [k \in 1 .. 1 |-> 1] \in [1 .. 1 -> Starts(text)]
      BY <1>2
    <3>2. [k \in 1 .. 1 |-> 1][1] = 1 /\ 1 .. 1 - 1 = {}
      OBVIOUS
    <3> QED BY <3>1, <3>2 DEF Prefix
  <2> QED BY <1>0, <1>2, <2>1 DEF WcSound, Within
<1>5. WcDecides
  BY <1>0 DEF WcDecides
<1> QED BY <1>1, <1>3, <1>4, <1>5 DEF WcInv

\* For every text and every pattern, whatever their length and characters,
\* wildcard.Match refuses no text that the pattern matches, and one it accepts
\* is matched unless a character of three bytes or more may have been torn.
THEOREM WildcardsDecide == WcSpec => []WcDecides
<1>1. WcInv /\ [WcNext]_wcVars => WcInv'
  <2> SUFFICES ASSUME WcInv, [WcNext]_wcVars PROVE WcInv'
    OBVIOUS
  <2>1. WcTypeOK' /\ WcComplete'
    BY WcTypeStep, CompleteStep DEF WcInv
  <2>2. WcDecides'
    BY DecidesStep
  <2>3. UNCHANGED <<pattern, text>>
    BY DEF WcNext, wcVars, MatchAny, MatchStar, MatchLiteral, Backtrack, GiveUp, SkipStar, Conclude
  <2>4. Torn(pattern, text)' = Torn(pattern, text)
    BY <2>3 DEF Torn
  <2>5. (~Torn(pattern, text) => WcSound)'
    BY <2>4, SoundStep DEF WcInv
  <2> QED BY <2>1, <2>2, <2>5 DEF WcInv
<1>2. WcInv => WcDecides
  BY DEF WcInv
<1> QED
  BY <1>1, <1>2, WcInitInv, PTL DEF WcSpec
-----------------------------------------------------------------------------
(* The operators of conditions *)

\* What the operands of a state can be.
FoShapes ==
    \/ L = Nil /\ R = Nil
    \/ L \in Numbers /\ R \in Numbers
    \/ /\ \/ L.t = "string" /\ L.v \in Seq(OneByte)
          \/ L.t = "[]string" /\ L.v \in Seq(Seq(OneByte))
       /\ \/ R.t = "string" /\ R.v \in Seq(OneByte \cup {"*", "?"})
          \/ R.t = "[]string" /\ R.v \in Seq(Seq(OneByte))

\* FoNext picks operands of these shapes.
LEMMA FoShapesStep ==
    ASSUME FoNext
    PROVE  FoShapes'
<1>1. CASE \E l, r \in Numbers : operands' = [l |-> l, r |-> r]
  BY <1>1 DEF FoShapes, L, R
<1>2. CASE \E s \in FoText, p \in FoPattern : operands' = [l |-> Text(s), r |-> Text(p)]
  BY <1>2, FoAssumption DEF FoShapes, L, R, Text
<1>3. ASSUME NEW l \in FoItems, NEW s \in ItemsOf(l)
      PROVE  s \in Seq(OneByte)
  BY <1>3, FoAssumption DEF ItemsOf
<1>4. ASSUME NEW s \in Seq(OneByte)
      PROVE  s \in Seq(OneByte \cup {"*", "?"})
  BY <1>4
<1>5. ASSUME NEW l \in FoItems
      PROVE  l \in Seq(Seq(OneByte))
  BY <1>5, FoAssumption
<1>6. ASSUME NEW l \in FoItems, NEW r \in FoItems,
             \/ operands' = [l |-> Items(l), r |-> Items(r)]
             \/ \E s \in ItemsOf(r) : operands' = [l |-> Items(l), r |-> Text(s)]
             \/ \E s \in ItemsOf(l) : operands' = [l |-> Text(s), r |-> Items(r)]
      PROVE  FoShapes'
  <2>1. l \in Seq(Seq(OneByte)) /\ r \in Seq(Seq(OneByte))
    BY <1>5
  <2>2. CASE operands' = [l |-> Items(l), r |-> Items(r)]
    BY <2>1, <2>2 DEF FoShapes, L, R, Items
  <2>3. ASSUME NEW s \in ItemsOf(r), operands' = [l |-> Items(l), r |-> Text(s)]
        PROVE  FoShapes'
    <3>1. s \in Seq(OneByte \cup {"*", "?"})
      BY <1>3, <1>4
    <3> QED BY <2>1, <2>3, <3>1 DEF FoShapes, L, R, Items, Text
  <2>4. ASSUME NEW s \in ItemsOf(l), operands' = [l |-> Text(s), r |-> Items(r)]
        PROVE  FoShapes'
    BY <1>3, <2>1, <2>4 DEF FoShapes, L, R, Items, Text
  <2> QED BY <1>6, <2>2, <2>3, <2>4
<1> QED BY <1>1, <1>2, <1>6 DEF FoNext

\* A number has an integer for its value, in halves or not, that is in the
\* range of its type and not negative if that is unsigned; converted it is an
\* integer too.
LEMMA NumberFacts ==
    ASSUME NEW x \in Numbers
    PROVE  /\ x.t \in IntType \cup {"float64"} /\ x.v \in Int
           /\ x.t # "float64" => x.v \in Ints(x.t) /\ FoRounded(x.v) \in Int
           /\ x.t \in Unsigned => x.v >= 0
<1>1. CASE x \in [t : {"float64"}, v : FoFloats]
  BY <1>1, FoAssumption DEF Unsigned
<1>2. ASSUME NEW t \in IntType, x \in [t : {t}, v : Ints(t)]
      PROVE  /\ x.t = t /\ x.v \in Ints(t) /\ x.v \in Int /\ FoRounded(x.v) \in Int
             /\ t \in Unsigned => x.v >= 0
  <2>1. x.t = t /\ x.v \in Ints(t)
    BY <1>2
  <2>2. FoRange[t] \in Nat \ {0}
    BY FoAssumption
  <2>3. x.v \in Int /\ (t \in Unsigned => x.v >= 0)
    BY <2>1, <2>2 DEF Ints
  <2> QED BY <2>1, <2>3, FoAssumption
<1>3. x \in [t : {"float64"}, v : FoFloats] \/ \E t \in IntType : x \in [t : {t}, v : Ints(t)]
  <2>1. x \in UNION {[t : {t}, v : Ints(t)] : t \in IntType} \/ x \in [t : {"float64"}, v : FoFloats]
    BY DEF Numbers
  <2>2. ASSUME x \in UNION {[t : {t}, v : Ints(t)] : t \in IntType}
        PROVE  \E t \in IntType : x \in [t : {t}, v : Ints(t)]
    <3>1. PICK S \in {[t : {t}, v : Ints(t)] : t \in IntType} : x \in S
      BY <2>2
    <3>2. PICK t \in IntType : S = [t : {t}, v : Ints(t)]
      OBVIOUS
    <3> QED BY <3>1, <3>2
  <2> QED BY <2>1, <2>2
<1>4. "float64" \notin IntType
  BY DEF IntType
<1> QED BY <1>1, <1>2, <1>3, <1>4

\* The table of conversions: to float64 if one is one, else to a type of which
\* one is unsigned or to a signed one.
LEMMA Converted ==
    ASSUME NEW l, NEW r, Comparable(l, r)
    PROVE  LET t == Conv[l.t][r.t] IN
           /\ t \in IntType \cup {"float64"}
           /\ t = "float64" <=> l.t = "float64" \/ r.t = "float64"
           /\ t \in Unsigned => l.t \in Unsigned \/ r.t \in Unsigned
BY DEF Comparable, Conv, IntConv, Uint8Conv, FloatConv, Int64Conv, Uint64Conv, Uint32Conv, Uint16Conv, IntType, Unsigned

\* A conversion keeps the value of what fits.
LEMMA AsFits ==
    ASSUME NEW x \in Numbers, NEW t \in IntType \cup {"float64"}, x.t = "float64" => t = "float64"
    PROVE  /\ As(x, t) \in Int
           /\ x.t = "float64" \/ Fits(x, t) => As(x, t) = IF t = "float64" THEN Value(x) ELSE x.v
           /\ t # "float64" => Value(x) = 2 * x.v
<1>1. x.v \in Int /\ (x.t # "float64" => FoRounded(x.v) \in Int)
  BY NumberFacts
<1>2. CASE t = "float64"
  BY <1>1, <1>2 DEF As, Fits, Value
<1>3. CASE t # "float64"
  <2>1. FoRange[t] \in Nat \ {0} /\ x.t # "float64"
    BY <1>3, FoAssumption
  <2>2. CASE t \in Unsigned
    <3>1. As(x, t) = x.v % FoRange[t]
      BY <1>3, <2>2 DEF As
    <3>2. Fits(x, t) => x.v \in 0 .. FoRange[t] - 1
      BY <1>3, <2>2 DEF Fits, Ints
    <3>3. x.v \in 0 .. FoRange[t] - 1 => x.v % FoRange[t] = x.v
      BY <1>1, <2>1
    <3>4. x.v % FoRange[t] \in Int
      BY <1>1, <2>1
    <3> QED BY <1>3, <2>1, <3>1, <3>2, <3>3, <3>4 DEF Value
  <2>3. CASE t \notin Unsigned
    BY <1>1, <1>3, <2>1, <2>3 DEF As, Value
  <2> QED BY <2>2, <2>3
<1> QED BY <1>2, <1>3

\* Comparing is the same in halves.
LEMMA CmpHalves ==
    ASSUME NEW op \in Compared, NEW a \in Int, NEW b \in Int
    PROVE  Cmp(op, a, b) = Cmp(op, 2 * a, 2 * b)
BY DEF Cmp, Compared, Ordering

\* evalBinaryExpr compares numbers that the common type holds by their values.
LEMMA NumbersCompared ==
    ASSUME FoShapes
    PROVE  FoNumbers
<1> SUFFICES ASSUME Comparable(L, R), NEW op \in Compared,
                    \A x \in {L, R} : x.t # "float64" /\ ~Fits(x, Conv[L.t][R.t]) =>
                        Conv[L.t][R.t] \in Unsigned /\ Negative(x) /\ op \in Ordering
             PROVE  EvalOp(op, L, R) = Cmp(op, Value(L), Value(R))
  BY DEF FoNumbers
<1> DEFINE t == Conv[L.t][R.t]
<1>1. L \in Numbers /\ R \in Numbers
  BY DEF FoShapes, Comparable, Conv, Nil
<1>2. /\ t \in IntType \cup {"float64"}
      /\ t = "float64" <=> L.t = "float64" \/ R.t = "float64"
      /\ t \in Unsigned => L.t \in Unsigned \/ R.t \in Unsigned
  BY Converted
<1>3. EvalOp(op, L, R) = Number(op, L, R)
  BY DEF EvalOp
<1>4. /\ As(L, t) \in Int /\ As(R, t) \in Int /\ L.v \in Int /\ R.v \in Int
      /\ L.t \in Unsigned => L.v >= 0
      /\ R.t \in Unsigned => R.v >= 0
  BY <1>1, <1>2, AsFits, NumberFacts
<1>5. /\ L.t = "float64" \/ Fits(L, t) => As(L, t) = IF t = "float64" THEN Value(L) ELSE L.v
      /\ R.t = "float64" \/ Fits(R, t) => As(R, t) = IF t = "float64" THEN Value(R) ELSE R.v
      /\ t # "float64" => Value(L) = 2 * L.v /\ Value(R) = 2 * R.v
  BY <1>1, <1>2, AsFits
<1>6. CASE op \in Ordering /\ t \in Unsigned /\ (Negative(L) \/ Negative(R))
  <2>1. Number(op, L, R) =
          ((Negative(L) /\ op \in {"lt", "lte"}) \/ (Negative(R) /\ op \in {"gt", "gte"}))
    BY <1>6 DEF Number
  <2>2. t # "float64"
    BY <1>6 DEF Unsigned
  <2>3. (L.v < 0 /\ R.v >= 0) \/ (R.v < 0 /\ L.v >= 0)
    BY <1>2, <1>4, <1>6 DEF Negative
  <2>4. Cmp(op, 2 * L.v, 2 * R.v) =
          ((Negative(L) /\ op \in {"lt", "lte"}) \/ (Negative(R) /\ op \in {"gt", "gte"}))
    BY <1>4, <1>6, <2>3 DEF Cmp, Negative, Ordering
  <2> QED BY <1>3, <1>5, <2>1, <2>2, <2>4
<1>7. CASE ~(op \in Ordering /\ t \in Unsigned /\ (Negative(L) \/ Negative(R)))
  <2>1. Number(op, L, R) = Cmp(op, As(L, t), As(R, t))
    BY <1>7 DEF Number
  <2>2. (L.t = "float64" \/ Fits(L, t)) /\ (R.t = "float64" \/ Fits(R, t))
    BY <1>7
  <2>3. CASE t = "float64"
    BY <1>3, <1>5, <2>1, <2>2, <2>3
  <2>4. CASE t # "float64"
    BY <1>3, <1>4, <1>5, <2>1, <2>2, <2>4, CmpHalves
  <2> QED BY <2>3, <2>4
<1> QED BY <1>6, <1>7

\* Of =, < and > exactly one holds of two integers.
LEMMA OneOrder ==
    ASSUME NEW a \in Int, NEW b \in Int, NEW S, S \subseteq {"eq", "lt", "gt"},
           \A op \in {"eq", "lt", "gt"} : op \in S <=> Cmp(op, a, b)
    PROVE  Cardinality(S) = 1
<1>1. /\ "eq" \in S <=> a = b
      /\ "lt" \in S <=> a < b
      /\ "gt" \in S <=> a > b
  BY DEF Cmp
<1>2. S = {"lt"} \/ S = {"eq"} \/ S = {"gt"}
  <2>1. CASE a < b
    <3>1. "lt" \in S /\ "eq" \notin S /\ "gt" \notin S
      BY <1>1, <2>1
    <3>2. \A x \in S : x = "lt"
      BY <3>1
    <3> QED BY <3>1, <3>2
  <2>2. CASE a = b
    <3>1. "eq" \in S /\ "lt" \notin S /\ "gt" \notin S
      BY <1>1, <2>2
    <3>2. \A x \in S : x = "eq"
      BY <3>1
    <3> QED BY <3>1, <3>2
  <2>3. CASE a > b
    <3>1. "gt" \in S /\ "eq" \notin S /\ "lt" \notin S
      BY <1>1, <2>3
    <3>2. \A x \in S : x = "gt"
      BY <3>1
    <3> QED BY <3>1, <3>2
  <2> QED BY <2>1, <2>2, <2>3
<1> QED BY <1>2, FS_Singleton, Zenon

\* Numbers that can be compared and are not negative are ordered by
\* evalBinaryExpr; of others it finds no operator true.
LEMMA NumbersOrdered ==
    ASSUME FoShapes
    PROVE  FoTrichotomy
<1> SUFFICES ASSUME L.t \in IntType \cup {"float64"}, ~Negative(L), ~Negative(R)
             PROVE  IF Comparable(L, R)
                    THEN /\ Cardinality({op \in {"eq", "lt", "gt"} : EvalOp(op, L, R)}) = 1
                         /\ EvalOp("neq", L, R) = ~EvalOp("eq", L, R)
                         /\ EvalOp("lte", L, R) = ~EvalOp("gt", L, R)
                         /\ EvalOp("gte", L, R) = ~EvalOp("lt", L, R)
                    ELSE \A op \in Compared : ~EvalOp(op, L, R)
  BY DEF FoTrichotomy
<1>1. L \in Numbers /\ R \in Numbers
  BY DEF FoShapes, IntType, Nil
<1>2. CASE Comparable(L, R)
  <2> DEFINE t == Conv[L.t][R.t]
             S == {op \in {"eq", "lt", "gt"} : EvalOp(op, L, R)}
  <2>1. \A op \in Compared : EvalOp(op, L, R) = Cmp(op, As(L, t), As(R, t))
    BY <1>2 DEF EvalOp, Number
  <2>2. As(L, t) \in Int /\ As(R, t) \in Int
    BY <1>1, <1>2, Converted, AsFits
  <2>3. Cardinality(S) = 1
    <3> HIDE DEF t
    <3>1. \A op \in {"eq", "lt", "gt"} : op \in S <=> Cmp(op, As(L, t), As(R, t))
      BY <2>1 DEF Compared, Ordering
    <3> QED BY <2>2, <3>1, OneOrder
  <2>4. /\ EvalOp("neq", L, R) = ~EvalOp("eq", L, R)
        /\ EvalOp("lte", L, R) = ~EvalOp("gt", L, R)
        /\ EvalOp("gte", L, R) = ~EvalOp("lt", L, R)
    <3> HIDE DEF t
    <3>1. /\ EvalOp("eq", L, R) = (As(L, t) = As(R, t)) /\ EvalOp("neq", L, R) = (As(L, t) # As(R, t))
          /\ EvalOp("lt", L, R) = (As(L, t) < As(R, t)) /\ EvalOp("lte", L, R) = (As(L, t) <= As(R, t))
          /\ EvalOp("gt", L, R) = (As(L, t) > As(R, t)) /\ EvalOp("gte", L, R) = (As(L, t) >= As(R, t))
      BY <2>1 DEF Compared, Ordering, Cmp
    <3>2. /\ (As(L, t) <= As(R, t)) = ~(As(L, t) > As(R, t))
          /\ (As(L, t) >= As(R, t)) = ~(As(L, t) < As(R, t))
      BY <2>2
    <3> QED BY <3>1, <3>2, Zenon
  <2> QED BY <1>2, <2>3, <2>4
<1>3. CASE ~Comparable(L, R)
  <2>1. L.t # "string" /\ L.t # "[]string"
    BY DEF IntType
  <2>2. \A op \in Compared : EvalOp(op, L, R) = FALSE
    BY <1>3, <2>1 DEF EvalOp, Otherwise
  <2> QED BY <1>3, <2>2
<1> QED BY <1>2, <1>3

\* Lower case keeps the length and the place of each character, and makes no
\* wildcard of one.
LEMMA LowerFacts ==
    ASSUME NEW s \in Seq(OneByte \cup {"*", "?"})
    PROVE  /\ Lower(s) \in Seq(OneByte \cup {"*", "?"})
           /\ DOMAIN Lower(s) = DOMAIN s /\ Len(Lower(s)) = Len(s)
           /\ \A i \in DOMAIN s : Lower(s)[i] = IF s[i] = "A" THEN "a" ELSE s[i]
<1>1. "a" \in OneByte
  BY FoAssumption
<1>2. /\ DOMAIN s = 1 .. Len(s) /\ Len(s) \in Nat
      /\ \A i \in 1 .. Len(s) : s[i] \in OneByte \cup {"*", "?"}
  OBVIOUS
<1>3. Lower(s) \in [1 .. Len(s) -> OneByte \cup {"*", "?"}]
  BY <1>1, <1>2 DEF Lower
<1>4. Lower(s) \in Seq(OneByte \cup {"*", "?"}) /\ Len(Lower(s)) = Len(s)
  BY <1>2, <1>3
<1> QED BY <1>2, <1>4 DEF Lower

\* A string that lies in another does in lower case.
LEMMA LiesLower ==
    ASSUME NEW s \in Seq(OneByte \cup {"*", "?"}), NEW x \in Seq(OneByte \cup {"*", "?"}), NEW k,
           LiesAt(s, x, k)
    PROVE  LiesAt(Lower(s), Lower(x), k)
<1>1. /\ DOMAIN s = 1 .. Len(s) /\ Len(s) \in Nat /\ DOMAIN x = 1 .. Len(x) /\ Len(x) \in Nat
  OBVIOUS
<1>2. /\ DOMAIN Lower(x) = DOMAIN x /\ Len(Lower(x)) = Len(x) /\ Len(Lower(s)) = Len(s)
      /\ \A i \in DOMAIN s : Lower(s)[i] = IF s[i] = "A" THEN "a" ELSE s[i]
      /\ \A i \in DOMAIN x : Lower(x)[i] = IF x[i] = "A" THEN "a" ELSE x[i]
  BY LowerFacts
<1>3. k \in 0 .. Len(s) - Len(x) /\ \A i \in DOMAIN x : s[k + i] = x[i]
  BY DEF LiesAt
<1>4. \A i \in DOMAIN x : k + i \in DOMAIN s
  BY <1>1, <1>3
<1>5. \A i \in DOMAIN x : Lower(s)[k + i] = Lower(x)[i]
  BY <1>2, <1>3, <1>4
<1> QED BY <1>2, <1>3, <1>5 DEF LiesAt

\* The alignment of a pattern with a text is one in lower case too.
LEMMA GlobLower ==
    ASSUME NEW s \in Seq(OneByte), NEW x \in Seq(OneByte \cup {"*", "?"}), Glob(x, s)
    PROVE  Glob(Lower(x), Lower(s))
<1>1. PICK f \in [1 .. Len(x) + 1 -> Starts(s)] :
          f[1] = 1 /\ f[Len(x) + 1] = Len(s) + 1 /\ \A i \in DOMAIN x : Stands(x, s, f, i)
  BY DEF Glob
<1>2. /\ DOMAIN s = 1 .. Len(s) /\ Len(s) \in Nat /\ DOMAIN x = 1 .. Len(x) /\ Len(x) \in Nat
      /\ s \in Seq(OneByte \cup {"*", "?"})
  OBVIOUS
<1>3. /\ DOMAIN Lower(x) = DOMAIN x /\ Len(Lower(x)) = Len(x)
      /\ DOMAIN Lower(s) = DOMAIN s /\ Len(Lower(s)) = Len(s)
      /\ \A i \in DOMAIN s : Lower(s)[i] = IF s[i] = "A" THEN "a" ELSE s[i]
      /\ \A i \in DOMAIN x : Lower(x)[i] = IF x[i] = "A" THEN "a" ELSE x[i]
  BY <1>2, LowerFacts
<1>4. \A i \in DOMAIN s : /\ s[i] # Cont /\ RuneSize(s, i) = 1
                          /\ Lower(s)[i] # Cont /\ RuneSize(Lower(s), i) = 1
  <2>1. \A c \in OneByte : c # Cont /\ WcWidth[c] = 1
    BY WcAssumption DEF OneByte
  <2>2. "a" \in OneByte
    BY FoAssumption
  <2>3. \A i \in DOMAIN s : s[i] \in OneByte /\ Lower(s)[i] \in OneByte
    BY <1>2, <1>3, <2>2
  <2> QED BY <2>1, <2>3 DEF RuneSize
<1>5. Starts(Lower(s)) = Starts(s)
  BY <1>3, <1>4 DEF Starts
<1>6. ASSUME NEW i \in DOMAIN x
      PROVE  Stands(Lower(x), Lower(s), f, i)
  <2>1. Stands(x, s, f, i)
    BY <1>1
  <2>2. x[i] = "*" <=> Lower(x)[i] = "*"
    BY <1>3
  <2>3. f[i] \in DOMAIN s \cup {Len(s) + 1}
    BY <1>1, <1>2 DEF Starts
  <2>4. CASE x[i] = "*"
    BY <2>1, <2>2, <2>4 DEF Stands
  <2>5. CASE x[i] # "*"
    <3>1. f[i] <= Len(s) /\ f[i + 1] = f[i] + RuneSize(s, f[i]) /\ x[i] \in {"?", s[f[i]]}
      BY <2>1, <2>5 DEF Stands
    <3>2. f[i] \in DOMAIN s
      BY <1>2, <2>3, <3>1
    <3>3. Lower(x)[i] \in {"?", Lower(s)[f[i]]}
      BY <1>3, <3>1, <3>2
    <3>4. RuneSize(Lower(s), f[i]) = RuneSize(s, f[i])
      BY <1>4, <3>2
    <3> QED BY <1>3, <2>2, <2>5, <3>1, <3>3, <3>4 DEF Stands
  <2> QED BY <2>4, <2>5
<1> QED BY <1>1, <1>3, <1>5, <1>6 DEF Glob

\* So every operator on strings that holds does in lower case.
LEMMA OfLower ==
    ASSUME NEW op \in {"eq", "in", "contains", "startswith", "endswith", "matches"},
           NEW s \in Seq(OneByte), NEW x \in Seq(OneByte \cup {"*", "?"}), Of(op, s, x)
    PROVE  Of(op, Lower(s), Lower(x))
<1>1. s \in Seq(OneByte \cup {"*", "?"})
  OBVIOUS
<1>2. Len(Lower(x)) = Len(x) /\ Len(Lower(s)) = Len(s)
  BY <1>1, LowerFacts
<1>3. CASE op \in {"eq", "in"}
  BY <1>3 DEF Of
<1>4. CASE op = "contains"
  BY <1>1, <1>2, <1>4, LiesLower DEF Of, Contains
<1>5. CASE op = "startswith"
  BY <1>1, <1>5, LiesLower DEF Of, HasPrefix
<1>6. CASE op = "endswith"
  BY <1>1, <1>2, <1>6, LiesLower DEF Of, HasSuffix
<1>7. CASE op = "matches"
  BY <1>7, GlobLower DEF Of
<1> QED BY <1>3, <1>4, <1>5, <1>6, <1>7

\* Where an operator of evalBinaryExpr holds of strings or lists, so does the one
\* that ignores case.
LEMMA FoldHolds ==
    ASSUME FoShapes
    PROVE  FoFold
<1> SUFFICES ASSUME L.t \in {"string", "[]string"}, NEW op \in DOMAIN Plain,
                    EvalOp(Plain[op], L, R) = TRUE,
                    ~(L.t = "[]string" /\ R.t = "string" /\ op = "icontains")
             PROVE  EvalOp(op, L, R) = TRUE
  BY DEF FoFold
<1> DEFINE p == Plain[op]
           Char == OneByte \cup {"*", "?"}
<1>1. /\ (op = "ieq" /\ p = "eq") \/ (op \in Textual /\ p \in Textual) \/ (op \in Member /\ p \in Member)
      /\ p \in {"eq", "in", "contains", "startswith", "endswith", "matches"}
      /\ p \notin DOMAIN Plain /\ op # "eq" /\ op # "neq"
  <2>1. CASE op = "ieq"
    BY <2>1 DEF Plain, Textual, Member
  <2>2. CASE op = "iin"
    BY <2>2 DEF Plain, Textual, Member
  <2>3. CASE op \in {"icontains", "istartswith", "iendswith", "imatches"}
    BY <2>3 DEF Plain, Textual, Member
  <2>4. op \in {"ieq", "icontains", "iin", "istartswith", "iendswith", "imatches"}
    BY DEF Plain
  <2> QED BY <2>1, <2>2, <2>3, <2>4
<1>2. ~Comparable(L, R)
  BY DEF Comparable, Conv
<1>3. /\ L.t = "string" => L.v \in Seq(OneByte)
      /\ L.t = "[]string" => L.v \in Seq(Seq(OneByte))
      /\ R.t \in {"string", "[]string"}
      /\ R.t = "string" => R.v \in Seq(Char)
      /\ R.t = "[]string" => R.v \in Seq(Seq(OneByte))
  BY DEF FoShapes, Nil, Numbers, IntType
<1>4. /\ L.t = "[]string" => \A s \in ItemsOf(L.v) : s \in Seq(OneByte)
      /\ R.t = "[]string" => \A x \in ItemsOf(R.v) : x \in Seq(Char)
  <2>1. \A s \in Seq(OneByte) : s \in Seq(Char)
    OBVIOUS
  <2> QED BY <1>3, <2>1 DEF ItemsOf
<1>5. ASSUME NEW s \in Seq(OneByte), NEW x \in Seq(Char), Applies(p, s, x)
      PROVE  Applies(op, s, x)
  BY <1>1, <1>5, OfLower DEF Applies
<1> HIDE DEF p, Char
<1>6. CASE L.t = "string"
  <2>1. /\ EvalOp(p, L, R) = StringOp(p, L, R)
        /\ EvalOp(op, L, R) = StringOp(op, L, R)
    BY <1>1, <1>2, <1>6 DEF EvalOp
  <2>2. StringOp(p, L, R)
    BY <2>1 DEF p
  <2>3. p \in {"eq", "ieq"} <=> op \in {"eq", "ieq"}
    BY <1>1 DEF Textual, Member
  <2>4. p \in Member <=> op \in Member
    BY <1>1 DEF Textual, Member
  <2>5. StringOp(op, L, R)
    <3>1. CASE p \in {"eq", "ieq"}
      BY <1>3, <1>5, <1>6, <2>2, <2>3, <3>1 DEF StringOp
    <3>2. CASE p \notin {"eq", "ieq"} /\ (p \in Member \/ R.t # "string")
      <4>1. R.t = "[]string" /\ \E x \in ItemsOf(R.v) : Applies(p, L.v, x)
        BY <2>2, <3>2 DEF StringOp
      <4>2. \E x \in ItemsOf(R.v) : Applies(op, L.v, x)
        BY <1>3, <1>4, <1>5, <1>6, <4>1
      <4> QED BY <2>3, <2>4, <3>2, <4>1, <4>2 DEF StringOp
    <3>3. CASE p \notin {"eq", "ieq"} /\ ~(p \in Member \/ R.t # "string")
      <4>1. Applies(p, L.v, R.v)
        BY <2>2, <3>3 DEF StringOp
      <4>2. Applies(op, L.v, R.v)
        BY <1>3, <1>5, <1>6, <3>3, <4>1
      <4> QED BY <2>3, <2>4, <3>3, <4>2 DEF StringOp
    <3> QED BY <3>1, <3>2, <3>3
  <2>6. StringOp(op, L, R) \in BOOLEAN
    BY <2>5 DEF StringOp, Applies
  <2> QED BY <2>1, <2>5, <2>6
<1>7. CASE L.t = "[]string"
  <2>1. op # "ieq"
    <3>1. SUFFICES ASSUME op = "ieq"
                   PROVE  FALSE
      OBVIOUS
    <3>2. p = "eq"
      BY <3>1 DEF p, Plain
    <3>3. EvalOp("eq", L, R) = FALSE
      BY <1>2, <1>7 DEF EvalOp, Otherwise, Textual, Member, Compared
    <3> QED BY <3>2, <3>3 DEF p
  <2>2. /\ EvalOp(p, L, R) = ListOp(p, L, R)
        /\ EvalOp(op, L, R) = ListOp(op, L, R)
    BY <1>1, <1>2, <1>7, <2>1 DEF EvalOp
  <2>3. ListOp(p, L, R)
    BY <2>2 DEF p
  <2>4. CASE R.t = "[]string"
    <3>1. p # "iin"
      BY <1>1 DEF Plain
    <3>2. \E s \in ItemsOf(L.v), x \in ItemsOf(R.v) : Applies(p, s, x)
      BY <2>3, <2>4, <3>1 DEF ListOp
    <3>3. \E s \in ItemsOf(L.v), x \in ItemsOf(R.v) : Applies(op, s, x)
      BY <1>4, <1>5, <1>7, <2>4, <3>2
    <3>4. ListOp(op, L, R) = TRUE
      BY <2>4, <3>3 DEF ListOp
    <3> QED BY <2>2, <3>4
  <2>5. CASE R.t = "string"
    <3>1. p \in {"contains", "in", "iin"} /\ \E s \in ItemsOf(L.v), x \in {R.v} : Applies(p, s, x)
      BY <2>3, <2>5 DEF ListOp
    <3>2. op = "iin"
      BY <1>7, <2>5, <3>1 DEF p, Plain
    <3>3. \E s \in ItemsOf(L.v), x \in {R.v} : Applies(op, s, x)
      BY <1>3, <1>4, <1>5, <1>7, <2>5, <3>1
    <3>4. ListOp(op, L, R) = TRUE
      BY <2>5, <3>2, <3>3 DEF ListOp
    <3> QED BY <2>2, <3>4
  <2> QED BY <1>3, <2>4, <2>5
<1> QED BY <1>6, <1>7

\* A list of operands holds what one of its elements does.
LEMMA AnyHolds ==
    ASSUME FoShapes
    PROVE  FoAny
<1> SUFFICES ASSUME R.t = "[]string", NEW op \in Textual \cup Member,
                    L.t = "[]string" /\ op = "iin" => <<>> \notin ItemsOf(L.v)
             PROVE  EvalOp(op, L, R) =
                      IF L.t = "string" THEN \E x \in ItemsOf(R.v) : EvalOp(op, L, Items(<<x>>))
                      ELSE \E s \in ItemsOf(L.v) : EvalOp(op, Text(s), R)
  BY DEF FoAny
<1>1. op # "eq" /\ op # "ieq"
  BY DEF Textual, Member
<1>2. L.t \in {"string", "[]string"}
  BY DEF FoShapes, Nil, Numbers, IntType
<1>3. ASSUME NEW l, NEW r, l.t = "string", r.t = "[]string"
      PROVE  EvalOp(op, l, r) = (\E x \in ItemsOf(r.v) : Applies(op, l.v, x))
  <2>1. EvalOp(op, l, r) = StringOp(op, l, r)
    BY <1>3 DEF EvalOp, Comparable, Conv
  <2>2. StringOp(op, l, r) = (\E x \in ItemsOf(r.v) : Applies(op, l.v, x))
    BY <1>1, <1>3 DEF StringOp
  <2> QED BY <2>1, <2>2
<1>4. CASE L.t = "string"
  <2>1. ASSUME NEW x
        PROVE  EvalOp(op, L, Items(<<x>>)) = Applies(op, L.v, x)
    <3>1. ItemsOf(Items(<<x>>).v) = {x} /\ Items(<<x>>).t = "[]string"
      BY DEF ItemsOf, Items
    <3>2. EvalOp(op, L, Items(<<x>>)) = (\E y \in ItemsOf(Items(<<x>>).v) : Applies(op, L.v, y))
      BY <1>3, <1>4, <3>1
    <3>3. Applies(op, L.v, x) \in BOOLEAN
      <4>1. \A o \in {"in", "contains", "startswith", "endswith", "matches"} : \A t, y : Of(o, t, y) \in BOOLEAN
        <5> SUFFICES ASSUME NEW o \in {"in", "contains", "startswith", "endswith", "matches"}, NEW t, NEW y
                     PROVE  Of(o, t, y) \in BOOLEAN
          OBVIOUS
        <5>1. CASE o = "in"
          BY <5>1 DEF Of
        <5>2. CASE o = "contains"
          BY <5>2 DEF Of, Contains
        <5>3. CASE o = "startswith"
          BY <5>3 DEF Of, HasPrefix, LiesAt
        <5>4. CASE o = "endswith"
          BY <5>4 DEF Of, HasSuffix, LiesAt
        <5>5. CASE o = "matches"
          BY <5>5 DEF Of, Glob
        <5> QED BY <5>1, <5>2, <5>3, <5>4, <5>5
      <4>2. CASE op \in DOMAIN Plain
        <5>1. Plain[op] \in {"in", "contains", "startswith", "endswith", "matches"}
          BY <1>1, <4>2 DEF Plain
        <5> QED BY <4>1, <4>2, <5>1 DEF Applies
      <4>3. CASE op \notin DOMAIN Plain
        <5>1. op \in {"in", "contains", "startswith", "endswith", "matches"}
          BY <4>3 DEF Plain, Textual, Member
        <5> QED BY <4>1, <4>3, <5>1 DEF Applies
      <4> QED BY <4>2, <4>3
    <3> QED BY <3>1, <3>2, <3>3
  <2>2. EvalOp(op, L, R) = (\E x \in ItemsOf(R.v) : Applies(op, L.v, x))
    BY <1>3, <1>4
  <2> QED BY <1>4, <2>1, <2>2
<1>5. CASE L.t = "[]string"
  <2>1. ASSUME NEW s
        PROVE  EvalOp(op, Text(s), R) = (\E x \in ItemsOf(R.v) : Applies(op, s, x))
    <3>1. Text(s).t = "string" /\ Text(s).v = s
      BY DEF Text
    <3> QED BY <1>3, <3>1
  <2>2. EvalOp(op, L, R) = ListOp(op, L, R)
    BY <1>1, <1>5 DEF EvalOp, Comparable, Conv
  <2>3. ListOp(op, L, R) = \E s \in ItemsOf(L.v) : \E x \in ItemsOf(R.v) : Applies(op, s, x)
    BY <1>5 DEF ListOp
  <2> QED BY <1>5, <2>1, <2>2, <2>3
<1> QED BY <1>2, <1>4, <1>5

\* The strings in lower case.
Lowers(S) == {Lower(s) : s \in S}

\* A list has at most as many different elements as places.
LEMMA ItemsFinite ==
    ASSUME NEW S, NEW l \in Seq(S)
    PROVE  /\ IsFiniteSet(ItemsOf(l)) /\ Cardinality(ItemsOf(l)) \in Nat
           /\ Len(l) \in Nat /\ Cardinality(ItemsOf(l)) <= Len(l)
<1>1. DOMAIN l = 1 .. Len(l) /\ Len(l) \in Nat
  OBVIOUS
<1>2. IsFiniteSet(DOMAIN l) /\ Cardinality(DOMAIN l) = Len(l)
  <2>1. IsFiniteSet(1 .. Len(l)) /\ Cardinality(1 .. Len(l)) = IF 1 > Len(l) THEN 0 ELSE Len(l) - 1 + 1
    BY <1>1, FS_Interval
  <2>2. Cardinality(1 .. Len(l)) = Len(l)
    BY <1>1, <2>1
  <2> QED BY <1>1, <2>1, <2>2
<1>3. l \in Surjection(DOMAIN l, ItemsOf(l))
  <2>1. l \in [DOMAIN l -> ItemsOf(l)]
    BY <1>1 DEF ItemsOf
  <2> QED BY <2>1 DEF Surjection, ItemsOf
<1>4. IsFiniteSet(ItemsOf(l)) /\ Cardinality(ItemsOf(l)) <= Cardinality(DOMAIN l)
  BY <1>2, <1>3, FS_Surjection
<1>5. Cardinality(ItemsOf(l)) \in Nat
  BY <1>4, FS_CardinalityType
<1> QED BY <1>1, <1>2, <1>4, <1>5

\* There are at most as many strings in lower case as strings, and as many only
\* if no two differ in case alone.
LEMMA LowersFinite ==
    ASSUME NEW S, IsFiniteSet(S)
    PROVE  /\ IsFiniteSet(Lowers(S)) /\ Cardinality(Lowers(S)) <= Cardinality(S)
           /\ Cardinality(Lowers(S)) = Cardinality(S) <=>
                \A s, u \in S : Lower(s) = Lower(u) => s = u
<1> DEFINE f == [s \in S |-> Lower(s)]
<1>1. f \in Surjection(S, Lowers(S))
  BY DEF Surjection, Lowers
<1>2. /\ IsFiniteSet(Lowers(S)) /\ Cardinality(Lowers(S)) <= Cardinality(S)
      /\ Cardinality(Lowers(S)) = Cardinality(S) <=> f \in Injection(S, Lowers(S))
  BY <1>1, FS_Surjection
<1>3. f \in Injection(S, Lowers(S)) <=> \A s, u \in S : Lower(s) = Lower(u) => s = u
  <2>1. f \in [S -> Lowers(S)] /\ \A s \in S : f[s] = Lower(s)
    BY DEF Lowers
  <2> HIDE DEF f
  <2>2. f \in Injection(S, Lowers(S)) <=> \A s, u \in S : f[s] = f[u] => s = u
    BY <2>1 DEF Injection, IsInjective
  <2> QED BY <2>1, <2>2
<1> QED BY <1>2, <1>3

\* A part of a set of at most n has n elements if it is the set, and that has n.
LEMMA AllCommon ==
    ASSUME NEW n \in Nat, NEW C, NEW D, IsFiniteSet(D), C \subseteq D, Cardinality(D) <= n
    PROVE  Cardinality(C) = n <=> C = D /\ Cardinality(D) = n
<1>1. /\ Cardinality(C) <= Cardinality(D)
      /\ Cardinality(D) = Cardinality(C) => D = C
      /\ IsFiniteSet(C)
  BY FS_Subset
<1>2. Cardinality(C) \in Nat /\ Cardinality(D) \in Nat
  BY <1>1, FS_CardinalityType
<1>3. Cardinality(C) = n => Cardinality(D) = Cardinality(C)
  BY <1>1, <1>2
<1> QED BY <1>1, <1>3

\* IntersectionStrings gives as many strings as the right list has elements
\* when all of these are on the left and different.
LEMMA IntersectsHolds ==
    ASSUME FoShapes
    PROVE  FoIntersects
<1> DEFINE A == ItemsOf(L.v)
           B == ItemsOf(R.v)
<1> SUFFICES ASSUME L.t = "[]string", R.t = "[]string"
             PROVE  /\ EvalOp("intersects", L, R) = (B \subseteq A /\ Cardinality(B) = Len(R.v))
                    /\ Cardinality(Lowers(A)) = Cardinality(A) =>
                         EvalOp("iintersects", L, R) =
                           (Lowers(B) \subseteq Lowers(A) /\ Cardinality(Lowers(B)) = Len(R.v))
  BY DEF FoIntersects, CaseApart, Lowers
<1>1. L.v \in Seq(Seq(OneByte)) /\ R.v \in Seq(Seq(OneByte))
  BY DEF FoShapes, Nil, Numbers, IntType
<1>2. /\ IsFiniteSet(A) /\ IsFiniteSet(B) /\ Cardinality(B) <= Len(R.v)
      /\ Cardinality(B) \in Nat /\ Len(R.v) \in Nat
  BY <1>1, ItemsFinite
<1>3. /\ EvalOp("intersects", L, R) = (Cardinality(Common(L, R, FALSE)) = Len(R.v))
      /\ EvalOp("iintersects", L, R) = (Cardinality(Common(L, R, TRUE)) = Len(R.v))
  BY DEF EvalOp, Intersects, Comparable, Conv, Textual, Member, Compared, Ordering
<1>4. Common(L, R, FALSE) = A \cap B
  BY DEF Common
<1>5. Common(L, R, TRUE) = {s \in A : Lower(s) \in Lowers(B)}
  BY DEF Common, Lowers
<1> HIDE DEF A, B
<1>6. Cardinality(A \cap B) = Len(R.v) <=> B \subseteq A /\ Cardinality(B) = Len(R.v)
  <2>1. Cardinality(A \cap B) = Len(R.v) <=> A \cap B = B /\ Cardinality(B) = Len(R.v)
    <3> DEFINE C == A \cap B
    <3>1. C \subseteq B
      OBVIOUS
    <3> HIDE DEF C
    <3>2. Cardinality(C) = Len(R.v) <=> C = B /\ Cardinality(B) = Len(R.v)
      BY <1>2, <3>1, AllCommon
    <3> QED BY <3>2 DEF C
  <2> QED BY <2>1
<1>7. ASSUME Cardinality(Lowers(A)) = Cardinality(A)
      PROVE  Cardinality({s \in A : Lower(s) \in Lowers(B)}) = Len(R.v) <=>
               Lowers(B) \subseteq Lowers(A) /\ Cardinality(Lowers(B)) = Len(R.v)
  <2> DEFINE C == {s \in A : Lower(s) \in Lowers(B)}
  <2>1. \A s, u \in A : Lower(s) = Lower(u) => s = u
    BY <1>2, <1>7, LowersFinite
  <2>2. IsFiniteSet(C)
    BY <1>2, FS_Subset
  <2>3. Cardinality(Lowers(C)) = Cardinality(C)
    <3>1. \A s, u \in C : Lower(s) = Lower(u) => s = u
      BY <2>1
    <3> HIDE DEF C
    <3> QED BY <2>2, <3>1, LowersFinite
  <2>4. Lowers(C) = Lowers(A) \cap Lowers(B)
    BY DEF Lowers
  <2>5. /\ IsFiniteSet(Lowers(B)) /\ Cardinality(Lowers(B)) <= Cardinality(B)
        /\ Cardinality(Lowers(B)) \in Nat
    BY <1>2, LowersFinite, FS_CardinalityType
  <2>6. Cardinality(Lowers(B)) <= Len(R.v)
    BY <1>2, <2>5
  <2>7. Cardinality(Lowers(A) \cap Lowers(B)) = Len(R.v) <=>
          Lowers(A) \cap Lowers(B) = Lowers(B) /\ Cardinality(Lowers(B)) = Len(R.v)
    <3>1. Lowers(A) \cap Lowers(B) \subseteq Lowers(B)
      OBVIOUS
    <3> QED BY <1>2, <2>5, <2>6, <3>1, AllCommon
  <2> HIDE DEF C
  <2>8. Cardinality(C) = Len(R.v) <=> Lowers(B) \subseteq Lowers(A) /\ Cardinality(Lowers(B)) = Len(R.v)
    BY <2>3, <2>4, <2>7
  <2> QED BY <2>8 DEF C
<1> QED BY <1>3, <1>4, <1>5, <1>6, <1>7

\* The operators on operands of any length, of any widths and with any rounding.
LEMMA OperandsHold ==
    ASSUME FoShapes
    PROVE  FoNumbers /\ FoTrichotomy /\ FoFold /\ FoAny /\ FoIntersects
BY NumbersCompared, NumbersOrdered, FoldHolds, AnyHolds, IntersectsHolds

\* The operands of every state have these shapes.
THEOREM FoShaped == FoSpec => []FoShapes
<1>1. FoInit => FoShapes
  BY DEF FoInit, FoShapes, L, R
<1>2. FoShapes /\ [FoNext]_operands => FoShapes'
  <2>1. FoShapes /\ UNCHANGED operands => FoShapes'
    BY DEF FoShapes, L, R
  <2> QED BY <2>1, FoShapesStep
<1> QED BY <1>1, <1>2, PTL DEF FoSpec

\* What evalBinaryExpr makes of two operands, for any strings, patterns and lists,
\* any widths of the integer types and any rounding to float64, and what
\* wildcard.Match makes of any pattern and text: numbers are compared by their
\* values and ordered, operators that ignore case hold wherever the others do, a
\* list has what one of its elements has, and intersects finds all elements, for
\* the operands of which the parts of FoOperators claim it.
THEOREM OperatorsDecide == FoSpec /\ WcSpec => []FoOperators
<1>1. FoShapes /\ WcDecides => FoOperators
  BY OperandsHold DEF FoOperators
<1> QED BY <1>1, FoShaped, WildcardsDecide, PTL
=============================================================================
