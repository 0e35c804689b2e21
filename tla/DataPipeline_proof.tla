-------------------------- MODULE DataPipeline_proof --------------------------
(***************************************************************************)
(* However runs overlap, fail or are killed, the table has no hole before  *)
(* its newest candle.                                                      *)
(*                                                                         *)
(* The table only grows, so what one run has established of the candles    *)
(* before its cursor (RunIsDue) no other run can disturb; and a run asks   *)
(* for rows from its cursor on, oldest first.                              *)
(***************************************************************************)
EXTENDS DataPipeline, TLAPS, FiniteSetTheorems, WellFoundedInduction

USE CandlesAssumption, DataPipelineAssumption DEF CandlesAssumption, DataPipelineAssumption, Pairs

(* Candles are counted from 1.                                             *)
LEMMA CandlesAreNumbers == \A k \in Traded : k \in Nat /\ k >= 1
OBVIOUS

(* The next cursor is one after a row of the page.                         *)
LEMMA NextCursorIsNext ==
    ASSUME NEW S \in SUBSET Nat, NEW c \in Nat, GoesOn(S, c)
    PROVE  \E k \in S : IsNewest(k, S) /\ NextCursor(S) = k + 1
<1>1. \E k \in S : IsNewest(k, S)
  BY DEF GoesOn
<1>2. IsNewest(CHOOSE k \in S : IsNewest(k, S), S)
  BY <1>1
<1> QED BY <1>2 DEF NextCursor, IsNewest

(* The invariant holds of an empty table.                                  *)
LEMMA InitInv == Init => PipelineInv
BY DEF Init, PipelineInv, TypeOK, Times, NothingElseLost, PassedOver, RunIsDue

(* The locals of a call that has ended are of their types.                 *)
LEMMA LeaveType ==
    ASSUME TypeOK, NEW r \in Runs, Leave(r)
    PROVE  /\ began' \in [Runs -> Times] /\ cursor' \in [Runs -> Nat]
           /\ page' \in [Runs -> SUBSET Traded]
           /\ more' \in [Runs -> BOOLEAN] /\ proper' \in [Runs -> BOOLEAN]
<1>1. began' \in [Runs -> Times] /\ cursor' \in [Runs -> Nat]
  BY DEF TypeOK, Times, Leave
<1>2. page' \in [Runs -> SUBSET Traded]
  BY DEF TypeOK, Leave
<1>3. more' \in [Runs -> BOOLEAN] /\ proper' \in [Runs -> BOOLEAN]
  BY DEF TypeOK, Leave
<1> QED BY <1>1, <1>2, <1>3

(* Every step keeps the types.                                             *)
LEMMA StepType == PipelineInv /\ [Next]_vars => TypeOK'
<1> SUFFICES ASSUME TypeOK, \A r \in Runs : RunIsDue(r), [Next]_vars PROVE TypeOK'
  BY DEF PipelineInv
<1>1. CASE Tick
  BY <1>1 DEF Tick, callVars, TypeOK, Times
<1>2. ASSUME NEW r \in Runs, Start(r) \/ NextPair(r)
      PROVE  TypeOK'
  <2>1. pair' \in [Runs -> 0..NPairs]
    <3>1. pair \in [Runs -> 0..NPairs] /\ pair[r] \in 0..NPairs
      BY DEF TypeOK
    <3>2. CASE Start(r)
      BY <3>1, <3>2 DEF Start
    <3>3. CASE NextPair(r)
      <4>1. pair[r] + 1 \in 0..NPairs
        BY <3>1, <3>3 DEF NextPair
      <4> QED BY <3>1, <3>3, <4>1 DEF NextPair
    <3> QED BY <1>2, <3>2, <3>3
  <2>2. step' \in [Runs -> {"idle", "next", "latest", "fetch", "store"}]
    BY <1>2 DEF Start, NextPair, Goto, TypeOK
  <2>3. UNCHANGED <<now, table, callVars, aborted, missed, faults>>
    BY <1>2 DEF Start, NextPair
  <2> QED BY <2>1, <2>2, <2>3 DEF callVars, TypeOK, Times
<1>3. ASSUME NEW r \in Runs, End(r) \/ Killed(r)
      PROVE  TypeOK'
  <2>1. Exit(r) /\ faults' \in 0..MaxFaults
    BY <1>3 DEF End, Killed, Fault, TypeOK
  <2> QED BY <2>1, LeaveType DEF Exit, Goto, TypeOK, Times
<1>4. ASSUME NEW r \in Runs, GetLatest(r)
      PROVE  TypeOK'
  <2>1. cursor' \in [Runs -> Nat]
    <3>1. pair[r] \in Pairs /\ cursor \in [Runs -> Nat]
      BY <1>4 DEF TypeOK, GetLatest, RunIsDue
    <3>4. table[pair[r]] \subseteq Traded
      BY <3>1 DEF TypeOK
    <3>2. CASE cursor' = [cursor EXCEPT ![r] = 1]
      BY <3>1, <3>2
    <3>3. ASSUME NEW k \in table[pair[r]], cursor' = [cursor EXCEPT ![r] = k + 1]
          PROVE  cursor' \in [Runs -> Nat]
      <4>1. k \in Nat
        BY <3>3, <3>4, CandlesAreNumbers
      <4> QED BY <3>1, <3>3, <4>1
    <3> QED BY <1>4, <3>2, <3>3 DEF GetLatest
  <2> QED BY <1>4, <2>1 DEF GetLatest, Goto, TypeOK, Times
<1>5. ASSUME NEW r \in Runs, GetLatestRaises(r) \/ FetchRaises(r) \/ StoreRaises(r)
      PROVE  TypeOK'
  <2>1. PairFails(r) /\ faults' \in 0..MaxFaults
    BY <1>5 DEF GetLatestRaises, FetchRaises, StoreRaises, Fault, TypeOK
  <2>2. aborted' = aborted \/ aborted' = [aborted EXCEPT ![r] = TRUE]
    BY <1>5 DEF GetLatestRaises, FetchRaises, StoreRaises
  <2>3. aborted' \in [Runs -> BOOLEAN]
    BY <2>2 DEF TypeOK
  <2>4. step' \in [Runs -> {"idle", "next", "latest", "fetch", "store"}]
    BY <2>1 DEF PairFails, Goto, TypeOK
  <2>5. Leave(r) /\ UNCHANGED <<now, table, pair, missed>>
    BY <2>1 DEF PairFails
  <2>6. /\ began' \in [Runs -> Times] /\ cursor' \in [Runs -> Nat]
        /\ page' \in [Runs -> SUBSET Traded]
        /\ more' \in [Runs -> BOOLEAN] /\ proper' \in [Runs -> BOOLEAN]
    BY <2>5, LeaveType
  <2>7. now' \in Times /\ faults' \in 0..MaxFaults
    BY <2>1, <2>5 DEF TypeOK
  <2> QED BY <2>3, <2>4, <2>5, <2>6, <2>7 DEF TypeOK
<1>6. ASSUME NEW r \in Runs, NEW S \in Pages(cursor[r], now), Fetch(r, S)
      PROVE  TypeOK'
  <2>1. S \in SUBSET Traded /\ S \in SUBSET Nat /\ cursor \in [Runs -> Nat]
    BY DEF Pages, Rows, TypeOK
  <2>2. cursor' \in [Runs -> Nat]
    <3>1. CASE GoesOn(S, cursor[r])
      <4>1. NextCursor(S) \in Nat
        BY <2>1, <3>1, NextCursorIsNext
      <4> QED BY <1>6, <2>1, <3>1, <4>1 DEF Fetch
    <3>2. CASE ~GoesOn(S, cursor[r])
      BY <1>6, <2>1, <3>2 DEF Fetch
    <3> QED BY <3>1, <3>2
  <2>3. more' \in [Runs -> BOOLEAN]
    BY <1>6 DEF Fetch, GoesOn, TypeOK
  <2>4. faults' \in 0..MaxFaults
    BY <1>6 DEF Fetch, Fault, TypeOK
  <2>5. proper' \in [Runs -> BOOLEAN]
    BY <1>6 DEF Fetch, GoodPage, TypeOK
  <2> QED BY <1>6, <2>1, <2>2, <2>3, <2>4, <2>5 DEF Fetch, Goto, TypeOK, Times
<1>7. ASSUME NEW r \in Runs, Store(r)
      PROVE  TypeOK'
  <2>1. /\ page[r] \subseteq Traded
        /\ table \in [Pairs -> SUBSET Traded] /\ missed \in [Pairs -> SUBSET Traded]
    BY DEF TypeOK
  <2>2. {k \in page[r] : Closed(k, now)} \subseteq Traded
    BY <2>1
  <2>3. {k \in page[r] : more[r] /\ ~Closed(k, now)} \subseteq Traded
    BY <2>1
  <2>4. table' \in [Pairs -> SUBSET Traded] /\ missed' \in [Pairs -> SUBSET Traded]
    BY <1>7, <2>1, <2>2, <2>3 DEF Store
  <2>5. step' \in [Runs -> {"idle", "next", "latest", "fetch", "store"}]
    BY <1>7 DEF Store, EndPage, Goto, TypeOK
  <2>6. /\ began' \in [Runs -> Times] /\ cursor' \in [Runs -> Nat]
        /\ page' \in [Runs -> SUBSET Traded]
        /\ more' \in [Runs -> BOOLEAN] /\ proper' \in [Runs -> BOOLEAN]
    <3>1. CASE Leave(r)
      BY <3>1, LeaveType
    <3>2. CASE ~Leave(r)
      BY <1>7, <3>2 DEF Store, EndPage, TypeOK
    <3> QED BY <3>1, <3>2
  <2> QED BY <1>7, <2>4, <2>5, <2>6 DEF Store, TypeOK
<1>8. CASE UNCHANGED vars
  BY <1>8 DEF vars, callVars, TypeOK, Times
<1> QED BY <1>1, <1>2, <1>3, <1>4, <1>5, <1>6, <1>7, <1>8 DEF Next, Proceed

(* What a step of another run, or of time, leaves of RunIsDue(q): the      *)
(* locals of q are the same and nothing becomes unstored.                  *)
LEMMA Undisturbed ==
    ASSUME NEW q \in Runs, RunIsDue(q), step'[q] = step[q], pair'[q] = pair[q],
           cursor'[q] = cursor[q], page'[q] = page[q], more'[q] = more[q],
           \A p \in Pairs : \A k : Unstored(p, k)' => Unstored(p, k)
    PROVE  RunIsDue(q)'
BY DEF RunIsDue

(* A run that is between two pairs owes nothing.                           *)
LEMMA NothingDue ==
    ASSUME NEW q \in Runs, step'[q] \in {"idle", "next"}
    PROVE  RunIsDue(q)'
BY DEF RunIsDue

(* Every step keeps the invariant.                                         *)
LEMMA StepInv == PipelineInv /\ [Next]_vars => PipelineInv'
<1> SUFFICES ASSUME PipelineInv, [Next]_vars PROVE PipelineInv'
  OBVIOUS
<1>1. TypeOK /\ TypeOK' /\ NothingElseLost /\ \A q \in Runs : RunIsDue(q)
  BY StepType DEF PipelineInv
<1>2. CASE Tick \/ UNCHANGED vars
  <2>1. UNCHANGED <<table, missed, step, pair, cursor, page, more>>
    BY <1>2 DEF Tick, vars, callVars
  <2>2. NothingElseLost' /\ \A p \in Pairs : \A k : Unstored(p, k)' => Unstored(p, k)
    BY <1>1, <2>1 DEF NothingElseLost, PassedOver, Unstored
  <2> QED BY <1>1, <2>1, <2>2, Undisturbed DEF PipelineInv
<1>3. ASSUME NEW r \in Runs,
             \/ Start(r) \/ NextPair(r) \/ End(r) \/ Killed(r) \/ GetLatest(r)
             \/ GetLatestRaises(r) \/ FetchRaises(r) \/ StoreRaises(r)
             \/ \E S \in Pages(cursor[r], now) : Fetch(r, S)
      PROVE  PipelineInv'
  <2>1. UNCHANGED <<table, missed>>
    BY <1>3 DEF Start, NextPair, End, Killed, Exit, GetLatest, GetLatestRaises, FetchRaises,
       StoreRaises, PairFails, Fetch
  <2>2. NothingElseLost' /\ \A p \in Pairs : \A k : Unstored(p, k)' => Unstored(p, k)
    BY <1>1, <2>1 DEF NothingElseLost, PassedOver, Unstored
  <2>3. ASSUME NEW q \in Runs
        PROVE  RunIsDue(q)'
    <3>1. CASE q # r
      <4>1. /\ step'[q] = step[q] /\ pair'[q] = pair[q] /\ cursor'[q] = cursor[q]
            /\ page'[q] = page[q] /\ more'[q] = more[q]
        BY <1>1, <1>3, <3>1 DEF TypeOK, Start, NextPair, End, Killed, Exit, Leave,
           GetLatest, GetLatestRaises, FetchRaises, StoreRaises, PairFails, Fetch, Goto, callVars
      <4> QED BY <1>1, <2>2, <4>1, Undisturbed
    <3>2. CASE q = r /\ (Start(r) \/ End(r) \/ Killed(r) \/ GetLatestRaises(r) \/ FetchRaises(r)
                         \/ StoreRaises(r))
      <4>1. step'[q] \in {"idle", "next"}
        BY <1>1, <3>2 DEF TypeOK, Start, End, Killed, Exit, GetLatestRaises, FetchRaises,
           StoreRaises, PairFails, Goto
      <4> QED BY <4>1, NothingDue
    <3>3. CASE q = r /\ NextPair(r)
      <4>1. step'[q] = "latest" /\ pair'[q] \in Pairs
        BY <1>1, <3>3 DEF TypeOK, NextPair, Goto
      <4> QED BY <4>1 DEF RunIsDue
    <3>4. CASE q = r /\ GetLatest(r)
      <4>1. /\ step'[r] = "fetch" /\ pair'[r] = pair[r] /\ pair[r] \in Pairs
        BY <1>1, <3>4 DEF TypeOK, GetLatest, Goto, RunIsDue
      <4>2. \A k \in 1..(cursor'[r] - 1) : ~Unstored(pair[r], k)
        <5>1. cursor \in [Runs -> Nat] /\ table[pair[r]] \subseteq Traded
          BY <1>1, <4>1 DEF TypeOK
        <5>2. CASE cursor' = [cursor EXCEPT ![r] = 1]
          BY <5>1, <5>2
        <5>3. ASSUME NEW m \in table[pair[r]], cursor' = [cursor EXCEPT ![r] = m + 1]
              PROVE  \A k \in 1..(cursor'[r] - 1) : ~Unstored(pair[r], k)
          <6>1. m \in Nat
            BY <5>1, <5>3, CandlesAreNumbers
          <6>2. cursor'[r] = m + 1
            BY <5>1, <5>3, <6>1
          <6> QED BY <1>1, <4>1, <5>1, <5>3, <6>1, <6>2
             DEF NothingElseLost, PassedOver, Unstored
        <5> QED BY <3>4, <5>2, <5>3 DEF GetLatest
      <4>3. \A k \in 1..(cursor'[r] - 1) : ~Unstored(pair[r], k)'
        BY <2>2, <4>1, <4>2
      <4> QED BY <3>4, <4>1, <4>3 DEF RunIsDue
    <3>5. ASSUME q = r, NEW S \in Pages(cursor[r], now), Fetch(r, S)
          PROVE  RunIsDue(q)'
      <4>1. /\ step[r] = "fetch" /\ step'[r] = "store" /\ page'[r] = S
            /\ pair'[r] = pair[r] /\ pair[r] \in Pairs
            /\ more'[r] = GoesOn(S, cursor[r])
            /\ cursor'[r] = IF GoesOn(S, cursor[r]) THEN NextCursor(S) ELSE cursor[r]
        BY <1>1, <3>5 DEF TypeOK, Fetch, Goto, RunIsDue
      <4>2. S \in SUBSET Nat /\ S \subseteq Rows(now) /\ cursor[r] \in Nat /\ now \in Nat
        BY <1>1 DEF Pages, Rows, TypeOK, Times
      <4>3. ASSUME NEW i \in S, NEW k \in 1..i, Unstored(pair[r], k)
            PROVE  k \in S
        <5>1. k >= cursor[r]
          BY <1>1, <4>1, <4>2, <4>3 DEF RunIsDue
        <5>2. k \in Rows(now)
          BY <4>2, <4>3 DEF Rows, Unstored
        <5> QED BY <4>2, <4>3, <5>1, <5>2 DEF Pages
      <4>4. ASSUME GoesOn(S, cursor[r]), NEW k \in 1..(cursor'[r] - 1), Unstored(pair[r], k)
            PROVE  k \in S
        <5>1. PICK i \in S : NextCursor(S) = i + 1
          BY <4>2, <4>4, NextCursorIsNext
        <5> QED BY <4>1, <4>2, <4>3, <4>4, <5>1
      <4> QED BY <2>2, <3>5, <4>1, <4>3, <4>4 DEF RunIsDue
    <3> QED BY <1>3, <3>1, <3>2, <3>3, <3>4, <3>5
  <2> QED BY <1>1, <2>2, <2>3 DEF PipelineInv
<1>4. ASSUME NEW r \in Runs, Store(r)
      PROVE  PipelineInv'
  <2> DEFINE C == {k \in page[r] : Closed(k, now)}
  <2>0. PICK p \in Pairs : p = pair[r]
    BY <1>1, <1>4 DEF RunIsDue, Store
  <2>1. /\ page[r] \subseteq Traded /\ Traded \subseteq Nat /\ now \in Nat
        /\ table \in [Pairs -> SUBSET Traded] /\ missed \in [Pairs -> SUBSET Traded]
        /\ step[r] = "store" /\ cursor[r] \in Nat
    BY <1>1, <1>4 DEF RunIsDue, TypeOK, Times, Store
  <2>2. /\ table'[p] = table[p] \cup C
        /\ missed'[p] = missed[p] \cup {k \in page[r] : more[r] /\ ~Closed(k, now)}
        /\ \A o \in Pairs \ {p} : table'[o] = table[o] /\ missed'[o] = missed[o]
    BY <1>4, <2>0, <2>1 DEF Store
  <2>3. /\ \A i \in page[r] : \A k \in 1..i : Unstored(p, k) => k \in page[r]
        /\ more[r] => \A k \in 1..(cursor[r] - 1) : Unstored(p, k) => k \in page[r]
    BY <1>1, <2>0, <2>1 DEF RunIsDue
  <2> HIDE DEF C
  <2>4. \A o \in Pairs : \A k : Unstored(o, k)' => Unstored(o, k)
    BY <2>2 DEF Unstored
  <2>5. NothingElseLost'
    <3>1. SUFFICES ASSUME NEW o \in Pairs, NEW m \in table'[o], NEW k \in Traded, k < m
                   PROVE  k \in table'[o] \cup missed'[o]
      BY DEF NothingElseLost, PassedOver
    <3>2. CASE m \in table[o]
      BY <1>1, <2>2, <3>1, <3>2 DEF NothingElseLost, PassedOver
    <3>3. CASE m \notin table[o]
      <4>1. o = p /\ m \in page[r] /\ m <= now
        BY <2>2, <3>1, <3>3 DEF C, Closed
      <4>2. CASE Unstored(p, k)
        <5>0. /\ k \in Nat /\ k >= 1 /\ m \in Nat
          BY <2>1, <3>1, <4>1, CandlesAreNumbers
        <5>1. k \in 1..m
          BY <3>1, <5>0
        <5>2. k \in page[r]
          BY <2>3, <4>1, <4>2, <5>1
        <5>3. k \in C
          BY <2>1, <3>1, <4>1, <5>0, <5>2 DEF C, Closed
        <5> QED BY <2>2, <4>1, <5>3
      <4>3. CASE ~Unstored(p, k)
        BY <2>2, <3>1, <4>1, <4>3 DEF Unstored
      <4> QED BY <4>2, <4>3
    <3> QED BY <3>2, <3>3
  <2>6. ASSUME NEW q \in Runs
        PROVE  RunIsDue(q)'
    <3>1. CASE q # r
      <4>1. /\ step'[q] = step[q] /\ pair'[q] = pair[q] /\ cursor'[q] = cursor[q]
            /\ page'[q] = page[q] /\ more'[q] = more[q]
        BY <1>1, <1>4, <3>1 DEF TypeOK, Store, EndPage, Leave, Goto
      <4> QED BY <1>1, <2>4, <4>1, Undisturbed
    <3>2. CASE q = r /\ ~more[r]
      <4>1. step'[q] = "next"
        BY <1>1, <1>4, <3>2 DEF TypeOK, Store, EndPage, Goto
      <4> QED BY <4>1, NothingDue
    <3>3. CASE q = r /\ more[r]
      <4>1. step'[r] = "fetch" /\ pair'[r] = p /\ cursor'[r] = cursor[r]
        BY <1>1, <1>4, <2>0, <3>3 DEF TypeOK, Store, EndPage, Goto
      <4>2. ASSUME NEW k \in 1..(cursor[r] - 1), Unstored(p, k)'
            PROVE  FALSE
        <5>1. k \in page[r]
          BY <2>1, <2>3, <2>4, <3>3, <4>2
        <5>2. CASE Closed(k, now)
          BY <2>2, <4>2, <5>1, <5>2 DEF Unstored, C
        <5>3. CASE ~Closed(k, now)
          BY <2>2, <3>3, <4>2, <5>1, <5>3 DEF Unstored
        <5> QED BY <5>2, <5>3
      <4>3. \A k \in 1..(cursor'[r] - 1) : ~Unstored(p, k)'
        BY <4>1, <4>2
      <4> QED BY <3>3, <4>1, <4>3 DEF RunIsDue
    <3> QED BY <3>1, <3>2, <3>3
  <2> QED BY <1>1, <2>5, <2>6 DEF PipelineInv
<1> QED BY <1>2, <1>3, <1>4 DEF Next, Proceed

(* The inductive invariant of the pipeline, whatever runs do.              *)
THEOREM PipelineInvariant == Spec => []PipelineInv
<1> QED BY InitInv, StepInv, PTL DEF Spec

(* No run, however it overlaps with others, fails or ends, leaves a hole   *)
(* that later runs, which resume from the newest candle, would not see;    *)
(* but for candles that were forming at the end of a page that went on.    *)
THEOREM TableHasNoOtherHole == Spec => []NothingElseLost
<1>1. PipelineInv => NothingElseLost
  BY DEF PipelineInv
<1> QED BY <1>1, PipelineInvariant, PTL

-----------------------------------------------------------------------------
(* A page with a row has a newest one.                                     *)
LEMMA NewestExists ==
    ASSUME NEW S, S \subseteq Traded, S # {}
    PROVE  \E k \in S : IsNewest(k, S)
<1> DEFINE Later == {MaxTime - k : k \in S}
<1>1. \A k \in S : k \in Nat /\ k <= MaxTime
  OBVIOUS
<1>2. Later \subseteq Nat /\ Later # {}
  BY <1>1
<1>3. PICK d \in Later : \A e \in Later : ~ (<<e, d>> \in OpToRel(<, Nat))
  BY <1>2, WFMin, NatLessThanWellFounded
<1>4. PICK k \in S : d = MaxTime - k
  BY <1>3
<1>5. ASSUME NEW i \in S
      PROVE  i <= k
  <2>1. /\ MaxTime - i \in Later /\ MaxTime - i \in Nat
        /\ MaxTime - k \in Later /\ MaxTime - k \in Nat
    BY <1>1, <1>2, <1>4, <1>5
  <2>2. ~ (MaxTime - i < MaxTime - k)
    BY <1>3, <1>4, <2>1 DEF OpToRel
  <2> QED BY <1>1, <1>4, <1>5, <2>2
<1> QED BY <1>4, <1>5 DEF IsNewest

(* A page that is as full as the exchange makes them is followed by        *)
(* another, if the exchange fills its pages.                               *)
LEMMA FullPageGoesOn ==
    ASSUME FillsPages, NEW c \in Nat, NEW S \in SUBSET Traded, Cardinality(S) = Cap,
           \A k \in S : k >= c
    PROVE  GoesOn(S, c)
<1>1. S # {}
  BY FS_EmptySet DEF FillsPages
<1>2. PICK k \in S : IsNewest(k, S)
  BY <1>1, NewestExists
<1>3. k + 1 > c
  BY CandlesAreNumbers
<1> QED BY <1>2, <1>3 DEF GoesOn, FillsPages

(* The table only grows, so no candle gets newer than it, and time passes. *)
LEMMA OnlyMoreIsStored ==
    ASSUME TypeOK, \A r \in Runs : RunIsDue(r), [Next]_vars
    PROVE  now' >= now /\ \A p \in Pairs : \A k : Newer(p, k)' => Newer(p, k)
<1>1. now' >= now
  BY DEF TypeOK, Times, Next, Proceed, Tick, Start, NextPair, End, Killed, Exit, GetLatest,
     GetLatestRaises, Fetch, FetchRaises, Store, StoreRaises, PairFails, vars
<1>2. \A p \in Pairs : table[p] \subseteq table'[p]
  <2>1. CASE \E r \in Runs : Store(r)
    BY <2>1 DEF Store, TypeOK
  <2>2. CASE ~ \E r \in Runs : Store(r)
    BY <2>2 DEF Next, Proceed, Tick, Start, NextPair, End, Killed, Exit, GetLatest,
       GetLatestRaises, Fetch, FetchRaises, StoreRaises, PairFails, vars
  <2> QED BY <2>1, <2>2
<1> QED BY <1>1, <1>2 DEF Newer, PassedOver

(* What a step leaves of PageIsEnough(q) if it is not one of q.            *)
LEMMA EnoughUndisturbed ==
    ASSUME TypeOK, TypeOK', NEW q \in Runs, PageIsEnough(q), RunIsDue(q),
           step'[q] = step[q], pair'[q] = pair[q], began'[q] = began[q],
           cursor'[q] = cursor[q], page'[q] = page[q], more'[q] = more[q],
           proper'[q] = proper[q], now' >= now,
           \A p \in Pairs : \A k : Newer(p, k)' => Newer(p, k)
    PROVE  PageIsEnough(q)'
<1>1. began'[q] <= now'
  BY DEF PageIsEnough, TypeOK, Times
<1> QED BY <1>1 DEF PageIsEnough, RunIsDue, FillsPages

(* A run between two pairs, or about to ask for the newest candle, has no  *)
(* page to answer for.                                                     *)
LEMMA NoPageYet ==
    ASSUME NEW q \in Runs, step'[q] \notin {"fetch", "store"}, began'[q] <= now'
    PROVE  PageIsEnough(q)'
BY DEF PageIsEnough

(* It asks for all that is newer than the newest stored candle.            *)
LEMMA LatestIsEnough ==
    ASSUME PipelineInv, TypeOK', NEW r \in Runs, GetLatest(r)
    PROVE  PageIsEnough(r)'
<1>1. TypeOK /\ pair[r] \in Pairs
  BY DEF PipelineInv, RunIsDue, GetLatest
<1>2. /\ step'[r] = "fetch" /\ pair'[r] = pair[r] /\ began'[r] = now /\ now' = now
      /\ now \in Nat /\ UNCHANGED table /\ cursor \in [Runs -> Nat]
      /\ table[pair[r]] \subseteq Traded
  BY <1>1 DEF TypeOK, Times, GetLatest, Goto
<1>3. SUFFICES ASSUME NEW k \in 1..now, k < cursor'[r], Newer(pair[r], k)
               PROVE  FALSE
  BY <1>2 DEF PageIsEnough, Newer, PassedOver
<1>4. CASE cursor' = [cursor EXCEPT ![r] = 1]
  BY <1>2, <1>3, <1>4
<1>5. ASSUME NEW m \in table[pair[r]], cursor' = [cursor EXCEPT ![r] = m + 1]
      PROVE  FALSE
  <2>1. m \in Nat /\ cursor'[r] = m + 1
    BY <1>2, <1>5, CandlesAreNumbers
  <2>2. k = m \/ k < m
    BY <1>3, <2>1
  <2> QED BY <1>3, <1>5, <2>2 DEF Newer, PassedOver
<1> QED BY <1>4, <1>5 DEF GetLatest

(* A page has all that is newer up to the next cursor; the last one, if it *)
(* is in order, has all there is.                                          *)
LEMMA FetchIsEnough ==
    ASSUME PipelineInv, TypeOK', NEW r \in Runs, PageIsEnough(r),
           NEW S \in Pages(cursor[r], now), Fetch(r, S)
    PROVE  PageIsEnough(r)'
<1>1. TypeOK
  BY DEF PipelineInv
<1>2. /\ step[r] = "fetch" /\ step'[r] = "store" /\ page'[r] = S /\ pair'[r] = pair[r]
      /\ more'[r] = GoesOn(S, cursor[r]) /\ proper'[r] = GoodPage(S, cursor[r], now)
      /\ cursor'[r] = IF GoesOn(S, cursor[r]) THEN NextCursor(S) ELSE cursor[r]
      /\ UNCHANGED <<now, table, began>>
  BY <1>1 DEF TypeOK, Fetch, Goto
<1>3. /\ S \in SUBSET Traded /\ S \in SUBSET Nat /\ cursor[r] \in Nat /\ now \in Nat
      /\ began[r] \in Nat /\ began[r] <= now
  BY <1>1 DEF Pages, Rows, TypeOK, Times, PageIsEnough
<1>4. SUFFICES ASSUME NEW k \in 1..began[r], Newer(pair[r], k),
                      IF GoesOn(S, cursor[r]) THEN k < NextCursor(S)
                      ELSE FillsPages /\ GoodPage(S, cursor[r], now)
               PROVE  k \in S
  BY <1>2, <1>3 DEF PageIsEnough, Newer, PassedOver, FillsPages
<1>5. k \in Rows(now) /\ k >= cursor[r]
  BY <1>2, <1>3, <1>4 DEF PageIsEnough, Rows, Newer
<1>6. CASE GoesOn(S, cursor[r])
  <2>1. PICK i \in S : NextCursor(S) = i + 1
    BY <1>3, <1>6, NextCursorIsNext
  <2>2. k <= i
    BY <1>3, <1>4, <1>6, <2>1
  <2> QED BY <1>5, <2>1, <2>2 DEF Pages
<1>7. CASE ~GoesOn(S, cursor[r])
  <2>1. FillsPages /\ GoodPage(S, cursor[r], now)
    BY <1>4, <1>7
  <2>2. {i \in Rows(now) : i >= cursor[r]} \subseteq S
    BY <1>3, <1>7, <2>1, FullPageGoesOn DEF GoodPage
  <2> QED BY <1>5, <2>2
<1> QED BY <1>6, <1>7

(* Of what is newer, a page leaves nothing before the cursor.              *)
LEMMA StoreIsEnough ==
    ASSUME PipelineInv, TypeOK', NEW r \in Runs, PageIsEnough(r), Store(r)
    PROVE  PageIsEnough(r)'
<1>1. TypeOK /\ pair[r] \in Pairs
  BY DEF PipelineInv, RunIsDue, Store
<1>2. /\ step[r] = "store" /\ pair'[r] = pair[r] /\ now' = now /\ now \in Nat
      /\ began[r] \in Nat /\ began[r] <= now
      /\ table'[pair[r]] = table[pair[r]] \cup {k \in page[r] : Closed(k, now)}
  BY <1>1 DEF TypeOK, Times, Store, PageIsEnough
<1>3. CASE ~more[r]
  <2>1. step'[r] = "next" /\ began'[r] = 0
    BY <1>1, <1>3 DEF TypeOK, Store, EndPage, Leave, Goto
  <2> QED BY <1>2, <2>1, NoPageYet
<1>4. CASE more[r]
  <2>1. step'[r] = "fetch" /\ began'[r] = began[r] /\ cursor'[r] = cursor[r]
    BY <1>1, <1>4 DEF TypeOK, Store, EndPage, Goto
  <2>2. ASSUME NEW k \in 1..began[r], k < cursor[r], Newer(pair[r], k)'
        PROVE  FALSE
    <3>1. Newer(pair[r], k)
      BY <1>2, <2>2 DEF Newer, PassedOver
    <3>2. k \in page[r]
      BY <1>2, <1>4, <2>2, <3>1 DEF PageIsEnough
    <3>3. Closed(k, now)
      BY <1>2 DEF Closed
    <3> QED BY <1>2, <2>2, <3>2, <3>3 DEF Newer
  <2> QED BY <1>2, <2>1, <2>2 DEF PageIsEnough
<1> QED BY <1>1, <1>3, <1>4 DEF TypeOK

(* Every step keeps the strengthened invariant.                            *)
LEMMA SuccessStep == SuccessInv /\ [Next]_vars => SuccessInv'
<1> SUFFICES ASSUME SuccessInv, [Next]_vars PROVE SuccessInv'
  OBVIOUS
<1>1. PipelineInv /\ PipelineInv' /\ \A q \in Runs : PageIsEnough(q)
  BY StepInv DEF SuccessInv
<1>2. TypeOK /\ TypeOK' /\ \A q \in Runs : RunIsDue(q)
  BY <1>1 DEF PipelineInv
<1>3. /\ now' >= now /\ now \in Nat /\ now' \in Nat
      /\ \A p \in Pairs : \A k : Newer(p, k)' => Newer(p, k)
  BY <1>2, OnlyMoreIsStored DEF TypeOK, Times
<1>4. CASE Tick \/ UNCHANGED vars
  <2>1. UNCHANGED <<step, pair, began, cursor, page, more, proper>>
    BY <1>4 DEF Tick, vars, callVars
  <2>2. ASSUME NEW q \in Runs
        PROVE  PageIsEnough(q)'
    BY <1>1, <1>2, <1>3, <2>1, EnoughUndisturbed
  <2> QED BY <1>1, <2>2 DEF SuccessInv
<1>5. ASSUME NEW r \in Runs,
             \/ Start(r) \/ NextPair(r) \/ End(r) \/ Killed(r) \/ GetLatest(r)
             \/ GetLatestRaises(r) \/ FetchRaises(r) \/ StoreRaises(r) \/ Store(r)
             \/ \E S \in Pages(cursor[r], now) : Fetch(r, S)
      PROVE  SuccessInv'
  <2>1. ASSUME NEW q \in Runs
        PROVE  PageIsEnough(q)'
    <3>1. CASE q # r
      <4>0. step'[q] = step[q] /\ pair'[q] = pair[q]
        BY <1>2, <1>5, <3>1 DEF TypeOK, Start, NextPair, End, Killed, Exit, GetLatest,
           GetLatestRaises, FetchRaises, StoreRaises, PairFails, Fetch, Store, EndPage, Goto
      <4>1. /\ began'[q] = began[q] /\ cursor'[q] = cursor[q] /\ page'[q] = page[q]
            /\ more'[q] = more[q] /\ proper'[q] = proper[q]
        <5>1. CASE Start(r) \/ NextPair(r)
          BY <5>1 DEF Start, NextPair, callVars
        <5>2. CASE End(r) \/ Killed(r) \/ GetLatestRaises(r) \/ FetchRaises(r) \/ StoreRaises(r)
          <6>1. Leave(r)
            BY <5>2 DEF End, Killed, Exit, GetLatestRaises, FetchRaises, StoreRaises, PairFails
          <6> QED BY <1>2, <3>1, <6>1 DEF TypeOK, Leave
        <5>3. CASE GetLatest(r) \/ \E S \in Pages(cursor[r], now) : Fetch(r, S)
          BY <1>2, <3>1, <5>3 DEF TypeOK, GetLatest, Fetch
        <5>4. CASE Store(r)
          BY <1>2, <3>1, <5>4 DEF TypeOK, Store, EndPage, Leave
        <5> QED BY <1>5, <5>1, <5>2, <5>3, <5>4
      <4> QED BY <1>1, <1>2, <1>3, <4>0, <4>1, EnoughUndisturbed
    <3>2. CASE q = r /\ (Start(r) \/ NextPair(r) \/ End(r) \/ Killed(r) \/ GetLatestRaises(r)
                         \/ FetchRaises(r) \/ StoreRaises(r))
      <4>1. step'[r] \in {"idle", "next", "latest"}
        BY <1>2, <3>2 DEF TypeOK, Start, NextPair, End, Killed, Exit, GetLatestRaises,
           FetchRaises, StoreRaises, PairFails, Goto
      <4>2. began'[r] = began[r] \/ began'[r] = 0
        BY <1>2, <3>2 DEF TypeOK, Start, NextPair, End, Killed, Exit, Leave, GetLatestRaises,
           FetchRaises, StoreRaises, PairFails, callVars
      <4>3. began[r] \in Nat /\ began[r] <= now
        BY <1>1, <1>2 DEF PageIsEnough, TypeOK, Times
      <4> QED BY <1>3, <3>2, <4>1, <4>2, <4>3, NoPageYet
    <3>3. CASE q = r /\ GetLatest(r)
      BY <1>1, <1>2, <3>3, LatestIsEnough
    <3>4. CASE q = r /\ \E S \in Pages(cursor[r], now) : Fetch(r, S)
      BY <1>1, <1>2, <3>4, FetchIsEnough
    <3>5. CASE q = r /\ Store(r)
      BY <1>1, <1>2, <3>5, StoreIsEnough
    <3> QED BY <1>5, <3>1, <3>2, <3>3, <3>4, <3>5
  <2> QED BY <1>1, <2>1 DEF SuccessInv
<1> QED BY <1>4, <1>5 DEF Next, Proceed

(* A step that reports success settles whatever had closed.                *)
LEMMA SuccessMeansComplete ==
    ASSUME SuccessInv, [Next]_vars, NEW r \in Runs, FillsPages, proper[r], step[r] = "store",
           step'[r] = "next", ~aborted'[r], NEW k \in Traded, k <= began[r]
    PROVE  Settled(pair[r], k)'
<1>1. TypeOK /\ RunIsDue(r) /\ PageIsEnough(r) /\ NothingElseLost'
  BY StepInv DEF SuccessInv, PipelineInv
<1>2. /\ pair[r] \in Pairs /\ k \in Nat /\ k >= 1 /\ now \in Nat
      /\ began[r] \in Nat /\ began[r] <= now /\ aborted[r] \in BOOLEAN
  BY <1>1, CandlesAreNumbers DEF RunIsDue, PageIsEnough, TypeOK, Times
<1>3. PICK o \in Runs :
         \/ Start(o) \/ NextPair(o) \/ End(o) \/ Killed(o) \/ GetLatest(o)
         \/ GetLatestRaises(o) \/ FetchRaises(o) \/ StoreRaises(o) \/ Store(o)
         \/ \E S \in Pages(cursor[o], now) : Fetch(o, S)
  BY DEF Next, Proceed, Tick, vars
<1>4. o = r
  BY <1>1, <1>3 DEF TypeOK, Start, NextPair, End, Killed, Exit, GetLatest, GetLatestRaises,
     FetchRaises, StoreRaises, PairFails, Fetch, Store, EndPage, Goto
<1>5. Store(r) /\ ~more[r] /\ pair'[r] = pair[r]
  BY <1>1, <1>3, <1>4 DEF TypeOK, Start, NextPair, End, Killed, Exit, GetLatest, GetLatestRaises,
     FetchRaises, StoreRaises, PairFails, Fetch, Store, EndPage, Goto
<1>6. table'[pair[r]] = table[pair[r]] \cup {i \in page[r] : Closed(i, now)}
  BY <1>1, <1>2, <1>5 DEF Store, TypeOK
<1>7. CASE Newer(pair[r], k)
  <2>1. k \in page[r] /\ Closed(k, now)
    BY <1>1, <1>2, <1>5, <1>7 DEF PageIsEnough, Closed
  <2> QED BY <1>5, <1>6, <2>1 DEF Settled
<1>8. CASE ~Newer(pair[r], k)
  <2>1. k \in table'[pair[r]] \/ PassedOver(pair[r], k)'
    BY <1>5, <1>6, <1>8 DEF Newer, PassedOver
  <2> QED BY <1>1, <1>2, <1>5, <2>1 DEF Settled, NothingElseLost
<1> QED BY <1>7, <1>8

(* The invariant of a run, whatever others do: what is newer than all      *)
(* stored candles and had closed when it began is ahead of its cursor or   *)
(* in its page.                                                            *)
THEOREM SuccessInvariant == Spec => []SuccessInv
<1>1. Init => SuccessInv
  <2>1. Init => \A r \in Runs : PageIsEnough(r)
    BY DEF Init, PageIsEnough, Times
  <2> QED BY <2>1, InitInv DEF SuccessInv
<1> QED BY <1>1, SuccessStep, PTL DEF Spec

(* A run that reports success for a pair after a last answer that was in   *)
(* order has settled every candle that had closed when it began (update_   *)
(* symbol_timeframe): its own earlier answers and failures, those of other *)
(* runs and kills do not matter.                                           *)
THEOREM SuccessIsWhole == Spec => SuccessIsComplete
<1>1. SuccessInv /\ [Next]_vars =>
        [\A r \in Runs :
          FillsPages /\ proper[r] /\ step[r] = "store" /\ step'[r] = "next" /\ ~aborted'[r]
            => \A k \in Traded : k <= began[r] => Settled(pair[r], k)']_vars
  BY SuccessMeansComplete
<1> QED BY <1>1, SuccessInvariant, PTL DEF Spec, SuccessIsComplete
=============================================================================
