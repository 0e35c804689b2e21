------------------------------ MODULE Feed_proof ------------------------------
(***************************************************************************)
(* The feed keeps candles in order and, while it polls, leaves no hole.    *)
(*                                                                         *)
(* A hole could only be made where a row is appended, so the invariant     *)
(* carries through the page what polling still owes: PageIsDue says that   *)
(* every candle up to a row of the page that was not delivered yet is in   *)
(* the page, RequestIsDue that none is before the cursor of the request.   *)
(***************************************************************************)
EXTENDS Feed, TLAPS, SequenceTheorems

USE CandlesAssumption, FeedAssumption DEF CandlesAssumption, FeedAssumption

(* What _append_candle leaves: a history that ends in the new candle, and  *)
(* whose other neighbours were neighbours before.                          *)
LEMMA AppendedHistory ==
    ASSUME history \in Seq(Traded), Len(history) \in 1..MaxHistory,
           NEW k \in Traded, AppendCandle(k)
    PROVE  /\ history' \in Seq(Traded)
           /\ Len(history') \in 1..MaxHistory
           /\ Last' = k
           /\ \A i \in 1..(Len(history') - 1) :
                 \/ history'[i] = Last /\ history'[i + 1] = k
                 \/ \E j \in 1..(Len(history) - 1) :
                       history'[i] = history[j] /\ history'[i + 1] = history[j + 1]
<1> DEFINE h == Append(history, k)
           n == Len(history)
<1>1. /\ h \in Seq(Traded) /\ Len(h) = n + 1 /\ h[n + 1] = k
      /\ \A i \in 1..n : h[i] = history[i]
  OBVIOUS
<1> HIDE DEF h
<1>2. CASE n + 1 > MaxHistory
  <2>1. history' = Tail(h) /\ n = MaxHistory
    BY <1>1, <1>2 DEF AppendCandle, h, n
  <2>2. /\ Tail(h) \in Seq(Traded) /\ Len(Tail(h)) = n
        /\ \A i \in 1..n : Tail(h)[i] = h[i + 1]
    BY <1>1, HeadTailProperties
  <2>3. Last' = k
    BY <1>1, <2>1, <2>2 DEF Last
  <2>4. ASSUME NEW i \in 1..(n - 1)
        PROVE  \/ history'[i] = Last /\ history'[i + 1] = k
               \/ \E j \in 1..(Len(history) - 1) :
                     history'[i] = history[j] /\ history'[i + 1] = history[j + 1]
    <3>1. history'[i] = h[i + 1] /\ history'[i + 1] = h[i + 2]
      BY <2>1, <2>2
    <3>2. CASE i = n - 1
      BY <3>1, <3>2, <1>1 DEF Last
    <3>3. CASE i < n - 1
      <4>1. i + 1 \in 1..(Len(history) - 1)
        BY <3>3
      <4> QED BY <3>1, <4>1, <1>1
    <3> QED BY <3>2, <3>3
  <2> QED BY <2>1, <2>2, <2>3, <2>4
<1>3. CASE n + 1 <= MaxHistory
  <2>1. history' = h
    BY <1>1, <1>3 DEF AppendCandle, h, n
  <2>2. Last' = k
    BY <1>1, <2>1 DEF Last
  <2>3. ASSUME NEW i \in 1..n
        PROVE  \/ history'[i] = Last /\ history'[i + 1] = k
               \/ \E j \in 1..(Len(history) - 1) :
                     history'[i] = history[j] /\ history'[i + 1] = history[j + 1]
    <3>1. CASE i = n
      BY <2>1, <3>1, <1>1 DEF Last
    <3>2. CASE i < n
      <4>1. i \in 1..(Len(history) - 1)
        BY <3>2
      <4> QED BY <2>1, <4>1, <1>1
    <3> QED BY <3>1, <3>2
  <2> QED BY <1>1, <1>3, <2>1, <2>2, <2>3
<1> QED BY <1>2, <1>3

(* A page that goes on ends just before the next cursor.                   *)
LEMMA NextCursorIsNext ==
    ASSUME NEW S \in SUBSET Nat, NEW c \in Nat, GoesOn(S, c)
    PROVE  \E k \in S : IsNewest(k, S) /\ NextCursor(S) = k + 1
<1>1. \E k \in S : IsNewest(k, S)
  BY DEF GoesOn
<1>2. IsNewest(CHOOSE k \in S : IsNewest(k, S), S)
  BY <1>1
<1> QED BY <1>2 DEF NextCursor, IsNewest

(* The invariant holds at the start.                                       *)
LEMMA InitInv == Init => FeedInv
<1> SUFFICES ASSUME Init PROVE FeedInv
  OBVIOUS
<1>1. stored \in Traded /\ history = <<stored>>
  BY DEF Init
<1>2. history \in Seq(Traded) /\ Len(history) = 1 /\ Last = stored
  BY <1>1 DEF Last
<1>3. TypeOK
  <2>1. now \in Times /\ heard \in 0..now
        /\ stored \in Traded /\ stored <= now /\ cursor \in Nat /\ faults \in 0..MaxFaults
    BY <1>1 DEF Init, Times
  <2>2. Len(history) \in 1..MaxHistory
    BY <1>2
  <2> QED BY <1>2, <2>1, <2>2, Zenon DEF TypeOK, Init
<1> QED BY <1>2, <1>3 DEF Init, FeedInv, NothingElseMissed, PageIsDue, RequestIsDue, Times

(* Last is the newest candle of a history that has one.                    *)
LEMMA LastType == ASSUME TypeOK PROVE Last \in Traded /\ Last \in Nat
<1>1. history \in Seq(Traded) /\ Len(history) \in 1..MaxHistory
  BY DEF TypeOK
<1>2. Last \in Traded
  BY <1>1 DEF Last
<1> QED BY <1>2

(* Every step keeps the types.                                             *)
LEMMA StepType == TypeOK /\ [Next]_vars => TypeOK'
<1> SUFFICES ASSUME TypeOK, [Next]_vars PROVE TypeOK'
  OBVIOUS
<1>1. CASE Tick
  BY <1>1 DEF TypeOK, Tick, pageVars, Times, Rows
<1>2. CASE PipelineStores
  BY <1>2 DEF TypeOK, PipelineStores, pageVars, Times, Rows
<1>3. CASE StopRequested
  BY <1>3 DEF TypeOK, StopRequested, pageVars, Times, Rows
<1>4. CASE Restart
  <2>1. history' \in Seq(Traded) /\ Len(history') = 1
    <3>1. stored \in Traded /\ history' = <<stored>>
      BY <1>4 DEF TypeOK, Restart
    <3> QED BY <3>1
  <2>2. Len(history') \in 1..MaxHistory
    BY <2>1
  <2>3. /\ now' \in Times /\ heard' \in 0..now'
        /\ stored' \in Traded /\ stored' <= now' /\ cursor' \in Nat
    BY <1>4 DEF TypeOK, Restart, Times
  <2>4. page' = {} /\ missed' = {} /\ more' = FALSE /\ stop' = FALSE /\ step' = "idle"
        /\ websocket' \in BOOLEAN /\ faults' \in 0..MaxFaults
    BY <1>4 DEF TypeOK, Restart
  <2> QED BY <2>1, <2>2, <2>3, <2>4, Zenon DEF TypeOK
<1>5. CASE Stops \/ Raises \/ CallbackReturns \/ EndPage
  BY <1>5 DEF TypeOK, Stops, Raises, CallbackReturns, EndPage, worldVars, pageVars, Times, Rows
<1>6. CASE BeginPoll
  BY <1>6, LastType DEF TypeOK, BeginPoll, worldVars, Times, Rows
<1>7. ASSUME NEW S \in Pages(cursor, now), Fetch(S)
      PROVE  TypeOK'
  <2>1. S \subseteq Rows(now) /\ S \in SUBSET Nat /\ now \in Nat
    BY DEF Pages, Rows, TypeOK, Times
  <2>2. cursor' \in Nat
    <3>1. CASE GoesOn(S, cursor)
      <4>1. \E k \in S : NextCursor(S) = k + 1
        BY <2>1, <3>1, NextCursorIsNext DEF TypeOK
      <4>2. cursor' = NextCursor(S)
        BY <1>7, <3>1 DEF Fetch
      <4> QED BY <2>1, <4>1, <4>2
    <3>2. CASE ~GoesOn(S, cursor)
      BY <1>7, <3>2 DEF Fetch, TypeOK
    <3> QED BY <3>1, <3>2
  <2>3. more' \in BOOLEAN
    BY <1>7 DEF Fetch, GoesOn
  <2>4. faults' \in 0..MaxFaults
    BY <1>7 DEF Fetch, Fault, TypeOK
  <2> QED BY <1>7, <2>1, <2>2, <2>3, <2>4 DEF Fetch, TypeOK, worldVars, Times, Rows
<1>8. ASSUME NEW k \in page, LookAt(k)
      PROVE  TypeOK'
  <2>1. k \in Traded /\ TakeNext(k)
    BY <1>8 DEF TypeOK, Rows, Times, LookAt, SkipForming, SkipSeen, Deliver
  <2>2. page' \subseteq Rows(now)
    BY <2>1 DEF TakeNext, TypeOK
  <2>3. CASE SkipForming(k) \/ SkipSeen(k)
    BY <2>1, <2>2, <2>3 DEF SkipForming, SkipSeen, TakeNext, TypeOK, worldVars, Times
  <2>4. CASE Deliver(k)
    <3>1. history' \in Seq(Traded) /\ Len(history') \in 1..MaxHistory
      BY <2>1, <2>4, AppendedHistory DEF Deliver, TypeOK
    <3> QED BY <2>1, <2>2, <2>4, <3>1 DEF Deliver, TakeNext, TypeOK, worldVars, Times
  <2> QED BY <1>8, <2>3, <2>4 DEF LookAt
<1>9. ASSUME NEW S \in SUBSET Rows(now), Watch(S)
      PROVE  TypeOK'
  BY <1>9 DEF TypeOK, Watch, worldVars, Times, Rows
<1>10. CASE ReadClock
  BY <1>10 DEF TypeOK, ReadClock, worldVars, Times, Rows
<1>11. CASE UNCHANGED vars
  BY <1>11 DEF TypeOK, vars, Times, Rows
<1> QED BY <1>1, <1>2, <1>3, <1>4, <1>5, <1>6, <1>7, <1>8, <1>9, <1>10, <1>11 DEF Next, Proceed
(* A step that touches neither history nor page, and goes to a step that   *)
(* promises no more, keeps the invariant.                                  *)
LEMMA Frame ==
    ASSUME FeedInv, TypeOK', UNCHANGED <<history, missed, websocket, page, cursor, more>>,
           now' >= now, step' = step \/ step' \in {"idle", "ended"}
                        \/ (step = "callback" /\ step' = "page")
    PROVE  FeedInv'
<1>1. Last' = Last /\ Last <= now'
  BY LastType DEF FeedInv, Last, TypeOK, Times
<1>2. NothingElseMissed'
  BY DEF FeedInv, NothingElseMissed
<1>3. PageIsDue' /\ RequestIsDue'
  BY <1>1 DEF FeedInv, PageIsDue, RequestIsDue, Owed
<1> QED BY <1>1, <1>2, <1>3 DEF FeedInv

(* A look at the oldest row of the page.  A row that is still forming is   *)
(* the last of its page, and one that is delivered has nothing owed before *)
(* it, for that would be in the page too.                                  *)
LEMMA LookAtInv ==
    ASSUME FeedInv, TypeOK', NEW k \in page, LookAt(k)
    PROVE  FeedInv'
<1>1. /\ TakeNext(k) /\ TypeOK /\ k \in Traded /\ page \subseteq Traded
      /\ now \in Nat /\ cursor \in Nat
  BY DEF FeedInv, TypeOK, Times, Rows, LookAt, SkipForming, SkipSeen, Deliver
<1>2. /\ step = "page" /\ page' = page \ {k} /\ \A i \in page : k <= i
      /\ UNCHANGED <<now, websocket, cursor, more>>
  BY <1>1 DEF TakeNext, worldVars
<1>3. Last \in Nat /\ Last <= now
  BY <1>1, LastType DEF FeedInv
<1>4. CASE SkipForming(k)
  <2>1. UNCHANGED <<history, step>> /\ missed' = (IF more THEN missed \cup {k} ELSE missed)
    BY <1>4 DEF SkipForming
  <2>2. page' = {}
    <3>1. k > now /\ \A i \in page : i <= now + 1
      BY <1>1, <1>4 DEF SkipForming, Closed, TypeOK, Rows
    <3> QED BY <1>1, <1>2, <3>1
  <2>3. NothingElseMissed'
    BY <2>1, <1>2 DEF FeedInv, NothingElseMissed
  <2>4. Last' = Last
    BY <2>1 DEF Last
  <2>5. ASSUME ~websocket, more, NEW i \in 1..(cursor - 1), Owed(i)'
        PROVE  FALSE
    <3>1. Owed(i) /\ i # k
      BY <2>1, <2>4, <2>5 DEF Owed
    <3>2. i \in page
      BY <1>2, <2>5, <3>1 DEF FeedInv, PageIsDue
    <3> QED BY <1>2, <2>2, <3>1, <3>2
  <2>6. PageIsDue'
    BY <1>2, <2>2, <2>5 DEF PageIsDue
  <2>7. RequestIsDue'
    BY <1>2, <2>1 DEF RequestIsDue
  <2> QED BY <1>2, <1>3, <2>1, <2>3, <2>4, <2>6, <2>7 DEF FeedInv
<1>5. CASE SkipSeen(k)
  <2>1. UNCHANGED <<history, step, missed>> /\ k <= Last
    BY <1>5 DEF SkipSeen
  <2>2. Last' = Last /\ NothingElseMissed' /\ RequestIsDue'
    BY <2>1, <1>2 DEF FeedInv, NothingElseMissed, RequestIsDue, Last
  <2>3. \A i : Owed(i)' => Owed(i) /\ i # k
    BY <1>1, <1>3, <2>1, <2>2 DEF Owed
  <2>4. PageIsDue'
    BY <1>2, <2>1, <2>3 DEF FeedInv, PageIsDue
  <2> QED BY <1>2, <1>3, <2>1, <2>2, <2>4 DEF FeedInv
<1>6. CASE Deliver(k)
  <2>1. AppendCandle(k) /\ step' = "callback" /\ missed' = missed /\ k > Last /\ k <= now
    BY <1>6 DEF Deliver, Closed
  <2>2. /\ Last' = k
        /\ \A i \in 1..(Len(history') - 1) :
              \/ history'[i] = Last /\ history'[i + 1] = k
              \/ \E j \in 1..(Len(history) - 1) :
                    history'[i] = history[j] /\ history'[i + 1] = history[j + 1]
    <3>1. history \in Seq(Traded) /\ Len(history) \in 1..MaxHistory
      BY <1>1 DEF TypeOK
    <3> QED BY <1>1, <2>1, <3>1, AppendedHistory
  <2>3. \A i : Owed(i)' => Owed(i) /\ i > k
    <3>1. k \in Nat /\ Traded \subseteq Nat
      BY <1>1
    <3>2. SUFFICES ASSUME NEW i, Owed(i)'
                   PROVE  Owed(i) /\ i > k
      OBVIOUS
    <3>3. i \in Traded /\ i > k /\ i \notin missed
      BY <2>1, <2>2, <3>2 DEF Owed
    <3>4. i > Last
      BY <1>3, <2>1, <3>1, <3>3
    <3> QED BY <3>3, <3>4 DEF Owed
  <2>4. PageIsDue'
    BY <1>2, <2>1, <2>3 DEF FeedInv, PageIsDue
  <2>5. ~websocket => \A i \in Traded : Last < i /\ i < k => i \in missed
    <3>1. SUFFICES ASSUME ~websocket, NEW i \in Traded, Last < i, i < k, i \notin missed
                   PROVE  FALSE
      OBVIOUS
    <3>2. Owed(i) /\ i \in 1..k
      BY <1>1, <3>1 DEF Owed
    <3>3. i \in page
      BY <1>2, <3>1, <3>2 DEF FeedInv, PageIsDue
    <3> QED BY <1>1, <1>2, <3>1, <3>3
  <2>6. NothingElseMissed'
    <3>1. SUFFICES ASSUME ~websocket, NEW i \in 1..(Len(history') - 1), NEW c \in Traded,
                          history'[i] < c, c < history'[i + 1]
                   PROVE  c \in missed
      BY <1>2, <2>1 DEF NothingElseMissed
    <3>2. CASE history'[i] = Last /\ history'[i + 1] = k
      BY <2>5, <3>1, <3>2
    <3>3. ASSUME NEW j \in 1..(Len(history) - 1),
                 history'[i] = history[j], history'[i + 1] = history[j + 1]
          PROVE  c \in missed
      BY <3>1, <3>3 DEF FeedInv, NothingElseMissed
    <3> QED BY <2>2, <3>1, <3>2, <3>3
  <2> QED BY <1>2, <2>1, <2>2, <2>4, <2>6 DEF FeedInv, RequestIsDue
<1> QED BY <1>4, <1>5, <1>6 DEF LookAt

(* An answer has every row from the cursor up to its newest, so what was   *)
(* not owed before the cursor is all that can be missing.                  *)
LEMMA FetchInv ==
    ASSUME FeedInv, TypeOK', NEW S \in Pages(cursor, now), Fetch(S)
    PROVE  FeedInv'
<1>1. /\ step = "fetch" /\ step' = "page" /\ page' = S
      /\ more' = GoesOn(S, cursor)
      /\ cursor' = IF GoesOn(S, cursor) THEN NextCursor(S) ELSE cursor
      /\ UNCHANGED <<history, missed, now, websocket>>
  BY DEF Fetch, worldVars
<1>2. /\ ~websocket /\ cursor \in Nat /\ now \in Nat /\ S \subseteq Rows(now) /\ S \in SUBSET Nat
      /\ Last' = Last /\ Last <= now
  BY <1>1 DEF FeedInv, TypeOK, Times, Pages, Rows, Last
<1>3. ASSUME NEW p \in S, NEW i \in 1..p, Owed(i)
      PROVE  i \in S
  <2>1. i >= cursor
    BY <1>1, <1>2, <1>3 DEF FeedInv, RequestIsDue
  <2>2. i \in Rows(now)
    BY <1>2, <1>3 DEF Rows, Owed
  <2> QED BY <1>2, <1>3, <2>1, <2>2 DEF Pages
<1>4. ASSUME GoesOn(S, cursor), NEW i \in 1..(cursor' - 1), Owed(i)
      PROVE  i \in S
  <2>1. PICK p \in S : NextCursor(S) = p + 1
    BY <1>2, <1>4, NextCursorIsNext
  <2> QED BY <1>1, <1>2, <1>3, <1>4, <2>1
<1>5. \A i : Owed(i)' <=> Owed(i)
  BY <1>1, <1>2 DEF Owed
<1>6. PageIsDue'
  BY <1>1, <1>3, <1>4, <1>5 DEF PageIsDue
<1>7. NothingElseMissed' /\ RequestIsDue'
  BY <1>1 DEF FeedInv, NothingElseMissed, RequestIsDue
<1> QED BY <1>1, <1>2, <1>6, <1>7 DEF FeedInv

(* Every step keeps the invariant.                                         *)
LEMMA StepInv == FeedInv /\ [Next]_vars => FeedInv'
<1> SUFFICES ASSUME FeedInv, [Next]_vars PROVE FeedInv'
  OBVIOUS
<1>1. TypeOK' /\ TypeOK
  BY StepType DEF FeedInv
<1>2. CASE Tick \/ PipelineStores \/ StopRequested \/ Stops \/ Raises \/ CallbackReturns
           \/ UNCHANGED vars
  <2>1. UNCHANGED <<history, missed, websocket, page, cursor, more>>
    BY <1>2 DEF Tick, PipelineStores, StopRequested, Stops, Raises, CallbackReturns, vars,
       worldVars, pageVars
  <2>2. now' >= now
    BY <1>1, <1>2 DEF Tick, PipelineStores, StopRequested, Stops, Raises, CallbackReturns, vars,
       worldVars, TypeOK, Times
  <2>3. step' = step \/ step' \in {"idle", "ended"} \/ (step = "callback" /\ step' = "page")
    <3>1. CASE Tick \/ PipelineStores \/ StopRequested \/ UNCHANGED vars
      BY <3>1 DEF Tick, PipelineStores, StopRequested, vars
    <3>2. CASE Stops \/ Raises \/ CallbackReturns
      BY <3>2 DEF Stops, Raises, CallbackReturns
    <3> QED BY <1>2, <3>1, <3>2
  <2> QED BY <1>1, <2>1, <2>2, <2>3, Frame
<1>3. CASE Restart
  <2>1. history' = <<stored>> /\ stored <= now
        /\ UNCHANGED <<now, websocket>> /\ step' = "idle" /\ more' = FALSE
    BY <1>1, <1>3 DEF Restart, TypeOK
  <2>2. Len(history') = 1 /\ Last' = stored
    BY <2>1 DEF Last
  <2> QED BY <1>1, <2>1, <2>2 DEF FeedInv, NothingElseMissed, PageIsDue, RequestIsDue
<1>4. CASE EndPage
  <2>1. /\ step = "page" /\ page = {} /\ step' = IF more THEN "fetch" ELSE "idle"
        /\ UNCHANGED <<now, websocket, history, page, cursor, more, missed>>
    BY <1>4 DEF EndPage, worldVars, pageVars
  <2>2. Last' = Last
    BY <2>1 DEF Last
  <2>3. RequestIsDue'
    BY <2>1, <2>2 DEF FeedInv, PageIsDue, RequestIsDue, Owed
  <2> QED BY <1>1, <2>1, <2>2, <2>3 DEF FeedInv, NothingElseMissed, PageIsDue
<1>5. CASE BeginPoll
  <2>1. /\ ~websocket /\ cursor' = Last + 1 /\ step' = "fetch" /\ Last' = Last /\ Last \in Nat
        /\ UNCHANGED <<now, websocket, history, page, more, missed>>
    BY <1>1, <1>5, LastType DEF BeginPoll, worldVars, Last
  <2>2. RequestIsDue'
    BY <2>1 DEF RequestIsDue, Owed
  <2> QED BY <1>1, <2>1, <2>2 DEF FeedInv, NothingElseMissed, PageIsDue
<1>6. ASSUME NEW S \in Pages(cursor, now), Fetch(S)
      PROVE  FeedInv'
  BY <1>1, <1>6, FetchInv
<1>7. ASSUME NEW k \in page, LookAt(k)
      PROVE  FeedInv'
  BY <1>1, <1>7, LookAtInv
<1>8. CASE ReadClock \/ \E S \in SUBSET Rows(now) : Watch(S)
  <2>1. /\ websocket /\ step' \in {"page", "received"}
        /\ UNCHANGED <<now, websocket, history, more, missed>> /\ Last' = Last
    BY <1>8 DEF ReadClock, Watch, worldVars, FeedInv, Last
  <2> QED BY <1>1, <2>1 DEF FeedInv, NothingElseMissed, PageIsDue, RequestIsDue
<1> QED BY <1>2, <1>3, <1>4, <1>5, <1>6, <1>7, <1>8 DEF Next, Proceed

(* The inductive invariant of the feed holds, whatever candles    *)
(* are traded, however long the pages, and whatever answers go wrong.      *)
THEOREM FeedInvariant == Spec => []FeedInv
<1> QED BY InitInv, StepInv, PTL DEF Spec

(* Polling leaves no hole in the history a bot computes on, except for a   *)
(* candle that was forming at the end of a page with a successor.          *)
THEOREM PollingMissesNothingElse == Spec => []NothingElseMissed
<1>1. FeedInv => NothingElseMissed
  BY DEF FeedInv
<1> QED BY <1>1, FeedInvariant, PTL

(* One process delivers every candle at most once, in order and after it   *)
(* closed.                                                                 *)
THEOREM DeliveryIsInOrder == Spec => CandlesInOrder
<1>1. ASSUME FeedInv, [Next]_vars
      PROVE  [step # "callback" /\ step' = "callback" => Last' > Last /\ Closed(Last', now)]_vars
  <2>1. SUFFICES ASSUME Next, step # "callback", step' = "callback"
                 PROVE  Last' > Last /\ Closed(Last', now)
    BY <1>1
  <2>2. \E k \in page : Deliver(k)
    BY <2>1 DEF Next, Proceed, Tick, PipelineStores, StopRequested, Restart, Stops, Raises,
       LookAt, SkipForming, SkipSeen, CallbackReturns, EndPage, BeginPoll, Fetch, Watch, ReadClock
  <2>3. PICK k \in page : Deliver(k)
    BY <2>2
  <2>4. /\ history \in Seq(Traded) /\ Len(history) \in 1..MaxHistory /\ k \in Traded
    BY <1>1 DEF FeedInv, TypeOK, Rows, Times
  <2>5. Last' = k
    BY <2>3, <2>4, AppendedHistory DEF Deliver
  <2> QED BY <2>3, <2>5 DEF Deliver
<1> QED BY <1>1, FeedInvariant, PTL DEF Spec, CandlesInOrder
=============================================================================
