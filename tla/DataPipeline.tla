----------------------------- MODULE DataPipeline -----------------------------
(***************************************************************************)
(* The data pipeline (freqpanda_data/pipeline.py): a run, started by cron, *)
(* brings the table ohlcv_candles up to date for every pair of its         *)
(* configuration, over one connection.  A run may take longer than cron    *)
(* waits before it starts the next, so runs overlap; any of them may be    *)
(* killed.  A row is its candle.                                           *)
(***************************************************************************)
EXTENDS Candles

CONSTANTS
    NPairs,    \* length of config.pairs; the same candles for each
    Runs,      \* runs that can overlap
    FirstRun,  \* time when cron starts the first of them
    MaxFaults  \* bound on failed calls, bad answers and kills

ASSUME DataPipelineAssumption ==
    NPairs \in Nat /\ FirstRun \in Times /\ MaxFaults \in Nat

Pairs == 1..NPairs

VARIABLES
    now,      \* time
    table,    \* candles stored for a pair
    step,     \* where a run is
    pair,     \* the pair it updates, or updated last
    began,    \* when it asked for the newest stored candle of that pair
    cursor,   \* since of its next request
    page,     \* rows it was given
    more,     \* there will be another request
    proper,   \* the page is what a working exchange answers
    aborted,  \* the transaction of its connection is aborted
    missed,   \* forming candles at the end of a page that had a successor
    faults

callVars == <<began, cursor, page, more, proper>>
vars == <<now, table, step, pair, callVars, aborted, missed, faults>>

TypeOK ==
    /\ now \in Times
    /\ table \in [Pairs -> SUBSET Traded]
    /\ step \in [Runs -> {"idle", "next", "latest", "fetch", "store"}]
    /\ pair \in [Runs -> 0..NPairs]
    /\ began \in [Runs -> Times]
    /\ cursor \in [Runs -> Nat]
    /\ page \in [Runs -> SUBSET Traded]
    /\ more \in [Runs -> BOOLEAN]
    /\ proper \in [Runs -> BOOLEAN]
    /\ aborted \in [Runs -> BOOLEAN]
    /\ missed \in [Pairs -> SUBSET Traded]
    /\ faults \in 0..MaxFaults

Init ==
    /\ now = FirstRun
    /\ table = [p \in Pairs |-> {}]
    /\ step = [r \in Runs |-> "idle"]
    /\ pair = [r \in Runs |-> 0]
    /\ began = [r \in Runs |-> 0]
    /\ cursor = [r \in Runs |-> 0]
    /\ page = [r \in Runs |-> {}]
    /\ more = [r \in Runs |-> FALSE]
    /\ proper = [r \in Runs |-> FALSE]
    /\ aborted = [r \in Runs |-> FALSE]
    /\ missed = [p \in Pairs |-> {}]
    /\ faults = 0

Fault == faults < MaxFaults /\ faults' = faults + 1

Goto(r, s) == step' = [step EXCEPT ![r] = s]

Tick ==
    /\ now < MaxTime
    /\ now' = now + 1
    /\ UNCHANGED <<table, step, pair, callVars, aborted, missed, faults>>

(***************************************************************************)
(* run_pipeline.                                                           *)
(***************************************************************************)
Start(r) ==
    /\ step[r] = "idle"
    /\ Goto(r, "next")
    /\ UNCHANGED <<now, table, pair, callVars, aborted, missed, faults>>

NextPair(r) ==
    /\ step[r] = "next" /\ pair[r] < NPairs
    /\ pair' = [pair EXCEPT ![r] = @ + 1]
    /\ Goto(r, "latest")
    /\ UNCHANGED <<now, table, callVars, aborted, missed, faults>>

(* update_symbol_timeframe returns or raises: its variables are gone.      *)
Leave(r) ==
    /\ began' = [began EXCEPT ![r] = 0] /\ cursor' = [cursor EXCEPT ![r] = 0]
    /\ page' = [page EXCEPT ![r] = {}]
    /\ more' = [more EXCEPT ![r] = FALSE] /\ proper' = [proper EXCEPT ![r] = FALSE]

(* The process of a run ends, and with it its connection.                  *)
Exit(r) ==
    /\ Goto(r, "idle")
    /\ pair' = [pair EXCEPT ![r] = 0]
    /\ Leave(r)
    /\ aborted' = [aborted EXCEPT ![r] = FALSE]
    /\ UNCHANGED <<now, table, missed>>

End(r) ==
    /\ step[r] = "next" /\ pair[r] = NPairs
    /\ Exit(r)
    /\ UNCHANGED faults

(* The except clause: the result is None, and on to the next pair, without *)
(* a rollback.                                                             *)
PairFails(r) ==
    /\ Leave(r)
    /\ Goto(r, "next")
    /\ UNCHANGED <<now, table, pair, missed>>

Killed(r) ==
    /\ step[r] # "idle"
    /\ Fault
    /\ Exit(r)

(***************************************************************************)
(* update_symbol_timeframe.                                                *)
(***************************************************************************)
(* Mutant: a timeframe is added to backfill_since as well.                 *)
GetLatestLate(r) ==
    /\ step[r] = "latest" /\ ~aborted[r]
    /\ \/ table[pair[r]] = {} /\ cursor' = [cursor EXCEPT ![r] = 2]
       \/ \E k \in table[pair[r]] :
             IsNewest(k, table[pair[r]]) /\ cursor' = [cursor EXCEPT ![r] = k + 1]
    /\ began' = [began EXCEPT ![r] = now]
    /\ Goto(r, "fetch")
    /\ UNCHANGED <<now, table, pair, page, more, proper, aborted, missed, faults>>

(* After the newest stored candle, or from backfill_since, candle 1.  That *)
(* candle has opened: since < now.                                         *)
GetLatest(r) ==
    /\ step[r] = "latest" /\ ~aborted[r]
    /\ \/ table[pair[r]] = {} /\ cursor' = [cursor EXCEPT ![r] = 1]
       \/ \E k \in table[pair[r]] :
             IsNewest(k, table[pair[r]]) /\ cursor' = [cursor EXCEPT ![r] = k + 1]
    /\ began' = [began EXCEPT ![r] = now]
    /\ Goto(r, "fetch")
    /\ UNCHANGED <<now, table, pair, page, more, proper, aborted, missed, faults>>

(* A statement on an aborted transaction raises InFailedSqlTransaction.    *)
GetLatestRaises(r) ==
    /\ step[r] = "latest" /\ aborted[r]
    /\ PairFails(r)
    /\ UNCHANGED <<aborted, faults>>

Fetch(r, S) ==
    /\ step[r] = "fetch"
    /\ IF GoodPage(S, cursor[r], now) THEN UNCHANGED faults ELSE Fault
    /\ proper' = [proper EXCEPT ![r] = GoodPage(S, cursor[r], now)]
    /\ page' = [page EXCEPT ![r] = S]
    /\ more' = [more EXCEPT ![r] = GoesOn(S, cursor[r])]
    /\ cursor' = [cursor EXCEPT ![r] = IF GoesOn(S, @) THEN NextCursor(S) ELSE @]
    /\ Goto(r, "store")
    /\ UNCHANGED <<now, table, pair, began, aborted, missed>>

(* The exchange does not answer.                                           *)
FetchRaises(r) ==
    /\ step[r] = "fetch"
    /\ Fault
    /\ PairFails(r)
    /\ UNCHANGED aborted

(* The loop asks for the next page, or the pair is done.                   *)
EndPage(r) ==
    \/ /\ more[r] /\ Goto(r, "fetch")
       /\ page' = [page EXCEPT ![r] = {}]
       /\ more' = [more EXCEPT ![r] = FALSE] /\ proper' = [proper EXCEPT ![r] = FALSE]
       /\ UNCHANGED <<began, cursor>>
    \/ ~more[r] /\ Goto(r, "next") /\ Leave(r)

(* Mutant: the candle that closed last is taken for forming.               *)
StoreLess(r) ==
    /\ step[r] = "store"
    /\ table' = [table EXCEPT ![pair[r]] = @ \cup {k \in page[r] : Closed(k + 1, now)}]
    /\ missed' = [missed EXCEPT ![pair[r]] =
                     @ \cup {k \in page[r] : more[r] /\ ~Closed(k, now)}]
    /\ EndPage(r)
    /\ UNCHANGED <<now, pair, aborted, faults>>

(* upsert_candles commits the closed rows of the page, if there are any.   *)
Store(r) ==
    /\ step[r] = "store"
    /\ table' = [table EXCEPT ![pair[r]] = @ \cup {k \in page[r] : Closed(k, now)}]
    /\ missed' = [missed EXCEPT ![pair[r]] =
                     @ \cup {k \in page[r] : more[r] /\ ~Closed(k, now)}]
    /\ EndPage(r)
    /\ UNCHANGED <<now, pair, aborted, faults>>

(* The insert raises, a price that is null for instance.                   *)
StoreRaises(r) ==
    /\ step[r] = "store" /\ \E k \in page[r] : Closed(k, now)
    /\ Fault
    /\ PairFails(r)
    /\ aborted' = [aborted EXCEPT ![r] = TRUE]

-----------------------------------------------------------------------------
Proceed(r) ==
    \/ NextPair(r) \/ End(r)
    \/ GetLatest(r) \/ GetLatestRaises(r)
    \/ \E S \in Pages(cursor[r], now) : GoodPage(S, cursor[r], now) /\ Fetch(r, S)
    \/ Store(r)

Next ==
    \/ Tick
    \/ \E r \in Runs :
          \/ Start(r) \/ Proceed(r)
          \/ \E S \in Pages(cursor[r], now) : Fetch(r, S)
          \/ FetchRaises(r) \/ StoreRaises(r) \/ Killed(r)

Spec == Init /\ [][Next]_vars

(* cron starts runs for ever, and the exchange and the database answer.    *)
FairSpec == Spec /\ \A r \in Runs : WF_vars(Start(r)) /\ WF_vars(Proceed(r))

-----------------------------------------------------------------------------
(* A candle that is not stored although a later one is: as a run asks from *)
(* the newest stored candle on, none will ask for it again.                *)
PassedOver(p, k) == k \notin table[p] /\ \E m \in table[p] : k < m

(* Overlapping, failing and killed runs pass no candle over but one that   *)
(* was still forming at the end of a page that had a successor.            *)
NothingElseLost ==
    \A p \in Pairs : \A k \in Traded : PassedOver(p, k) => k \in missed[p]

(* A candle that is stored, or that was lost in that way.                  *)
Settled(p, k) == k \in table[p] \/ (k \in missed[p] /\ PassedOver(p, k))

(* The exchange gives as many rows to a page as it is asked for.           *)
FillsPages == Limit > 0 /\ Cap >= Limit

(* A run that reports success for a pair has settled every candle that had *)
(* closed when it began, if the last answer it got was in order: whatever  *)
(* went wrong before, for other pairs and in other runs.                   *)
SuccessIsComplete ==
    [][\A r \in Runs :
        FillsPages /\ proper[r] /\ step[r] = "store" /\ step'[r] = "next" /\ ~aborted'[r]
            => \A k \in Traded : k <= began[r] => Settled(pair[r], k)']_vars

(* Every candle that closes is stored for every pair by one run or         *)
(* another, one that a run dropped while it was forming included; but for  *)
(* candles that were lost in that way, which never are.                    *)
EveryCandleStored ==
    \A k \in Traded : k <= now ~> \A p \in Pairs : Settled(p, k)

(* The inductive invariant: what a run has not stored before its cursor is *)
(* in the page it holds, oldest first.                                     *)
Unstored(p, k) == k \in Traded /\ k \notin table[p] \cup missed[p]

RunIsDue(r) ==
    /\ step[r] \in {"latest", "fetch", "store"} => pair[r] \in Pairs
    /\ step[r] = "fetch" => \A k \in 1..(cursor[r] - 1) : ~Unstored(pair[r], k)
    /\ step[r] = "store" =>
          /\ \A q \in page[r] : \A k \in 1..q : Unstored(pair[r], k) => k \in page[r]
          /\ more[r] => \A k \in 1..(cursor[r] - 1) : Unstored(pair[r], k) => k \in page[r]

PipelineInv == TypeOK /\ NothingElseLost /\ \A r \in Runs : RunIsDue(r)

(* Its strengthening for SuccessIsComplete: of the candles that had closed *)
(* when the run began, those that are newer than all stored ones are still *)
(* to be asked for or in the page, and in a last page that is in order.    *)
Newer(p, k) == k \in Traded /\ k \notin table[p] /\ ~PassedOver(p, k)

PageIsEnough(r) ==
    /\ began[r] <= now
    /\ step[r] = "fetch" => \A k \in 1..began[r] : k < cursor[r] => ~Newer(pair[r], k)
    /\ step[r] = "store" => \A k \in 1..began[r] :
          Newer(pair[r], k) /\ (IF more[r] THEN k < cursor[r] ELSE FillsPages /\ proper[r])
              => k \in page[r]

SuccessInv == PipelineInv /\ \A r \in Runs : PageIsEnough(r)
=============================================================================
