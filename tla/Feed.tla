--------------------------------- MODULE Feed ---------------------------------
(***************************************************************************)
(* The realtime feed of one bot (feed.py): from the newest stored candle   *)
(* on, it calls back once for every candle that closes.  It polls the      *)
(* exchange, or listens to its websocket where ccxt.pro has one.           *)
(*                                                                         *)
(* Time passes between any two steps: while a request is answered, while   *)
(* a callback places orders, while the feed sleeps.  A row is its candle;  *)
(* prices are left out.                                                    *)
(***************************************************************************)
EXTENDS Candles, Sequences

CONSTANTS
    MaxHistory,  \* max_history
    MaxFaults    \* bound on answers that are not what they should be

ASSUME FeedAssumption == MaxHistory \in Nat \ {0} /\ MaxFaults \in Nat

VARIABLES
    now,        \* time
    stored,     \* the newest candle in the table ohlcv_candles
    websocket,  \* the exchange has watchOHLCV
    history,    \* its newest rows; the seed counts as one
    step,       \* where run is
    page,       \* rows of the answer still to be looked at
    cursor,     \* since of the next request
    more,       \* there will be one
    heard,      \* when watch_ohlcv last returned
    stop,       \* stop_event
    missed,     \* forming candles at the end of a page that had a successor
    faults

vars == <<now, stored, websocket, history, step, page, cursor, more, heard, stop,
          missed, faults>>
pageVars == <<page, cursor, more>>
worldVars == <<now, stored, websocket, stop>>

Last == history[Len(history)]

TypeOK ==
    /\ now \in Times /\ heard \in 0..now
    /\ stored \in Traded /\ stored <= now
    /\ websocket \in BOOLEAN /\ more \in BOOLEAN /\ stop \in BOOLEAN
    /\ history \in Seq(Traded) /\ Len(history) \in 1..MaxHistory
    /\ step \in {"idle", "fetch", "received", "page", "callback", "ended"}
    /\ page \subseteq Rows(now)
    /\ cursor \in Nat
    /\ missed \subseteq Traded
    /\ faults \in 0..MaxFaults

Fault == faults < MaxFaults /\ faults' = faults + 1

(* build_bot reads the history from the table: its last row is what counts.*)
Init ==
    /\ now \in Times
    /\ stored \in Traded /\ stored <= now
    /\ websocket \in BOOLEAN
    /\ history = <<stored>>
    /\ step = "idle"
    /\ page = {} /\ cursor = 0 /\ more = FALSE
    /\ heard = now
    /\ stop = FALSE /\ missed = {} /\ faults = 0

(***************************************************************************)
(* Time, the pipeline, the signal handler, and the supervisor.             *)
(***************************************************************************)
Tick ==
    /\ now < MaxTime
    /\ now' = now + 1
    /\ UNCHANGED <<stored, websocket, history, step, pageVars, heard, stop, missed, faults>>

PipelineStores ==
    /\ \E k \in Traded : stored < k /\ k <= now /\ stored' = k
    /\ UNCHANGED <<now, websocket, history, step, pageVars, heard, stop, missed, faults>>

StopRequested ==
    /\ step # "ended" /\ ~stop
    /\ stop' = TRUE
    /\ UNCHANGED <<now, stored, websocket, history, step, pageVars, heard, missed, faults>>

Restart ==
    /\ step = "ended"
    /\ history' = <<stored>>
    /\ step' = "idle" /\ stop' = FALSE
    /\ page' = {} /\ cursor' = 0 /\ more' = FALSE
    /\ heard' = now
    /\ missed' = {}
    /\ UNCHANGED <<now, stored, websocket, faults>>

(***************************************************************************)
(* Both loops: stop_event is looked at before an answer is asked for; then *)
(* its rows are taken oldest first.                                        *)
(***************************************************************************)
Stops ==
    /\ step = "idle" /\ stop
    /\ step' = "ended"
    /\ UNCHANGED <<worldVars, history, pageVars, heard, missed, faults>>

(* An error of the exchange or of the callback ends run.                   *)
Raises ==
    /\ step \in {"idle", "fetch", "callback"}
    /\ step' = "ended"
    /\ UNCHANGED <<worldVars, history, pageVars, heard, missed, faults>>

TakeNext(k) ==
    /\ step = "page"
    /\ k \in page /\ \A i \in page : k <= i
    /\ page' = page \ {k}
    /\ UNCHANGED <<worldVars, cursor, more, heard, faults>>

SkipForming(k) ==
    /\ TakeNext(k) /\ ~Closed(k, now)
    /\ missed' = IF more THEN missed \cup {k} ELSE missed
    /\ UNCHANGED <<history, step>>

SkipSeen(k) ==
    /\ TakeNext(k) /\ Closed(k, now) /\ k <= Last
    /\ UNCHANGED <<history, step, missed>>

(* Mutant: the history is not cut to max_history.                          *)
AppendOnly(k) == history' = Append(history, k)

AppendCandle(k) ==
    LET h == Append(history, k)
    IN  history' = IF Len(h) > MaxHistory THEN Tail(h) ELSE h

(* _append_candle adds the row, and the callback begins.                   *)
Deliver(k) ==
    /\ TakeNext(k) /\ Closed(k, now) /\ k > Last
    /\ AppendCandle(k)
    /\ step' = "callback"
    /\ UNCHANGED missed

CallbackReturns ==
    /\ step = "callback"
    /\ step' = "page"
    /\ UNCHANGED <<worldVars, history, pageVars, heard, missed, faults>>

(* Mutant: stop_event is not looked at between two polls.                  *)
EndPageGoesOn ==
    /\ step = "page" /\ page = {}
    /\ step' = "fetch"
    /\ UNCHANGED <<worldVars, history, pageVars, heard, missed, faults>>

EndPage ==
    /\ step = "page" /\ page = {}
    /\ step' = IF more THEN "fetch" ELSE "idle"
    /\ UNCHANGED <<worldVars, history, pageVars, heard, missed, faults>>

(***************************************************************************)
(* Polling.                                                                *)
(***************************************************************************)
(* Mutant: since is two candles after the last one.                        *)
BeginPollLate ==
    /\ step = "idle" /\ ~stop /\ ~websocket
    /\ cursor' = Last + 2
    /\ step' = "fetch"
    /\ UNCHANGED <<worldVars, history, page, more, heard, missed, faults>>

(* since < now: candle Last + 1 has opened, which it has when Last closed. *)
BeginPoll ==
    /\ step = "idle" /\ ~stop /\ ~websocket
    /\ cursor' = Last + 1
    /\ step' = "fetch"
    /\ UNCHANGED <<worldVars, history, page, more, heard, missed, faults>>

Fetch(S) ==
    /\ step = "fetch"
    /\ IF GoodPage(S, cursor, now) THEN UNCHANGED faults ELSE Fault
    /\ page' = S
    /\ more' = GoesOn(S, cursor)
    /\ cursor' = IF GoesOn(S, cursor) THEN NextCursor(S) ELSE cursor
    /\ step' = "page"
    /\ UNCHANGED <<worldVars, history, heard, missed>>

(***************************************************************************)
(* The websocket: watch_ohlcv returns the rows that were updated since it  *)
(* last returned.  Those of candles that opened since then are among them, *)
(* the row that was forming then need not be.  The clock is read once.     *)
(***************************************************************************)
Watch(S) ==
    /\ step = "idle" /\ ~stop /\ websocket
    /\ S # {} /\ S \subseteq Rows(now)
    /\ \A k \in S : k > heard
    /\ \A k \in Rows(now) : heard + 1 < k /\ k <= now => k \in S
    /\ page' = S /\ heard' = now
    /\ step' = "received"
    /\ UNCHANGED <<worldVars, history, cursor, more, missed, faults>>

ReadClock ==
    /\ step = "received"
    /\ page' = {k \in page : Closed(k, now)}
    /\ step' = "page"
    /\ UNCHANGED <<worldVars, history, cursor, more, heard, missed, faults>>

-----------------------------------------------------------------------------
LookAt(k) == SkipForming(k) \/ SkipSeen(k) \/ Deliver(k)

Proceed ==
    \/ Stops \/ (\E k \in page : LookAt(k)) \/ CallbackReturns \/ EndPage
    \/ BeginPoll \/ (\E S \in Pages(cursor, now) : GoodPage(S, cursor, now) /\ Fetch(S))
    \/ ReadClock

Next ==
    \/ Tick \/ PipelineStores \/ StopRequested \/ Restart
    \/ Proceed
    \/ Raises
    \/ \E S \in Pages(cursor, now) : Fetch(S)
    \/ \E S \in SUBSET Rows(now) : Watch(S)

Spec == Init /\ [][Next]_vars

(* The event loop runs, the exchange answers, the callback returns.        *)
FairSpec == Spec /\ WF_vars(Proceed)

-----------------------------------------------------------------------------
(* The callback gets every candle at most once per process, in order, and  *)
(* none before it closed.                                                  *)
CandlesInOrder ==
    [][step # "callback" /\ step' = "callback" => Last' > Last /\ Closed(Last', now)]_vars

(* Polling leaves no hole in the history, whatever the exchange leaves out *)
(* of an answer or repeats, but for a candle that was still forming at the *)
(* end of a page that was followed by another one.                         *)
NothingElseMissed ==
    ~websocket =>
        \A i \in 1..(Len(history) - 1) : \A k \in Traded :
            history[i] < k /\ k < history[i + 1] => k \in missed

(* Polling gets every closed candle, or ends.                              *)
EveryCandleComes ==
    \A k \in Traded : ~websocket /\ k <= now ~> Last >= k \/ step = "ended"

(* A feed that is told to stop ends, whatever the exchange answers.        *)
StopIsObeyed == stop ~> ~stop \/ step = "ended"

(* The inductive invariant: what polling still owes is in the page, or     *)
(* will be asked for.                                                      *)
Owed(k) == k \in Traded /\ k > Last /\ k \notin missed

PageIsDue ==
    ~websocket /\ step \in {"page", "callback"} =>
        /\ \A p \in page : \A k \in 1..p : Owed(k) => k \in page
        /\ more => \A k \in 1..(cursor - 1) : Owed(k) => k \in page

RequestIsDue ==
    ~websocket /\ step = "fetch" => \A k \in 1..(cursor - 1) : ~Owed(k)

FeedInv ==
    /\ TypeOK
    /\ Last <= now
    /\ step = "received" => websocket
    /\ websocket => ~more /\ step # "fetch"
    /\ NothingElseMissed
    /\ PageIsDue
    /\ RequestIsDue
=============================================================================
