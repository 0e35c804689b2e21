----------------------------- MODULE ControlPlane -----------------------------
(***************************************************************************)
(* What several writers do to one bots row: API requests, each a sequence  *)
(* of committed statements (routers/bots.py, routers/strategies.py), the   *)
(* supervisor that reads desired_status, and the bot's own process, whose  *)
(* reports are inserts that reference the row (bot.py).                    *)
(*                                                                         *)
(* The supervisor is its abstract specification, Reconciler, which module  *)
(* SupervisorRefinement shows it implements.  A process may end at any     *)
(* moment (Exit), and the supervisor with all of them (Collapse).  What a  *)
(* position is worth is module Bot's; here a bot is long or flat.  There   *)
(* is one owner: created_by always matches.                                *)
(***************************************************************************)
EXTENDS Naturals

CONSTANTS
    Strategies, Credentials, Bots,  \* ids new_id may return: bounds on rows
    Requests,                       \* API requests handled at the same time
    None

ASSUME ControlPlaneAssumption ==
    /\ None \notin Strategies \cup Credentials \cup Bots
    /\ Strategies \cap Credentials = {}
    /\ Bots \cap (Strategies \cup Credentials) = {}

VARIABLES
    ids,          \* ids new_id has returned; none is returned twice
    strategies,   \* the strategies table
    credentials,  \* the exchange_credentials table
    row,          \* the bots table with bot_state; None where there is no row
    req,          \* the handler a request is in
    proc,         \* the bot's process
    observed,     \* what the supervisor read last
    late          \* orders a process placed after its row was gone

tables == <<ids, strategies, credentials, row>>
vars == <<tables, req, proc, observed, late>>

MaxLate == 2  \* late is counted up to here

Config == [strategy : Strategies, credential : Credentials \cup {None}]

(* credential_id is set if and only if mode is live, by the check of the   *)
(* table and of BotCreateRequest.  state is bot_state.position, None       *)
(* before the first report.                                                *)
Row == [config : Config, desired : BOOLEAN, state : {"none", "flat", "long"}]

ASSUME NoneAssumption == None \notin Config \cup Row

(* A request waits for its next statement, or is answered: refused because *)
(* of its credential, or failed on a row that is not there.                *)
OfBot == {"delete", "credential", "set", "refused", "crashed"}
Request ==
    [at : {"idle", "insert"} \cup OfBot, bot : Bots \cup {None}, config : Config \cup {None}]
NoRequest == [at |-> "idle", bot |-> None, config |-> None]

(* The statements of build_bot, of run, and of a candle's callback.        *)
BuildSteps == {"get_strategy", "no_strategy", "get_credential", "no_credential", "get_state"}
RunSteps   == {"report", "idle", "sell", "entry_event", "record_trade", "exit_event", "save"}
Process ==
    [at : {"down", "get_bot"} \cup BuildSteps \cup RunSteps, config : Config \cup {None},
     long : BOOLEAN]
NoProcess == [at |-> "down", config |-> None, long |-> FALSE]

IsLive(config) == config # None /\ config.credential # None

TypeOK ==
    /\ ids \subseteq Strategies \cup Credentials \cup Bots
    /\ strategies \subseteq Strategies \cap ids
    /\ credentials \subseteq Credentials \cap ids
    /\ row \in [Bots -> Row \cup {None}]
    /\ req \in [Requests -> Request]
    /\ proc \in [Bots -> Process]
    /\ observed \subseteq Bots
    /\ late \in [Bots -> 0..MaxLate]
    /\ \A r \in Requests :
          /\ req[r].at # "idle" => req[r].config # None
          /\ req[r].at \in OfBot => req[r].bot # None
          /\ req[r].at = "credential" => IsLive(req[r].config)
    /\ \A b \in Bots :
          /\ proc[b].at \in BuildSteps => proc[b].config # None
          /\ proc[b].at = "get_credential" => IsLive(proc[b].config)

Exists(b) == row[b] # None
Deleted(b) == b \in ids /\ ~Exists(b)
Up(b) == proc[b].at # "down"

Desired == {b \in Bots : Exists(b) /\ row[b].desired}
Running == {b \in Bots : Up(b)}
Supervisor == INSTANCE Reconciler WITH desired <- Desired, running <- Running

Init ==
    /\ ids = {} /\ strategies = {} /\ credentials = {} /\ observed = {}
    /\ row = [b \in Bots |-> None]
    /\ req = [r \in Requests |-> NoRequest]
    /\ proc = [b \in Bots |-> NoProcess]
    /\ late = [b \in Bots |-> 0]

-----------------------------------------------------------------------------
(***************************************************************************)
(* Handlers that are one statement.                                        *)
(***************************************************************************)
CreateStrategy(s) ==
    /\ s \notin ids
    /\ ids' = ids \cup {s} /\ strategies' = strategies \cup {s}
    /\ UNCHANGED <<credentials, row, req, proc, observed, late>>

(* Mutant: a bots row does not go with its strategy.                       *)
DeleteStrategyOnly(s) ==
    /\ s \in strategies
    /\ strategies' = strategies \ {s}
    /\ UNCHANGED <<ids, credentials, row, req, proc, observed, late>>

(* Its bots go with it, whatever they are doing: on delete cascade.        *)
DeleteStrategy(s) ==
    /\ s \in strategies
    /\ strategies' = strategies \ {s}
    /\ row' = [b \in Bots |->
                 IF Exists(b) /\ row[b].config.strategy = s THEN None ELSE row[b]]
    /\ UNCHANGED <<ids, credentials, req, proc, observed, late>>

CreateCredential(c) ==
    /\ c \notin ids
    /\ ids' = ids \cup {c} /\ credentials' = credentials \cup {c}
    /\ UNCHANGED <<strategies, row, req, proc, observed, late>>

(* Mutant: no foreign key from bots.credential_id.                         *)
DeleteAnyCredential(c) ==
    /\ c \in credentials
    /\ credentials' = credentials \ {c}
    /\ UNCHANGED <<ids, strategies, row, req, proc, observed, late>>

(* The foreign key refuses it while a bot is configured with it.           *)
DeleteCredential(c) ==
    /\ c \in credentials
    /\ \A b \in Bots : Exists(b) => row[b].config.credential # c
    /\ credentials' = credentials \ {c}
    /\ UNCHANGED <<ids, strategies, row, req, proc, observed, late>>

StopBot(b) ==
    /\ Exists(b)
    /\ row' = [row EXCEPT ![b].desired = FALSE]
    /\ UNCHANGED <<ids, strategies, credentials, req, proc, observed, late>>

(***************************************************************************)
(* Handlers that read, decide and write.                                   *)
(***************************************************************************)
Goes(r, at, b, config) == req' = [req EXCEPT ![r] = [at |-> at, bot |-> b, config |-> config]]
Ends(r) == req' = [req EXCEPT ![r] = NoRequest]
Free(r) == req[r].at \in {"idle", "refused", "crashed"}
OnlyRequests == UNCHANGED <<tables, proc, observed, late>>

(* create_bot: the caller's credentials are listed, then the row is        *)
(* inserted; the foreign keys judge strategy and credential again.         *)
CreateBot(r, config) ==
    /\ Free(r)
    /\ config.credential \in credentials \cup {None}
    /\ Goes(r, "insert", None, config)
    /\ OnlyRequests

(* Mutant: the insert relies on the check made before.                     *)
InsertBotUnchecked(r, b) ==
    /\ req[r].at = "insert" /\ b \notin ids
    /\ Ends(r)
    /\ ids' = ids \cup {b}
    /\ row' = [row EXCEPT ![b] = [config |-> req[r].config, desired |-> FALSE, state |-> "none"]]
    /\ UNCHANGED <<strategies, credentials, proc, observed, late>>

InsertBot(r, b) ==
    /\ req[r].at = "insert" /\ b \notin ids
    /\ Ends(r)
    /\ LET config == req[r].config
       IN  IF config.strategy \in strategies /\ config.credential \in credentials \cup {None}
           THEN /\ ids' = ids \cup {b}
                /\ row' = [row EXCEPT ![b] =
                             [config |-> config, desired |-> FALSE, state |-> "none"]]
           ELSE UNCHANGED <<ids, row>>
    /\ UNCHANGED <<strategies, credentials, proc, observed, late>>

(* delete_bot: 404, 409 if it is desired running, else the row is deleted. *)
FindToDelete(r, b) ==
    /\ Free(r) /\ Exists(b) /\ ~row[b].desired
    /\ Goes(r, "delete", b, row[b].config)
    /\ OnlyRequests

DeleteBot(r) ==
    /\ req[r].at = "delete"
    /\ Ends(r)
    /\ row' = [row EXCEPT ![req[r].bot] = None]
    /\ UNCHANGED <<ids, strategies, credentials, proc, observed, late>>

(* start_bot: 404; a live bot's credential is looked up in the list; then  *)
(* desired_status is set, and the handler formats the row that returns.    *)
FindToStart(r, b) ==
    /\ Free(r) /\ Exists(b)
    /\ Goes(r, IF row[b].config.credential = None THEN "set" ELSE "credential", b, row[b].config)
    /\ OnlyRequests

CheckCredential(r) ==
    /\ req[r].at = "credential"
    /\ Goes(r, IF req[r].config.credential \in credentials THEN "set" ELSE "refused",
            req[r].bot, req[r].config)
    /\ OnlyRequests

SetRunning(r) ==
    /\ req[r].at = "set"
    /\ IF Exists(req[r].bot)
       THEN row' = [row EXCEPT ![req[r].bot].desired = TRUE] /\ Ends(r)
       ELSE UNCHANGED row /\ Goes(r, "crashed", req[r].bot, req[r].config)
    /\ UNCHANGED <<ids, strategies, credentials, proc, observed, late>>

-----------------------------------------------------------------------------
(***************************************************************************)
(* The supervisor, and the end of a process.                               *)
(***************************************************************************)
OnlyProcess == UNCHANGED <<tables, req, late>>

(* Mutant: a bot once seen running stays in the supervisor's list.         *)
ObserveMore ==
    /\ observed' = observed \cup Desired
    /\ UNCHANGED <<tables, req, proc, late>>

Observe == OnlyProcess /\ UNCHANGED proc /\ Supervisor!Observe

Launch(b) ==
    /\ OnlyProcess
    /\ ~Up(b) /\ proc' = [proc EXCEPT ![b] = [NoProcess EXCEPT !.at = "get_bot"]]
    /\ Supervisor!Launch(b)

Down(b) == proc' = [proc EXCEPT ![b] = NoProcess]

Exit(b) == OnlyProcess /\ Down(b) /\ Supervisor!Exit(b)

Retire(b) == b \notin observed /\ Exit(b)

Collapse ==
    /\ OnlyProcess
    /\ proc' = [b \in Bots |-> NoProcess]
    /\ Supervisor!Collapse

-----------------------------------------------------------------------------
(***************************************************************************)
(* The bot's process.  A ValueError of build_bot, and an insert that       *)
(* references a row that is gone, end it.                                  *)
(***************************************************************************)
Step(b, at, config, long) ==
    proc' = [proc EXCEPT ![b] = [at |-> at, config |-> config, long |-> long]]
Goto(b, at) == Step(b, at, proc[b].config, proc[b].long)

GetBot(b) ==
    /\ proc[b].at = "get_bot"
    /\ IF Exists(b) THEN Step(b, "get_strategy", row[b].config, FALSE) ELSE Down(b)
    /\ UNCHANGED <<tables, req, observed, late>>

GetStrategy(b) ==
    /\ proc[b].at = "get_strategy"
    /\ Goto(b, IF proc[b].config.strategy \notin strategies THEN "no_strategy"
                ELSE IF proc[b].config.credential = None THEN "get_state"
                ELSE "get_credential")
    /\ UNCHANGED <<tables, req, observed, late>>

GetCredential(b) ==
    /\ proc[b].at = "get_credential"
    /\ Goto(b, IF proc[b].config.credential \in credentials THEN "get_state" ELSE "no_credential")
    /\ UNCHANGED <<tables, req, observed, late>>

(* resume_from_state, if the join with bots finds a saved state.           *)
GetState(b) ==
    /\ proc[b].at = "get_state"
    /\ Step(b, "report", None, Exists(b) /\ row[b].state = "long")
    /\ UNCHANGED <<tables, req, observed, late>>

(* Mutant: the bot goes on to the next candle when the insert fails.       *)
InsertIgnored(b, from, to, long) ==
    /\ proc[b].at = from
    /\ Step(b, IF Exists(b) THEN to ELSE "idle", None, long)
    /\ UNCHANGED <<tables, req, observed, late>>

(* insert into bot_events, bot_trades: the row must be there.              *)
Insert(b, from, to, long) ==
    /\ proc[b].at = from
    /\ IF Exists(b) THEN Step(b, to, None, long) ELSE Down(b)
    /\ UNCHANGED <<tables, req, observed, late>>

(* update_status changes nothing where there is no row: the event counts.  *)
Report(b)      == Insert(b, "report", "save", proc[b].long)
EntryEvent(b)  == Insert(b, "entry_event", "save", TRUE)
HardStop(b)    == proc[b].long /\ Insert(b, "idle", "sell", TRUE)
Rejected(b)    == ~proc[b].long /\ Insert(b, "idle", "save", FALSE)
RecordTrade(b) == Insert(b, "record_trade", "exit_event", TRUE)
ExitEvent(b)   == Insert(b, "exit_event", "save", FALSE)

SaveState(b) ==
    /\ proc[b].at = "save"
    /\ IF Exists(b)
       THEN /\ row' = [row EXCEPT ![b].state = IF proc[b].long THEN "long" ELSE "flat"]
            /\ Goto(b, "idle")
       ELSE Down(b) /\ UNCHANGED row
    /\ UNCHANGED <<ids, strategies, credentials, req, observed, late>>

Order(b, to, long) ==
    /\ Step(b, to, None, long)
    /\ late' = IF Deleted(b) /\ late[b] < MaxLate THEN [late EXCEPT ![b] = @ + 1] ELSE late
    /\ UNCHANGED <<tables, req, observed>>

(* The broker is called before anything is written; the independent hard   *)
(* stop is the exception.                                                  *)
OpenLong(b)  == proc[b].at = "idle" /\ ~proc[b].long /\ Order(b, "entry_event", TRUE)
CloseLong(b) == proc[b].at \in {"idle", "sell"} /\ proc[b].long /\ Order(b, "record_trade", TRUE)

Raised(b) == proc[b].at \in {"no_strategy", "no_credential"} /\ Exit(b)

-----------------------------------------------------------------------------
Build(b) == GetBot(b) \/ GetStrategy(b) \/ GetCredential(b) \/ GetState(b) \/ Raised(b)
Candle(b) ==
    \/ Report(b) \/ EntryEvent(b) \/ HardStop(b) \/ Rejected(b) \/ RecordTrade(b)
    \/ ExitEvent(b) \/ SaveState(b) \/ OpenLong(b) \/ CloseLong(b)

Handler(r) ==
    \/ \E config \in Config : CreateBot(r, config)
    \/ \E b \in Bots : InsertBot(r, b) \/ FindToDelete(r, b) \/ FindToStart(r, b)
    \/ DeleteBot(r) \/ CheckCredential(r) \/ SetRunning(r)

Next ==
    \/ \E s \in Strategies : CreateStrategy(s) \/ DeleteStrategy(s)
    \/ \E c \in Credentials : CreateCredential(c) \/ DeleteCredential(c)
    \/ \E r \in Requests : Handler(r)
    \/ \E b \in Bots : StopBot(b) \/ Launch(b) \/ Exit(b) \/ Build(b) \/ Candle(b)
    \/ Observe \/ Collapse

Spec == Init /\ [][Next]_vars

(* The supervisor polls, and ends the processes it no longer wants.        *)
FairSpec == Spec /\ WF_vars(Observe) /\ \A b \in Bots : WF_vars(Retire(b))

-----------------------------------------------------------------------------
(* Rows reference rows, and whoever holds a copy of a row that is still    *)
(* there holds what it says.                                               *)
IsCopy(b, config) == b \in ids /\ (Exists(b) => row[b].config = config)

References ==
    \A b \in Bots :
       /\ Exists(b) =>
             /\ b \in ids
             /\ row[b].config.strategy \in strategies
             /\ row[b].config.credential \in credentials \cup {None}
       /\ proc[b].at \in BuildSteps => IsCopy(b, proc[b].config)
       /\ \A r \in Requests : req[r].bot = b => IsCopy(b, req[r].config)

(* build_bot fails for want of a strategy or credential only when the bot  *)
(* itself has been deleted meanwhile: a bot that is there can be built.    *)
BuildFindsWhatItNeeds ==
    \A b \in Bots : proc[b].at \in {"no_strategy", "no_credential"} => Deleted(b)

(* start_bot answers that a credential is missing, or fails on the row it  *)
(* meant to update, only when the bot has been deleted since it was found. *)
RefusedMeansDeleted ==
    \A r \in Requests : req[r].at \in {"refused", "crashed"} => Deleted(req[r].bot)

(* A process whose row is deleted under it places at most one order: the   *)
(* report of that order fails, and it never gets to a second one.          *)
OneOrderAfterDelete == \A b \in Bots : late[b] <= 1

(* Who has placed it is about to fail.                                     *)
LateIsLast ==
    \A b \in Bots : late[b] > 0 =>
        /\ Deleted(b) /\ late[b] = 1
        /\ proc[b].at \in {"down", "get_bot", "entry_event", "record_trade"}

ControlInv ==
    /\ TypeOK /\ References
    /\ BuildFindsWhatItNeeds /\ RefusedMeansDeleted /\ LateIsLast

(* The processes of a bot that is deleted, by request or with its          *)
(* strategy, end for good.                                                 *)
DeletedGoesDown == \A b \in Bots : Deleted(b) ~> [](~Up(b))
=============================================================================
