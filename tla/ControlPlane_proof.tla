-------------------------- MODULE ControlPlane_proof --------------------------
(***************************************************************************)
(* Proofs about the requests, the supervisor and the processes that share  *)
(* the bots table, for any number of each.                                 *)
(*                                                                         *)
(* The argument is about copies: a handler and a process hold what a row   *)
(* said when they read it.  A row's strategy and credential never change   *)
(* and its references never dangle, so a copy is right as long as the row  *)
(* is there; and a row that is gone never comes back.                      *)
(***************************************************************************)
EXTENDS ControlPlane, TLAPS

USE ControlPlaneAssumption, NoneAssumption

LEMMA InitInv == Init => ControlInv
<1> SUFFICES ASSUME Init  PROVE ControlInv
  OBVIOUS
<1> USE DEF Init, NoRequest, NoProcess
<1>1. NoRequest \in Request /\ NoProcess \in Process
  BY DEF Request, Process
<1>2. TypeOK
  BY <1>1 DEF TypeOK, MaxLate, OfBot, BuildSteps
<1>3. References /\ BuildFindsWhatItNeeds /\ RefusedMeansDeleted /\ LateIsLast
  BY DEF References, BuildFindsWhatItNeeds, RefusedMeansDeleted, LateIsLast, BuildSteps, Exists
<1> QED  BY <1>2, <1>3 DEF ControlInv

(* A step of a process or the supervisor changes no row but the state a    *)
(* bot reports, and no request.                                            *)
SameRows ==
    /\ UNCHANGED <<ids, strategies, credentials, req>>
    /\ row' \in [Bots -> Row \cup {None}]
    /\ \A b \in Bots : (Exists(b)' <=> Exists(b)) /\ (Exists(b) => row'[b].config = row[b].config)

LEMMA SameRowsInv ==
  ASSUME ControlInv, SameRows,
         proc' \in [Bots -> Process], observed' \subseteq Bots, late' \in [Bots -> 0..MaxLate],
         \A b \in Bots :
            /\ proc'[b].at \in BuildSteps => proc'[b].config # None /\ IsCopy(b, proc'[b].config)
            /\ proc'[b].at = "get_credential" => IsLive(proc'[b].config)
            /\ proc'[b].at \in {"no_strategy", "no_credential"} => Deleted(b)
            /\ late'[b] > 0 =>
                  /\ Deleted(b) /\ late'[b] = 1
                  /\ proc'[b].at \in {"down", "get_bot", "entry_event", "record_trade"}
  PROVE  ControlInv'
<1> USE DEF ControlInv, SameRows, Exists, Deleted, IsCopy
<1>1. TypeOK'
  BY DEF TypeOK
<1>2. References'
  BY DEF TypeOK, References
<1>3. BuildFindsWhatItNeeds' /\ RefusedMeansDeleted' /\ LateIsLast'
  BY DEF TypeOK, BuildFindsWhatItNeeds, RefusedMeansDeleted, LateIsLast, Request, NoRequest
<1> QED  BY <1>1, <1>2, <1>3

(* The supervisor: its observation, and processes that begin or end.       *)
LEMMA SupervisorInv ==
  ASSUME ControlInv, Observe \/ Collapse \/ \E b \in Bots : Launch(b) \/ Exit(b) \/ Raised(b)
  PROVE  ControlInv'
<1> DEFINE Started == [NoProcess EXCEPT !.at = "get_bot"]
<1> USE DEF OnlyProcess, Down, Raised, Exit
<1>1. UNCHANGED <<ids, strategies, credentials, row, req, late>>
  BY DEF Observe, Collapse, Launch, tables
<1>2. SameRows /\ late' \in [Bots -> 0..MaxLate]
  BY <1>1 DEF SameRows, ControlInv, TypeOK, Exists
<1>3. observed' \subseteq Bots
  BY DEF ControlInv, TypeOK, Observe, Collapse, Launch, Supervisor!Observe,
     Supervisor!Collapse, Supervisor!Launch, Supervisor!Exit, Desired
<1>4. NoProcess \in Process /\ Started \in Process
      /\ NoProcess.at = "down" /\ Started.at = "get_bot"
  BY DEF Process, NoProcess
<1>5. proc \in [Bots -> Process]
  BY DEF ControlInv, TypeOK
<1>6. /\ proc' \in [Bots -> Process]
      /\ \A b \in Bots : proc'[b] \in {proc[b], NoProcess, Started}
  <2> HIDE DEF Started
  <2>1. CASE Observe
    BY <1>5, <2>1 DEF Observe
  <2>2. CASE Collapse
    BY <1>4, <2>2 DEF Collapse
  <2>3. ASSUME NEW b \in Bots, Launch(b)
        PROVE  <1>6
    BY <1>4, <1>5, <2>3 DEF Launch, Started
  <2>4. ASSUME NEW b \in Bots, Exit(b)
        PROVE  <1>6
    BY <1>4, <1>5, <2>4
  <2> QED  BY <2>1, <2>2, <2>3, <2>4
<1>7. ASSUME NEW b \in Bots
      PROVE  /\ proc'[b].at \in BuildSteps => proc'[b].config # None /\ IsCopy(b, proc'[b].config)
             /\ proc'[b].at = "get_credential" => IsLive(proc'[b].config)
             /\ proc'[b].at \in {"no_strategy", "no_credential"} => Deleted(b)
             /\ late'[b] > 0 =>
                   /\ Deleted(b) /\ late'[b] = 1
                   /\ proc'[b].at \in {"down", "get_bot", "entry_event", "record_trade"}
  <2> HIDE DEF Started
  <2>1. CASE proc'[b] = proc[b]
    BY <1>1, <2>1 DEF ControlInv, TypeOK, References, BuildFindsWhatItNeeds, LateIsLast
  <2>2. CASE proc'[b].at \in {"down", "get_bot"}
    BY <1>1, <2>2 DEF ControlInv, LateIsLast, BuildSteps
  <2> QED  BY <1>4, <1>6, <2>1, <2>2
<1> QED  BY <1>2, <1>3, <1>6, <1>7, SameRowsInv

(* One process moves on.                                                   *)
LEMMA MoveInv ==
  ASSUME ControlInv, SameRows, UNCHANGED observed, late' \in [Bots -> 0..MaxLate],
         NEW b \in Bots, proc'[b] \in Process, proc' = [proc EXCEPT ![b] = proc'[b]],
         \A a \in Bots \ {b} : late'[a] = late[a],
         proc'[b].at \in BuildSteps => proc'[b].config # None /\ IsCopy(b, proc'[b].config),
         proc'[b].at = "get_credential" => IsLive(proc'[b].config),
         proc'[b].at \in {"no_strategy", "no_credential"} => Deleted(b),
         late'[b] > 0 =>
            /\ Deleted(b) /\ late'[b] = 1
            /\ proc'[b].at \in {"down", "get_bot", "entry_event", "record_trade"}
  PROVE  ControlInv'
<1>1. proc \in [Bots -> Process] /\ observed \subseteq Bots
  BY DEF ControlInv, TypeOK
<1>2. proc' \in [Bots -> Process] /\ \A a \in Bots \ {b} : proc'[a] = proc[a]
  BY <1>1
<1>3. \A a \in Bots \ {b} :
        /\ proc[a].at \in BuildSteps => proc[a].config # None /\ IsCopy(a, proc[a].config)
        /\ proc[a].at = "get_credential" => IsLive(proc[a].config)
        /\ proc[a].at \in {"no_strategy", "no_credential"} => Deleted(a)
        /\ late[a] > 0 =>
              /\ Deleted(a) /\ late[a] = 1
              /\ proc[a].at \in {"down", "get_bot", "entry_event", "record_trade"}
  BY DEF ControlInv, TypeOK, References, BuildFindsWhatItNeeds, LateIsLast
<1> QED  BY <1>1, <1>2, <1>3, SameRowsInv

(* What a process holds, and may go on to hold.                            *)
LEMMA Typing ==
  ASSUME ControlInv, NEW b \in Bots
  PROVE  /\ row \in [Bots -> Row \cup {None}] /\ proc \in [Bots -> Process]
         /\ late \in [Bots -> 0..MaxLate]
         /\ proc[b].config \in Config \cup {None} /\ proc[b].long \in BOOLEAN
         /\ Exists(b) => row[b] \in Row /\ row[b].config \in Config
         /\ NoProcess \in Process /\ NoProcess.at = "down"
<1>1. row \in [Bots -> Row \cup {None}] /\ proc \in [Bots -> Process]
      /\ late \in [Bots -> 0..MaxLate]
  BY DEF ControlInv, TypeOK
<1>2. proc[b].config \in Config \cup {None} /\ proc[b].long \in BOOLEAN
  BY <1>1 DEF Process
<1>3. Exists(b) => row[b] \in Row /\ row[b].config \in Config
  BY <1>1 DEF Exists, Row
<1>4. NoProcess \in Process /\ NoProcess.at = "down"
  BY DEF Process, NoProcess
<1> QED  BY <1>1, <1>2, <1>3, <1>4

(* What is known of a process before its step.                             *)
LEMMA ProcessFacts ==
  ASSUME ControlInv, NEW b \in Bots
  PROVE  /\ Exists(b) =>
              /\ b \in ids
              /\ row[b].config.strategy \in strategies
              /\ row[b].config.credential \in credentials \cup {None}
         /\ proc[b].at \in BuildSteps => proc[b].config # None /\ IsCopy(b, proc[b].config)
         /\ proc[b].at = "get_credential" => IsLive(proc[b].config)
         /\ late[b] \in Nat
         /\ late[b] # 0 =>
              /\ late[b] = 1 /\ Deleted(b)
              /\ proc[b].at \in {"down", "get_bot", "entry_event", "record_trade"}
BY Typing DEF ControlInv, TypeOK, References, LateIsLast, MaxLate

LEMMA BuildInv ==
  ASSUME ControlInv, NEW b \in Bots, GetBot(b) \/ GetStrategy(b) \/ GetCredential(b) \/ GetState(b)
  PROVE  ControlInv'
<1>1. UNCHANGED <<ids, strategies, credentials, row, req, observed, late>>
  BY DEF tables, GetBot, GetStrategy, GetCredential, GetState
<1>2. SameRows /\ late' \in [Bots -> 0..MaxLate] /\ \A a \in Bots \ {b} : late'[a] = late[a]
  BY <1>1, Typing DEF SameRows, Exists
<1>3. proc'[b] \in Process /\ proc' = [proc EXCEPT ![b] = proc'[b]]
  <2> USE Typing DEF Step, Goto, Down, Process, BuildSteps, RunSteps
  <2>1. CASE GetBot(b)
    <3>1. CASE Exists(b)
      <4> DEFINE p == [at |-> "get_strategy", config |-> row[b].config, long |-> FALSE]
      <4>1. proc' = [proc EXCEPT ![b] = p]
        BY <2>1, <3>1 DEF GetBot
      <4>2. p \in Process
        BY <3>1
      <4> HIDE DEF p
      <4> QED  BY <4>1, <4>2
    <3>2. CASE ~Exists(b)
      <4>1. proc' = [proc EXCEPT ![b] = NoProcess]
        BY <2>1, <3>2 DEF GetBot
      <4> QED  BY <4>1
    <3> QED  BY <3>1, <3>2
  <2>2. CASE GetStrategy(b)
    BY <2>2 DEF GetStrategy
  <2>3. CASE GetCredential(b)
    BY <2>3 DEF GetCredential
  <2>4. CASE GetState(b)
    BY <2>4 DEF GetState
  <2> QED  BY <2>1, <2>2, <2>3, <2>4
<1>4. CASE GetBot(b)
  <2>1. CASE ~Exists(b)
    <3>1. proc'[b] = NoProcess
      BY <1>4, <2>1, Typing DEF GetBot, Down
    <3> QED  BY <1>1, <1>2, <1>3, <3>1, MoveInv, Typing, ProcessFacts DEF BuildSteps
  <2>2. CASE Exists(b)
    <3>1. proc'[b].at = "get_strategy" /\ proc'[b].config = row[b].config
      BY <1>4, <2>2, Typing DEF GetBot, Step
    <3>2. row[b].config # None /\ IsCopy(b, row[b].config) /\ ~Deleted(b)
      BY <2>2, Typing, ProcessFacts DEF IsCopy, Deleted
    <3> QED  BY <1>1, <1>2, <1>3, <3>1, <3>2, MoveInv, ProcessFacts
  <2> QED  BY <2>1, <2>2
<1>5. CASE GetStrategy(b) \/ GetCredential(b)
  <2>1. proc[b].at \in {"get_strategy", "get_credential"} /\ proc[b].at \in BuildSteps
    BY <1>5 DEF GetStrategy, GetCredential, BuildSteps
  <2>2. late[b] = 0 /\ proc[b].config # None /\ IsCopy(b, proc[b].config)
    BY <2>1, ProcessFacts
  <2>3. proc'[b].config = proc[b].config
    BY <1>5, Typing DEF GetStrategy, GetCredential, Goto, Step
  <2>4. proc'[b].at = "get_credential" => IsLive(proc[b].config)
    BY <1>5, <2>2, Typing DEF GetStrategy, GetCredential, Goto, Step, IsLive
  <2>5. proc'[b].at \in {"no_strategy", "no_credential"} => Deleted(b)
    <3>1. proc'[b].at \in {"no_strategy", "no_credential"} =>
            \/ proc[b].config.strategy \notin strategies
            \/ proc[b].at = "get_credential" /\ proc[b].config.credential \notin credentials
      BY <1>5, Typing DEF GetStrategy, GetCredential, Goto, Step
    <3> QED  BY <2>2, <3>1, ProcessFacts DEF IsCopy, Deleted, IsLive
  <2> QED  BY <1>1, <1>2, <1>3, <2>2, <2>3, <2>4, <2>5, MoveInv
<1>6. CASE GetState(b)
  <2>1. proc'[b].at = "report" /\ late[b] = 0
    BY <1>6, Typing, ProcessFacts DEF GetState, Step
  <2> QED  BY <1>1, <1>2, <1>3, <2>1, MoveInv DEF BuildSteps
<1> QED  BY <1>4, <1>5, <1>6

(* Statements and orders of a process that runs.                           *)
LEMMA CandleInv ==
  ASSUME ControlInv, NEW b \in Bots, Candle(b)
  PROVE  ControlInv'
<1>1. ASSUME NEW from \in RunSteps, NEW to \in RunSteps, NEW long \in BOOLEAN,
             Insert(b, from, to, long)
      PROVE  ControlInv'
  <2>1. UNCHANGED <<ids, strategies, credentials, row, req, observed, late>>
    BY <1>1 DEF Insert, tables
  <2>2. SameRows /\ late' \in [Bots -> 0..MaxLate] /\ \A a \in Bots \ {b} : late'[a] = late[a]
    BY <2>1, Typing DEF SameRows, Exists
  <2>3. proc'[b] \in Process /\ proc' = [proc EXCEPT ![b] = proc'[b]]
    BY <1>1, Typing DEF Insert, Step, Down, Process
  <2>4. proc'[b].at = "down" \/ (late[b] = 0 /\ proc'[b].at \in RunSteps)
    BY <1>1, Typing, ProcessFacts DEF Insert, Step, Down, Deleted
  <2> QED  BY <2>1, <2>2, <2>3, <2>4, MoveInv, ProcessFacts DEF BuildSteps, RunSteps
<1>2. CASE SaveState(b)
  <2> USE <1>2 DEF SaveState, Step, Goto, Down
  <2>1. late[b] = 0 /\ UNCHANGED <<observed, late>>
    BY ProcessFacts
  <2>2. SameRows /\ late' \in [Bots -> 0..MaxLate] /\ \A a \in Bots \ {b} : late'[a] = late[a]
    BY Typing DEF SameRows, Exists, Row
  <2>3. proc'[b] \in Process /\ proc' = [proc EXCEPT ![b] = proc'[b]]
    BY Typing DEF Process, RunSteps
  <2>4. proc'[b].at \in {"down", "idle"}
    BY Typing
  <2> HIDE <1>2 DEF SaveState, Step, Goto, Down
  <2> QED  BY <2>1, <2>2, <2>3, <2>4, MoveInv DEF BuildSteps
<1>3. ASSUME NEW to \in {"entry_event", "record_trade"}, proc[b].at \in {"idle", "sell"},
             Order(b, to, TRUE)
      PROVE  ControlInv'
  <2> USE <1>3 DEF Order, Step
  <2>1. UNCHANGED <<ids, strategies, credentials, row, req, observed>> /\ late[b] = 0
    BY ProcessFacts DEF tables
  <2>2. SameRows
    BY <2>1, Typing DEF SameRows, Exists
  <2>3. /\ late' \in [Bots -> 0..MaxLate]
        /\ \A a \in Bots \ {b} : late'[a] = late[a]
        /\ late'[b] > 0 => Deleted(b) /\ late'[b] = 1
    BY <2>1, Typing DEF MaxLate
  <2>4. proc'[b] \in Process /\ proc' = [proc EXCEPT ![b] = proc'[b]] /\ proc'[b].at = to
    BY Typing DEF Process, RunSteps
  <2> HIDE DEF Order, Step
  <2> QED  BY <2>1, <2>2, <2>3, <2>4, MoveInv DEF BuildSteps
<1> QED
  BY <1>1, <1>2, <1>3, Typing DEF Candle, Report, EntryEvent, HardStop, Rejected, RecordTrade, ExitEvent,
     OpenLong, CloseLong, RunSteps

-----------------------------------------------------------------------------
(***************************************************************************)
(* The requests.                                                           *)
(***************************************************************************)
(* A step of a handler leaves the processes alone.                         *)
SameProcesses == UNCHANGED <<proc, observed, late>>

(* Handlers that change strategies, credentials or rows.  Rows may go, and *)
(* those that stay are what they were.                                     *)
LEMMA TableInv ==
  ASSUME ControlInv, SameProcesses,
         ids' \subseteq Strategies \cup Credentials \cup Bots, ids \subseteq ids',
         strategies' \subseteq Strategies \cap ids',
         credentials' \subseteq Credentials \cap ids',
         row' \in [Bots -> Row \cup {None}], req' \in [Requests -> Request],
         \A r \in Requests :
            /\ req'[r].at # "idle" => req'[r].config # None
            /\ req'[r].at \in OfBot => req'[r].bot # None
            /\ req'[r].at = "credential" => IsLive(req'[r].config),
         \A b \in Bots :
            /\ Exists(b)' =>
                  /\ b \in ids'
                  /\ Exists(b) => row'[b].config = row[b].config
                  /\ ~Exists(b) => b \notin ids
                  /\ row'[b].config.strategy \in strategies'
                  /\ row'[b].config.credential \in credentials' \cup {None}
            /\ \A r \in Requests : req'[r].bot = b =>
                  /\ IsCopy(b, req'[r].config)
                  /\ req'[r].at \in {"refused", "crashed"} => Deleted(b)
  PROVE  ControlInv'
<1> USE DEF ControlInv, SameProcesses, Deleted
<1>1. TypeOK'
  BY DEF TypeOK
<1>2. \A b \in Bots : Deleted(b) => Deleted(b)'
  OBVIOUS
<1>3. References'
  BY DEF References, IsCopy
<1>4. BuildFindsWhatItNeeds' /\ LateIsLast'
  BY <1>2 DEF BuildFindsWhatItNeeds, LateIsLast
<1>5. RefusedMeansDeleted'
  <2>1. \A r \in Requests : req'[r].at \in {"refused", "crashed"} => req'[r].bot \in Bots
    BY DEF Request, NoRequest
  <2> QED  BY <1>2, <2>1 DEF RefusedMeansDeleted
<1> QED  BY <1>1, <1>3, <1>4, <1>5

LEMMA DesiredRow ==
  ASSUME NEW r \in Row, NEW d \in BOOLEAN
  PROVE  [r EXCEPT !.desired = d] \in Row /\ [r EXCEPT !.desired = d].config = r.config
BY DEF Row

LEMMA ResourceInv ==
  ASSUME ControlInv,
         \/ \E s \in Strategies : CreateStrategy(s) \/ DeleteStrategy(s)
         \/ \E c \in Credentials : CreateCredential(c) \/ DeleteCredential(c)
         \/ \E b \in Bots : StopBot(b)
  PROVE  ControlInv'
<1> USE DEF CreateStrategy, DeleteStrategy, CreateCredential, DeleteCredential, StopBot
<1>0. /\ ids \subseteq Strategies \cup Credentials \cup Bots
      /\ strategies \subseteq Strategies \cap ids /\ credentials \subseteq Credentials \cap ids
      /\ row \in [Bots -> Row \cup {None}] /\ req \in [Requests -> Request]
      /\ \A b \in Bots : Exists(b) =>
            /\ b \in ids /\ row[b] \in Row
            /\ row[b].config.strategy \in strategies
            /\ row[b].config.credential \in credentials \cup {None}
  BY DEF ControlInv, TypeOK, References, Exists
<1>1. /\ SameProcesses /\ UNCHANGED req
      /\ ids' \subseteq Strategies \cup Credentials \cup Bots /\ ids \subseteq ids'
      /\ strategies' \subseteq Strategies \cap ids' /\ credentials' \subseteq Credentials \cap ids'
  BY <1>0 DEF SameProcesses
<1>2. /\ row' \in [Bots -> Row \cup {None}]
      /\ \A b \in Bots : Exists(b)' =>
            /\ Exists(b) /\ row'[b].config = row[b].config
            /\ row'[b].config.strategy \in strategies'
            /\ row'[b].config.credential \in credentials' \cup {None}
  <2>1. CASE \E s \in Strategies : CreateStrategy(s)
    BY <1>0, <2>1 DEF Exists
  <2>2. ASSUME NEW s \in Strategies, DeleteStrategy(s)
        PROVE  <1>2
    BY <1>0, <2>2 DEF Exists
  <2>3. ASSUME NEW c \in Credentials, CreateCredential(c) \/ DeleteCredential(c)
        PROVE  <1>2
    BY <1>0, <2>3 DEF Exists
  <2>4. ASSUME NEW b \in Bots, StopBot(b)
        PROVE  <1>2
    <3> DEFINE new == [row[b] EXCEPT !.desired = FALSE]
    <3>1. new \in Row /\ new.config = row[b].config
      BY <1>0, <2>4, DesiredRow
    <3>2. UNCHANGED <<strategies, credentials>> /\ row' = [row EXCEPT ![b] = new] /\ Exists(b)
      BY <2>4
    <3> HIDE DEF new, StopBot
    <3> QED  BY <1>0, <3>1, <3>2 DEF Exists
  <2> QED  BY <2>1, <2>2, <2>3, <2>4
<1>3. \A b \in Bots : \A r \in Requests : req[r].bot = b =>
        IsCopy(b, req[r].config) /\ (req[r].at \in {"refused", "crashed"} => Deleted(b))
  BY DEF ControlInv, References, RefusedMeansDeleted
<1>4. \A r \in Requests :
        /\ req[r].at # "idle" => req[r].config # None
        /\ req[r].at \in OfBot => req[r].bot # None
        /\ req[r].at = "credential" => IsLive(req[r].config)
  BY DEF ControlInv, TypeOK
<1> HIDE DEF CreateStrategy, DeleteStrategy, CreateCredential, DeleteCredential, StopBot
<1> QED  BY <1>0, <1>1, <1>2, <1>3, <1>4, TableInv

(* A handler moves on: its request is one of those TableInv allows.        *)
LEMMA RequestInv ==
  ASSUME ControlInv, SameProcesses, UNCHANGED <<strategies, credentials>>,
         ids' \subseteq Strategies \cup Credentials \cup Bots, ids \subseteq ids',
         row' \in [Bots -> Row \cup {None}],
         \A b \in Bots : Exists(b)' =>
            \/ Exists(b) /\ row'[b].config = row[b].config
            \/ /\ b \in ids' \ ids
               /\ row'[b].config.strategy \in strategies
               /\ row'[b].config.credential \in credentials \cup {None},
         NEW r \in Requests, req'[r] \in Request, req' = [req EXCEPT ![r] = req'[r]],
         req'[r].at # "idle" => req'[r].config # None,
         req'[r].at \in OfBot => req'[r].bot # None,
         req'[r].at = "credential" => IsLive(req'[r].config),
         req'[r].bot # None =>
            /\ IsCopy(req'[r].bot, req'[r].config)
            /\ req'[r].at \in {"refused", "crashed"} => Deleted(req'[r].bot)
  PROVE  ControlInv'
<1>1. /\ strategies \subseteq Strategies \cap ids /\ credentials \subseteq Credentials \cap ids
      /\ req \in [Requests -> Request]
  BY DEF ControlInv, TypeOK
<1>2. req' \in [Requests -> Request] /\ \A q \in Requests \ {r} : req'[q] = req[q]
  BY <1>1
<1>3. \A q \in Requests \ {r} :
        /\ req[q].at # "idle" => req[q].config # None
        /\ req[q].at \in OfBot => req[q].bot # None
        /\ req[q].at = "credential" => IsLive(req[q].config)
  BY DEF ControlInv, TypeOK
<1>4. \A b \in Bots : \A q \in Requests \ {r} : req[q].bot = b =>
        IsCopy(b, req[q].config) /\ (req[q].at \in {"refused", "crashed"} => Deleted(b))
  BY DEF ControlInv, References, RefusedMeansDeleted
<1>5. \A b \in Bots : Exists(b) =>
        /\ b \in ids
        /\ row[b].config.strategy \in strategies
        /\ row[b].config.credential \in credentials \cup {None}
  BY DEF ControlInv, References
<1>6. \A q \in Requests :
        /\ req'[q].at # "idle" => req'[q].config # None
        /\ req'[q].at \in OfBot => req'[q].bot # None
        /\ req'[q].at = "credential" => IsLive(req'[q].config)
  BY <1>2, <1>3
<1>7. \A b \in Bots : \A q \in Requests : req'[q].bot = b =>
        /\ IsCopy(b, req'[q].config)
        /\ req'[q].at \in {"refused", "crashed"} => Deleted(b)
  BY <1>2, <1>4
<1>8. \A b \in Bots : Exists(b)' =>
        /\ b \in ids'
        /\ Exists(b) => row'[b].config = row[b].config
        /\ ~Exists(b) => b \notin ids
        /\ row'[b].config.strategy \in strategies'
        /\ row'[b].config.credential \in credentials' \cup {None}
  BY <1>5
<1> QED  BY <1>1, <1>2, <1>6, <1>7, <1>8, TableInv

LEMMA HandlerInv ==
  ASSUME ControlInv, NEW r \in Requests, Handler(r)
  PROVE  ControlInv'
<1> USE DEF Goes, Ends
<1>0. /\ ids \subseteq Strategies \cup Credentials \cup Bots
      /\ row \in [Bots -> Row \cup {None}] /\ req \in [Requests -> Request]
      /\ \A b \in Bots : Exists(b) =>
            /\ b \in ids /\ row[b] \in Row /\ row[b].config \in Config
            /\ row[b].config.credential \in credentials \cup {None}
  BY DEF ControlInv, TypeOK, References, Row, Exists
<1>1. /\ req[r].bot \in Bots \cup {None} /\ req[r].config \in Config \cup {None}
      /\ req[r].at # "idle" => req[r].config # None
      /\ req[r].at \in OfBot => req[r].bot # None
      /\ req[r].at = "credential" => IsLive(req[r].config)
      /\ req[r].bot # None => IsCopy(req[r].bot, req[r].config)
  BY <1>0 DEF ControlInv, TypeOK, References, Request
<1>2. CASE \E config \in Config : CreateBot(r, config)
  <2> PICK config \in Config : CreateBot(r, config)
    BY <1>2
  <2>1. SameProcesses /\ UNCHANGED <<ids, strategies, credentials, row>>
    BY DEF CreateBot, OnlyRequests, tables, SameProcesses
  <2>2. /\ req'[r] = [at |-> "insert", bot |-> None, config |-> config]
        /\ req' = [req EXCEPT ![r] = req'[r]]
    BY <1>0 DEF CreateBot
  <2>3. req'[r] \in Request
    BY <2>2 DEF Request
  <2> QED  BY <1>0, <2>1, <2>2, <2>3, RequestInv DEF Exists, OfBot
<1>3. ASSUME NEW b \in Bots, InsertBot(r, b)
      PROVE  ControlInv'
  <2> USE <1>3 DEF InsertBot
  <2>1. SameProcesses /\ UNCHANGED <<strategies, credentials>>
    BY DEF SameProcesses
  <2>2. req'[r] = NoRequest /\ req' = [req EXCEPT ![r] = req'[r]]
    BY <1>0
  <2>3. /\ ids' \subseteq Strategies \cup Credentials \cup Bots /\ ids \subseteq ids'
        /\ row' \in [Bots -> Row \cup {None}]
        /\ \A a \in Bots : Exists(a)' =>
              \/ Exists(a) /\ row'[a].config = row[a].config
              \/ /\ a \in ids' \ ids
                 /\ row'[a].config.strategy \in strategies
                 /\ row'[a].config.credential \in credentials \cup {None}
    <3>1. req[r].config \in Config
      BY <1>1
    <3>2. CASE UNCHANGED <<ids, row>>
      BY <1>0, <3>2 DEF Exists
    <3>3. CASE req[r].config.strategy \in strategies /\ req[r].config.credential \in credentials \cup {None}
      <4> DEFINE new == [config |-> req[r].config, desired |-> FALSE, state |-> "none"]
      <4>1. new \in Row /\ new.config = req[r].config
        BY <3>1 DEF Row
      <4>2. ids' = ids \cup {b} /\ row' = [row EXCEPT ![b] = new] /\ b \notin ids
        BY <3>3
      <4> HIDE DEF new
      <4> QED  BY <1>0, <3>3, <4>1, <4>2 DEF Exists
    <3> QED  BY <3>2, <3>3
  <2> HIDE <1>3 DEF InsertBot
  <2> QED  BY <2>1, <2>2, <2>3, RequestInv DEF NoRequest, Request, OfBot
<1>4. ASSUME NEW b \in Bots, FindToDelete(r, b) \/ FindToStart(r, b)
      PROVE  ControlInv'
  <2> USE <1>4 DEF FindToDelete, FindToStart
  <2>1. SameProcesses /\ UNCHANGED <<ids, strategies, credentials, row>> /\ Exists(b)
    BY DEF OnlyRequests, tables, SameProcesses
  <2>2. /\ req'[r].bot = b /\ req'[r].config = row[b].config
        /\ req'[r].at \in {"delete", "set", "credential"}
        /\ req'[r].at = "credential" => row[b].config.credential # None
        /\ req' = [req EXCEPT ![r] = req'[r]] /\ req'[r] \in Request
    BY <1>0, <2>1 DEF Request, OfBot
  <2>3. row[b].config # None /\ b # None /\ IsCopy(b, row[b].config)
    BY <1>0, <2>1 DEF IsCopy
  <2> HIDE <1>4 DEF FindToDelete, FindToStart
  <2> QED  BY <1>0, <2>1, <2>2, <2>3, RequestInv DEF IsLive, Exists
<1>5. CASE DeleteBot(r)
  <2> USE <1>5 DEF DeleteBot
  <2>1. SameProcesses /\ UNCHANGED <<ids, strategies, credentials>>
    BY DEF SameProcesses
  <2>2. req'[r] = NoRequest /\ req' = [req EXCEPT ![r] = req'[r]]
    BY <1>0
  <2>3. /\ row' \in [Bots -> Row \cup {None}]
        /\ \A a \in Bots : Exists(a)' => Exists(a) /\ row'[a].config = row[a].config
    BY <1>0 DEF Exists
  <2> HIDE <1>5 DEF DeleteBot
  <2> QED  BY <1>0, <2>1, <2>2, <2>3, RequestInv DEF NoRequest, Request, OfBot
<1>6. CASE CheckCredential(r)
  <2> USE <1>6 DEF CheckCredential
  <2>1. SameProcesses /\ UNCHANGED <<ids, strategies, credentials, row>>
    BY DEF OnlyRequests, tables, SameProcesses
  <2>2. /\ req'[r].bot = req[r].bot /\ req'[r].config = req[r].config
        /\ req'[r].at = IF req[r].config.credential \in credentials THEN "set" ELSE "refused"
        /\ req' = [req EXCEPT ![r] = req'[r]]
    BY <1>0
  <2>3. /\ req[r].bot \in Bots /\ req[r].config # None /\ IsLive(req[r].config)
        /\ IsCopy(req[r].bot, req[r].config)
    BY <1>1 DEF OfBot
  <2>4. req'[r] \in Request
    BY <1>0, <1>1 DEF Request, OfBot
  <2>5. req'[r].at = "refused" => Deleted(req[r].bot)
    BY <1>0, <2>2, <2>3 DEF Deleted, IsCopy, IsLive
  <2> HIDE <1>6 DEF CheckCredential
  <2> QED  BY <1>0, <2>1, <2>2, <2>3, <2>4, <2>5, RequestInv DEF Exists
<1>7. CASE SetRunning(r)
  <2> USE <1>7 DEF SetRunning
  <2>1. SameProcesses /\ UNCHANGED <<ids, strategies, credentials>>
    BY DEF SameProcesses
  <2>2. req[r].bot \in Bots /\ IsCopy(req[r].bot, req[r].config) /\ req[r].config # None
    BY <1>1 DEF OfBot
  <2>3. \/ req'[r] = NoRequest
        \/ /\ ~Exists(req[r].bot)
           /\ req'[r] = [at |-> "crashed", bot |-> req[r].bot, config |-> req[r].config]
    BY <1>0
  <2>4. req' = [req EXCEPT ![r] = req'[r]] /\ req'[r] \in Request
    BY <1>0, <1>1 DEF Request, NoRequest, OfBot
  <2>5. /\ row' \in [Bots -> Row \cup {None}]
        /\ \A a \in Bots : Exists(a)' => Exists(a) /\ row'[a].config = row[a].config
    <3>1. CASE UNCHANGED row
      BY <1>0, <3>1 DEF Exists
    <3>2. CASE Exists(req[r].bot)
      <4> DEFINE new == [row[req[r].bot] EXCEPT !.desired = TRUE]
      <4>1. new \in Row /\ new.config = row[req[r].bot].config
        BY <1>0, <2>2, <3>2, DesiredRow
      <4>2. row' = [row EXCEPT ![req[r].bot] = new]
        BY <3>2
      <4> HIDE DEF new, SetRunning
      <4> QED  BY <1>0, <2>2, <3>2, <4>1, <4>2 DEF Exists
    <3> QED  BY <3>1, <3>2
  <2>6. ~Exists(req[r].bot) => Deleted(req[r].bot)
    BY <2>2 DEF Deleted, IsCopy
  <2> HIDE <1>7 DEF SetRunning
  <2> QED  BY <1>0, <2>1, <2>2, <2>3, <2>4, <2>5, <2>6, RequestInv DEF NoRequest, OfBot
<1> QED  BY <1>2, <1>3, <1>4, <1>5, <1>6, <1>7 DEF Handler

-----------------------------------------------------------------------------
LEMMA NextInv == ControlInv /\ [Next]_vars => ControlInv'
<1> SUFFICES ASSUME ControlInv, [Next]_vars  PROVE ControlInv'
  OBVIOUS
<1>1. CASE UNCHANGED vars
  <2> USE <1>1 DEF vars, tables, ControlInv, Exists, Deleted, IsCopy
  <2>1. TypeOK' /\ References'
    BY DEF TypeOK, References
  <2>2. BuildFindsWhatItNeeds' /\ RefusedMeansDeleted' /\ LateIsLast'
    BY DEF BuildFindsWhatItNeeds, RefusedMeansDeleted, LateIsLast
  <2> QED  BY <2>1, <2>2
<1>2. CASE \E s \in Strategies : CreateStrategy(s) \/ DeleteStrategy(s)
  BY <1>2, ResourceInv
<1>3. CASE \E c \in Credentials : CreateCredential(c) \/ DeleteCredential(c)
  BY <1>3, ResourceInv
<1>4. CASE \E r \in Requests : Handler(r)
  BY <1>4, HandlerInv
<1>5. CASE \E b \in Bots : StopBot(b) \/ Launch(b) \/ Exit(b) \/ Build(b) \/ Candle(b)
  BY <1>5, ResourceInv, SupervisorInv, BuildInv, CandleInv DEF Build
<1>6. CASE Observe \/ Collapse
  BY <1>6, SupervisorInv
<1> QED  BY <1>1, <1>2, <1>3, <1>4, <1>5, <1>6 DEF Next

(* Whoever acts on a copy of a bots row acts on what the row says, as long *)
(* as there is one: the invariant of routers/bots.py, the repository, the  *)
(* supervisor and bot.py together.                                         *)
THEOREM ControlInvariant == Spec => []ControlInv
BY InitInv, NextInv, PTL DEF Spec

(* build_bot finds the strategy and credential of a bot that is there.     *)
THEOREM BotsThatExistCanBeBuilt == Spec => []BuildFindsWhatItNeeds
<1>1. ControlInv => BuildFindsWhatItNeeds
  BY DEF ControlInv
<1> QED  BY <1>1, ControlInvariant, PTL

(* start_bot refuses a bot, or fails on it, only when it has been deleted. *)
THEOREM RefusedBotsAreDeleted == Spec => []RefusedMeansDeleted
<1>1. ControlInv => RefusedMeansDeleted
  BY DEF ControlInv
<1> QED  BY <1>1, ControlInvariant, PTL

(* A process places at most one order after its row is gone.               *)
THEOREM OneLateOrder == Spec => []OneOrderAfterDelete
<1>1. ControlInv => OneOrderAfterDelete
  BY DEF ControlInv, TypeOK, LateIsLast, OneOrderAfterDelete, MaxLate
<1> QED  BY <1>1, ControlInvariant, PTL
=============================================================================
