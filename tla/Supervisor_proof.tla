-------------------------- MODULE Supervisor_proof --------------------------
(***************************************************************************)
(* Proofs about the supervisor, for any finite set of bots, any process    *)
(* ids and any settings: the inductive invariant, the safety invariants    *)
(* that follow from it, that the supervisor implements the safety part of  *)
(* the reconciler, and what an observer with a longer memory can say.      *)
(***************************************************************************)
EXTENDS SupervisorRefinement, SupervisorHistory, TLAPS, FiniteSetTheorems

-----------------------------------------------------------------------------
(* Sets of ages.                                                           *)

(* A set of ages is finite and has a cardinality.                          *)
LEMMA AgesFinite ==
    ASSUME NEW S \in SUBSET (0..Window)
    PROVE  IsFiniteSet(S) /\ Cardinality(S) \in Nat
<1>1. 0 \in Int /\ Window \in Int
  BY SupervisorAssumption
<1>2. IsFiniteSet(0..Window)
  BY <1>1, FS_Interval
<1>3. IsFiniteSet(S)
  BY <1>2, FS_Subset
<1> QED  BY <1>3, FS_CardinalityType

(* The passage of time makes no restart time of nothing: ages stay ages,   *)
(* and there are no more of them than before.                              *)
LEMMA AgedBounded ==
    ASSUME NEW S \in SUBSET (0..Window)
    PROVE  /\ Aged(S) \in SUBSET (0..Window)
           /\ Cardinality(Aged(S)) <= Cardinality(S)
<1> DEFINE older(a) == IF a < Window THEN a + 1 ELSE Window
           f == [a \in S |-> older(a)]
<1>1. Aged(S) \in SUBSET (0..Window)
  BY SupervisorAssumption DEF Aged
<1>2. f \in Surjection(S, Aged(S))
  BY DEF Surjection, Aged
<1>3. Cardinality(Aged(S)) <= Cardinality(S)
  BY <1>2, AgesFinite, FS_Surjection
<1> QED  BY <1>1, <1>3

(* A restart below the limit, recorded, stays within it.                   *)
LEMMA RestartBounded ==
    ASSUME NEW S \in SUBSET (0..Window), ~(Cardinality(InWindow(S)) >= MaxRestarts)
    PROVE  /\ InWindow(S) \cup {0} \in SUBSET (0..Window)
           /\ Cardinality(InWindow(S) \cup {0}) <= MaxRestarts
<1>1. InWindow(S) \in SUBSET (0..Window)
  BY DEF InWindow
<1>2. IsFiniteSet(InWindow(S)) /\ Cardinality(InWindow(S)) \in Nat
  BY <1>1, AgesFinite
<1>3. Cardinality(InWindow(S) \cup {0})
        = IF 0 \in InWindow(S) THEN Cardinality(InWindow(S)) ELSE Cardinality(InWindow(S)) + 1
  BY <1>2, FS_AddElement, Zenon
<1>4. InWindow(S) \cup {0} \in SUBSET (0..Window)
  BY <1>1, SupervisorAssumption
<1>5. Cardinality(InWindow(S) \cup {0}) \in Nat
  BY <1>4, AgesFinite
<1> QED  BY <1>2, <1>3, <1>4, <1>5, SupervisorAssumption

-----------------------------------------------------------------------------
(* The inductive invariant.                                                *)

(* The loop starts with no process, no child and no bot given up.          *)
LEMMA InitInv == Init => SupervisorInv
<1> SUFFICES ASSUME Init PROVE SupervisorInv
  OBVIOUS
<1> USE SupervisorAssumption DEF Init
<1>1. TypeOK
  BY DEF TypeOK, Status, Phases
<1>2. ProcessTable /\ NoOrphan /\ WaitingIsUnwanted /\ PassBookkeeping
  BY DEF ProcessTable, NoOrphan, WaitingIsUnwanted, PassBookkeeping, HasChild
<1>3. RestartsBounded
  BY FS_EmptySet DEF RestartsBounded
<1> QED  BY <1>1, <1>2, <1>3 DEF SupervisorInv

(* The steps of the API and of the bot processes.                          *)
LEMMA OutsideStepInv ==
    ASSUME SupervisorInv, Api \/ BotProcess
    PROVE  SupervisorInv'
<1> USE SupervisorAssumption DEF SupervisorInv
<1>1. ASSUME NEW b \in Bots, StartBot(b) \/ StopBot(b)
      PROVE  SupervisorInv'
  BY <1>1 DEF StartBot, StopBot, TypeOK, ProcessTable, NoOrphan, WaitingIsUnwanted,
              PassBookkeeping, RestartsBounded, HasChild, osVars, supVars
<1>2. ASSUME NEW p \in Pids,
             Boot(p) \/ FeedStops(p) \/ CircuitBreak(p) \/ Crash(p) \/ DieSilently(p)
      PROVE  SupervisorInv'
  <2>1. /\ phase[p] \in LivePhases
        /\ \E ph \in {"trading", "exited"} : phase' = [phase EXCEPT ![p] = ph]
        /\ status' = status \/ \E s \in Status : status' = [status EXCEPT ![owner[p]] = s]
        /\ UNCHANGED <<desired, owner, supVars, faults>>
    BY <1>2 DEF Boot, FeedStops, CircuitBreak, Crash, DieSilently, Exits, Reports,
                LivePhases, Status, dbVars
  <2>2. owner[p] \in Bots
    BY <2>1 DEF TypeOK, ProcessTable, LivePhases
  <2>3. TypeOK'
    BY <2>1, <2>2 DEF TypeOK, Phases, supVars
  <2>4. ProcessTable' /\ NoOrphan'
    BY <2>1 DEF TypeOK, ProcessTable, NoOrphan, LivePhases, HasChild, supVars
  <2>5. WaitingIsUnwanted' /\ PassBookkeeping' /\ RestartsBounded'
    BY <2>1 DEF WaitingIsUnwanted, PassBookkeeping, RestartsBounded, HasChild, supVars
  <2> QED  BY <2>3, <2>4, <2>5
<1> QED  BY <1>1, <1>2 DEF Api, BotProcess

(* The passage of time only ages the restart times and ends a sleep.       *)
LEMMA TimeInv ==
    ASSUME SupervisorInv, TimePasses
    PROVE  SupervisorInv'
<1> USE SupervisorAssumption DEF SupervisorInv
<1>1. \A b \in Bots : restart_times[b] \in SUBSET (0..Window)
  BY DEF TypeOK
<1>2. \A b \in Bots : restart_times'[b] = Aged(restart_times[b])
  BY DEF TimePasses
<1>3. TypeOK'
  BY <1>1, <1>2, AgedBounded DEF TypeOK, TimePasses, dbVars, osVars
<1>4. RestartsBounded'
  <2> SUFFICES ASSUME NEW b \in Bots
               PROVE  Cardinality(restart_times'[b]) <= MaxRestarts
    BY DEF RestartsBounded
  <2>1. Cardinality(restart_times'[b]) <= Cardinality(restart_times[b])
    BY <1>1, <1>2, AgedBounded
  <2>2. Cardinality(restart_times[b]) \in Nat /\ Cardinality(restart_times'[b]) \in Nat
    BY <1>1, <1>2, AgedBounded, AgesFinite
  <2> QED  BY <2>1, <2>2 DEF RestartsBounded
<1>5. ProcessTable' /\ NoOrphan' /\ WaitingIsUnwanted' /\ PassBookkeeping'
  BY DEF TimePasses, ProcessTable, NoOrphan, WaitingIsUnwanted, PassBookkeeping,
         HasChild, dbVars, osVars
<1> QED  BY <1>3, <1>4, <1>5

(* Giving a process id back, and the handle that held it.                  *)
LEMMA ReapInv ==
    ASSUME SupervisorInv, NEW b \in Bots,
           \/ ReapAlive(b) \/ ReapUndesired(b) \/ ReapGiveUp(b)
           \/ ReapGiveUpUnmarked(b) \/ ReapRestartFails(b)
    PROVE  SupervisorInv'
<1> USE SupervisorAssumption DEF SupervisorInv
<1>1. CASE ReapAlive(b)
  BY <1>1 DEF ReapAlive, Reaping, TypeOK, ProcessTable, NoOrphan, WaitingIsUnwanted,
              PassBookkeeping, RestartsBounded, HasChild, dbVars, osVars
<1>2. CASE \/ ReapUndesired(b) \/ ReapGiveUp(b)
           \/ ReapGiveUpUnmarked(b) \/ ReapRestartFails(b)
  <2> DEFINE c == children[b]
  <2>1. /\ pc = "pass" /\ pc' \in {"pass", "sleep"} /\ b \in todo
        /\ todo' \subseteq todo \ {b} /\ (pc' = "sleep" => todo' = {})
        /\ owner' = [owner EXCEPT ![c] = NoBot]
        /\ phase' = [phase EXCEPT ![c] = "free"]
        /\ children' = [children EXCEPT ![b] = NoPid]
        /\ restart_times' = [restart_times EXCEPT ![b] = {}]
        /\ given_up' \subseteq given_up \cup ({b} \cap desired_running)
        /\ faults' \in {faults, faults + 1} /\ faults' <= MaxFaults
        /\ status' \in {status, [status EXCEPT ![b] = "error"]}
        /\ UNCHANGED <<desired, desired_running, waiting>>
    BY <1>2 DEF ReapUndesired, ReapGiveUp, ReapGiveUpUnmarked, ReapRestartFails, GiveUp,
                Reaping, Release, DropChild, Fault, AbandonPass, dbVars, TypeOK
  <2>2. c \in Pids /\ owner[c] = b /\ phase[c] # "free"
    BY <2>1 DEF TypeOK, ProcessTable, PassBookkeeping, HasChild
  <2>3. TypeOK'
    BY <2>1, <2>2 DEF TypeOK, Phases, Status
  <2>4. ProcessTable'
    BY <2>1, <2>2 DEF TypeOK, ProcessTable, HasChild
  <2>5. NoOrphan'
    BY <2>1, <2>2 DEF TypeOK, ProcessTable, NoOrphan
  <2>6. WaitingIsUnwanted' /\ PassBookkeeping'
    BY <2>1, <2>2 DEF TypeOK, WaitingIsUnwanted, PassBookkeeping, HasChild
  <2>7. RestartsBounded'
    BY <2>1, FS_EmptySet DEF TypeOK, RestartsBounded
  <2> QED  BY <2>3, <2>4, <2>5, <2>6, <2>7
<1> QED  BY <1>1, <1>2

(* A spawn, whether it replaces a dead child or starts a missing bot.      *)
LEMMA SpawnInv ==
    ASSUME SupervisorInv, NEW b \in Bots, NEW p \in Pids, ReapRestart(b, p) \/ Start(b, p)
    PROVE  SupervisorInv'
<1> USE SupervisorAssumption DEF SupervisorInv
<1> DEFINE old == children[b]
           ages == IF ReapRestart(b, p) THEN InWindow(restart_times[b]) \cup {0} ELSE {}
<1>1. /\ pc = "pass" /\ pc' = pc /\ b \in desired_running \ given_up
      /\ todo' = todo \ {b}
      /\ p = old \/ phase[p] = "free"
      /\ owner' = [q \in Pids |-> IF q = p THEN b ELSE IF q = old THEN NoBot ELSE owner[q]]
      /\ phase' = [q \in Pids |-> IF q = p THEN "booting"
                                  ELSE IF q = old THEN "free" ELSE phase[q]]
      /\ children' = [children EXCEPT ![b] = p]
      /\ UNCHANGED <<desired, status, desired_running, given_up, waiting, faults>>
  BY DEF ReapRestart, Start, Reaping, Reaped, ToStart, Spawn, dbVars, PassBookkeeping, HasChild
<1>2. restart_times' = [restart_times EXCEPT ![b] = ages]
  BY DEF ReapRestart, Start, Spawn
<1>3. ages \in SUBSET (0..Window) /\ Cardinality(ages) <= MaxRestarts
  <2>1. CASE ReapRestart(b, p)
    BY <2>1, RestartBounded DEF ReapRestart, CrashLooping, TypeOK
  <2>2. CASE ~ReapRestart(b, p)
    BY <2>2, FS_EmptySet
  <2> QED  BY <2>1, <2>2
<1>4. TypeOK'
  BY <1>1, <1>2, <1>3 DEF TypeOK, Phases
<1>5. ProcessTable'
  BY <1>1 DEF TypeOK, ProcessTable, HasChild
<1>6. NoOrphan'
  BY <1>1 DEF TypeOK, ProcessTable, NoOrphan
<1>7. WaitingIsUnwanted' /\ PassBookkeeping'
  BY <1>1 DEF TypeOK, WaitingIsUnwanted, PassBookkeeping, HasChild
<1>8. RestartsBounded'
  BY <1>2, <1>3 DEF TypeOK, RestartsBounded
<1> QED  BY <1>4, <1>5, <1>6, <1>7, <1>8

(* Stopping a bot: the signal, and the end of the wait.                    *)
LEMMA StopInv ==
    ASSUME SupervisorInv, (\E b \in Bots : Stop(b)) \/ StopDone \/ StopKills
    PROVE  SupervisorInv'
<1> USE SupervisorAssumption DEF SupervisorInv
<1>1. ASSUME NEW b \in Bots, Stop(b)
      PROVE  SupervisorInv'
  <2> DEFINE c == children[b]
  <2>1. c \in Pids /\ owner[c] = b /\ phase[c] # "free" /\ b \in HasChild \ desired_running
    BY <1>1 DEF Stop, ToStop, TypeOK, ProcessTable, HasChild
  <2>2. AfterSigterm(phase[c]) \in Phases \ {"free"}
    BY <2>1 DEF AfterSigterm, TypeOK, Phases
  <2>3. TypeOK'
    BY <1>1, <2>1, <2>2 DEF Stop, DropChild, TypeOK, dbVars
  <2>4. ProcessTable' /\ NoOrphan'
    BY <1>1, <2>1, <2>2 DEF Stop, Reaped, DropChild, TypeOK, ProcessTable, NoOrphan,
       WaitingIsUnwanted, HasChild
  <2>5. WaitingIsUnwanted' /\ PassBookkeeping'
    BY <1>1, <2>1 DEF Stop, Reaped, DropChild, TypeOK, WaitingIsUnwanted, PassBookkeeping,
       HasChild
  <2>6. RestartsBounded'
    BY <1>1, FS_EmptySet DEF Stop, DropChild, TypeOK, RestartsBounded
  <2> QED  BY <2>3, <2>4, <2>5, <2>6
<1>2. ASSUME StopDone \/ StopKills
      PROVE  SupervisorInv'
  <2>1. /\ pc = "waiting" /\ pc' = "pass" /\ waiting' = NoPid
        /\ owner' = [owner EXCEPT ![waiting] = NoBot]
        /\ phase' = [phase EXCEPT ![waiting] = "free"]
        /\ UNCHANGED <<dbVars, desired_running, todo, children, restart_times,
                       given_up, faults>>
    BY <1>2 DEF StopDone, StopKills, Release
  <2>2. waiting \in Pids /\ owner[waiting] \in Bots \ HasChild
    BY <2>1 DEF TypeOK, WaitingIsUnwanted
  <2>3. TypeOK'
    BY <2>1 DEF TypeOK, Phases, dbVars
  <2>4. ProcessTable' /\ NoOrphan'
    BY <2>1, <2>2 DEF TypeOK, ProcessTable, NoOrphan, HasChild
  <2>5. WaitingIsUnwanted' /\ PassBookkeeping' /\ RestartsBounded'
    BY <2>1 DEF WaitingIsUnwanted, PassBookkeeping, RestartsBounded, HasChild
  <2> QED  BY <2>3, <2>4, <2>5
<1> QED  BY <1>1, <1>2

(* The beginning and the end of a pass, a failed start, and a restart of   *)
(* the supervisor.                                                         *)
LEMMA LoopInv ==
    ASSUME SupervisorInv,
           BeginPass \/ EndPass \/ (\E b \in Bots : StartFails(b)) \/ SupervisorRestart
    PROVE  SupervisorInv'
<1> USE SupervisorAssumption DEF SupervisorInv
<1>1. CASE BeginPass
  BY <1>1 DEF BeginPass, TypeOK, ProcessTable, NoOrphan, WaitingIsUnwanted, PassBookkeeping,
              RestartsBounded, HasChild, dbVars, osVars
<1>2. CASE EndPass
  BY <1>2 DEF EndPass, Reaped, TypeOK, ProcessTable, NoOrphan, WaitingIsUnwanted,
              PassBookkeeping, RestartsBounded, HasChild, dbVars, osVars
<1>3. CASE \E b \in Bots : StartFails(b)
  BY <1>3 DEF StartFails, Reaped, Fault, AbandonPass, TypeOK, ProcessTable, NoOrphan,
              WaitingIsUnwanted, PassBookkeeping, RestartsBounded, HasChild, dbVars, osVars
<1>4. CASE SupervisorRestart
  <2>1. TypeOK'
    BY <1>4 DEF SupervisorRestart, Fault, TypeOK, Phases, dbVars
  <2>2. ProcessTable' /\ NoOrphan' /\ WaitingIsUnwanted' /\ PassBookkeeping'
    BY <1>4 DEF SupervisorRestart, TypeOK, ProcessTable, NoOrphan, WaitingIsUnwanted,
       PassBookkeeping, HasChild
  <2>3. RestartsBounded'
    BY <1>4, FS_EmptySet DEF SupervisorRestart, RestartsBounded
  <2> QED  BY <2>1, <2>2, <2>3
<1> QED  BY <1>1, <1>2, <1>3, <1>4

(* Every step of the API, the processes, a pass or a failure keeps the     *)
(* invariant.                                                              *)
LEMMA NextInv == SupervisorInv /\ [Next]_vars => SupervisorInv'
<1> SUFFICES ASSUME SupervisorInv, [Next]_vars
             PROVE  SupervisorInv'
  OBVIOUS
<1>1. CASE UNCHANGED vars
  BY <1>1 DEF SupervisorInv, TypeOK, ProcessTable, NoOrphan, WaitingIsUnwanted,
              PassBookkeeping, RestartsBounded, HasChild, vars, dbVars, osVars, supVars
<1>2. CASE Api \/ BotProcess
  BY <1>2, OutsideStepInv
<1>3. CASE TimePasses
  BY <1>3, TimeInv
<1>4. CASE Pass
  BY <1>4, ReapInv, SpawnInv, StopInv, LoopInv DEF Pass, Reap
<1>5. CASE Failure
  BY <1>5, ReapInv, LoopInv DEF Failure
<1> QED  BY <1>1, <1>2, <1>3, <1>4, <1>5 DEF Next

(* Type correctness and the rest of the inductive invariant hold in every  *)
(* reachable state of the supervisor.                                      *)
THEOREM SupervisorInvariant == Spec => []SupervisorInv
<1> QED  BY InitInv, NextInv, PTL DEF Spec

-----------------------------------------------------------------------------
(* What follows from the inductive invariant.                              *)

(* Two processes of a bot would both have to be its child, or one its      *)
(* child and the other the one being stopped, whose bot has no child.      *)
LEMMA InvImpliesOneProcess == SupervisorInv => OneProcessPerBot
<1> SUFFICES ASSUME SupervisorInv, NEW p \in Pids, NEW q \in Pids,
                    phase[p] # "free", phase[q] # "free", owner[p] = owner[q]
             PROVE  p = q
  BY DEF OneProcessPerBot
<1>1. owner[p] \in Bots
  BY DEF SupervisorInv, TypeOK, ProcessTable
<1>2. CASE children[owner[p]] = NoPid
  BY <1>1, <1>2, SupervisorAssumption DEF SupervisorInv, NoOrphan
<1>3. CASE children[owner[p]] # NoPid
  BY <1>1, <1>3, SupervisorAssumption
     DEF SupervisorInv, TypeOK, NoOrphan, WaitingIsUnwanted, HasChild
<1> QED  BY <1>2, <1>3

(* A bot given up on is neither a child nor being stopped, so no process   *)
(* is its own.                                                             *)
LEMMA InvImpliesGivenUpIsDown == SupervisorInv => GivenUpIsDown
<1> SUFFICES ASSUME SupervisorInv, NEW b \in given_up
             PROVE  b \in desired_running /\ LiveOf(b) = {}
  BY DEF GivenUpIsDown
<1>1. b \in Bots /\ b \in desired_running /\ b \notin HasChild
  BY DEF SupervisorInv, TypeOK, PassBookkeeping
<1>2. ASSUME NEW p \in LiveOf(b) PROVE FALSE
  BY <1>1, <1>2, SupervisorAssumption
     DEF SupervisorInv, TypeOK, NoOrphan, WaitingIsUnwanted, HasChild, LiveOf, LivePhases
<1> QED  BY <1>1, <1>2

(* No bot ever has two processes, whatever the interleaving of passes,     *)
(* exits, stops, failures and restarts of the supervisor.                  *)
THEOREM AtMostOneProcess == Spec => []OneProcessPerBot
<1> QED  BY SupervisorInvariant, InvImpliesOneProcess, PTL

(* The supervisor never loses track of a process it has started.           *)
THEOREM NoProcessIsLost == Spec => []NoOrphan
<1>1. SupervisorInv => NoOrphan
  BY DEF SupervisorInv
<1> QED  BY <1>1, SupervisorInvariant, PTL

(* A bot given up has no process and was desired when last looked at.      *)
THEOREM GivenUpStaysDown == Spec => []GivenUpIsDown
<1> QED  BY SupervisorInvariant, InvImpliesGivenUpIsDown, PTL

(* Never more than max_restarts restarts are on record for a bot.          *)
THEOREM RestartLimit == Spec => []RestartsBounded
<1>1. SupervisorInv => RestartsBounded
  BY DEF SupervisorInv
<1> QED  BY <1>1, SupervisorInvariant, PTL

-----------------------------------------------------------------------------
(* Refinement.                                                             *)

(* The death of a process of b, live before and the only one, takes b out  *)
(* of the running bots.                                                    *)
LEMMA DeathIsExit ==
    ASSUME SupervisorInv, NEW p \in Pids, phase[p] \in LivePhases,
           \A q \in Pids \ {p} : phase'[q] = phase[q] /\ owner'[q] = owner[q],
           phase'[p] \notin LivePhases,
           UNCHANGED <<desired, desired_running>>
    PROVE  R!Next
<1>1. owner[p] \in Bots
  BY DEF SupervisorInv, TypeOK, ProcessTable, LivePhases
<1>2. \A q \in Pids : phase[q] # "free" /\ owner[q] = owner[p] => q = p
  BY InvImpliesOneProcess DEF OneProcessPerBot, LivePhases
<1>3. owner[p] \in RunningBots
  BY <1>1 DEF RunningBots, LiveOf
<1>4. RunningBots' = RunningBots \ {owner[p]}
  BY <1>1, <1>2 DEF RunningBots, LiveOf, LivePhases
<1> QED  BY <1>1, <1>3, <1>4 DEF R!Next, R!Exit

(* Steps of the API are steps of the reconciler, and so are the deaths of  *)
(* processes.                                                              *)
LEMMA OutsideStepRefines ==
    ASSUME SupervisorInv, Api \/ BotProcess
    PROVE  [R!Next]_R!vars
<1>1. ASSUME NEW b \in Bots, StartBot(b) \/ StopBot(b)
      PROVE  R!Next
  <2>1. RunningBots' = RunningBots
    BY <1>1 DEF RunningBots, LiveOf, StartBot, StopBot, osVars
  <2> QED
    BY <1>1, <2>1 DEF StartBot, StopBot, supVars, R!Next, R!Want, R!Unwant
<1>2. ASSUME NEW p \in Pids, Boot(p)
      PROVE  UNCHANGED R!vars
  <2>1. RunningBots' = RunningBots
    BY <1>2 DEF RunningBots, LiveOf, Boot, LivePhases, SupervisorInv, TypeOK
  <2> QED
    BY <1>2, <2>1 DEF Boot, supVars, R!vars
<1>3. ASSUME NEW p \in Pids, FeedStops(p) \/ CircuitBreak(p) \/ Crash(p) \/ DieSilently(p)
      PROVE  R!Next
  BY <1>3, DeathIsExit DEF FeedStops, CircuitBreak, Crash, DieSilently, Exits, LivePhases,
     supVars, dbVars, SupervisorInv, TypeOK
<1> QED  BY <1>1, <1>2, <1>3 DEF Api, BotProcess

(* A spawn launches a bot that was observed desired and is not running.    *)
LEMMA SpawnRefines ==
    ASSUME SupervisorInv, NEW b \in Bots, NEW p \in Pids, ReapRestart(b, p) \/ Start(b, p)
    PROVE  R!Next
<1> DEFINE old == children[b]
<1>1. /\ b \in desired_running
      /\ old \in Pids => phase[old] = "exited"
      /\ p = old \/ phase[p] = "free"
      /\ owner' = [q \in Pids |-> IF q = p THEN b ELSE IF q = old THEN NoBot ELSE owner[q]]
      /\ phase' = [q \in Pids |-> IF q = p THEN "booting"
                                  ELSE IF q = old THEN "free" ELSE phase[q]]
      /\ UNCHANGED <<desired, desired_running>>
  BY SupervisorAssumption DEF ReapRestart, Start, Reaping, Dead, ToStart, HasChild, Spawn, dbVars
<1>2. b \notin RunningBots
  <2> SUFFICES ASSUME NEW q \in Pids, owner[q] = b, phase[q] \in LivePhases
               PROVE  FALSE
    BY DEF RunningBots, LiveOf
  <2>1. q # old
    BY <1>1 DEF LivePhases
  <2>2. waiting = q
    BY <2>1 DEF SupervisorInv, NoOrphan, LivePhases
  <2> QED
    BY <1>1, <2>2, SupervisorAssumption DEF SupervisorInv, WaitingIsUnwanted
<1>3. RunningBots' = RunningBots \cup {b}
  BY <1>1, <1>2 DEF RunningBots, LiveOf, LivePhases
<1> QED  BY <1>1, <1>2, <1>3 DEF R!Next, R!Launch

(* A step of a pass observes, launches or retires, or changes nothing the  *)
(* reconciler sees; a restart of the supervisor is its collapse.           *)
LEMMA PassStepRefines ==
    ASSUME SupervisorInv, Pass \/ Failure
    PROVE  [R!Next]_R!vars
<1>1. CASE BeginPass
  <2>1. RunningBots' = RunningBots
    BY <1>1 DEF RunningBots, LiveOf, BeginPass, osVars
  <2> QED  BY <1>1, <2>1 DEF BeginPass, dbVars, R!Next, R!Observe
<1>2. ASSUME NEW b \in Bots, ReapAlive(b) \/ StartFails(b)
      PROVE  UNCHANGED R!vars
  <2>1. RunningBots' = RunningBots
    BY <1>2 DEF RunningBots, LiveOf, ReapAlive, StartFails, osVars
  <2> QED  BY <1>2, <2>1 DEF ReapAlive, StartFails, dbVars, R!vars
<1>3. ASSUME NEW b \in Bots, \/ ReapUndesired(b) \/ ReapGiveUp(b)
                             \/ ReapGiveUpUnmarked(b) \/ ReapRestartFails(b)
      PROVE  UNCHANGED R!vars
  <2>1. /\ phase[children[b]] = "exited" /\ Release(children[b])
        /\ UNCHANGED <<desired, desired_running>>
    BY <1>3 DEF ReapUndesired, ReapGiveUp, ReapGiveUpUnmarked, ReapRestartFails, GiveUp, Dead,
                dbVars
  <2>2. RunningBots' = RunningBots
    BY <2>1 DEF RunningBots, LiveOf, Release, LivePhases, SupervisorInv, TypeOK
  <2> QED  BY <2>1, <2>2 DEF R!vars
<1>4. ASSUME NEW b \in Bots, NEW p \in Pids, ReapRestart(b, p) \/ Start(b, p)
      PROVE  R!Next
  BY <1>4, SpawnRefines
<1>5. ASSUME NEW b \in Bots, Stop(b)
      PROVE  [R!Next]_R!vars
  <2> DEFINE c == children[b]
  <2>1. c \in Pids /\ owner' = owner /\ UNCHANGED <<desired, desired_running>>
        /\ phase' = [phase EXCEPT ![c] = AfterSigterm(phase[c])]
    BY <1>5 DEF Stop, ToStop, HasChild, SupervisorInv, TypeOK, dbVars
  <2>2. CASE phase[c] = "booting"
    BY <2>1, <2>2, DeathIsExit DEF AfterSigterm, LivePhases, SupervisorInv, TypeOK
  <2>3. CASE phase[c] # "booting"
    <3>1. RunningBots' = RunningBots
      BY <2>1, <2>3 DEF RunningBots, LiveOf, AfterSigterm, LivePhases, SupervisorInv, TypeOK
    <3> QED  BY <2>1, <3>1 DEF R!vars
  <2> QED  BY <2>2, <2>3
<1>6. CASE StopDone
  <2>1. waiting \in Pids
    BY <1>6 DEF StopDone, SupervisorInv, TypeOK, WaitingIsUnwanted
  <2>2. RunningBots' = RunningBots
    BY <1>6, <2>1 DEF RunningBots, LiveOf, StopDone, Release, LivePhases, SupervisorInv, TypeOK
  <2> QED  BY <1>6, <2>2 DEF StopDone, dbVars, R!vars
<1>7. CASE StopKills
  <2>1. waiting \in Pids
    BY <1>7 DEF StopKills, SupervisorInv, TypeOK, WaitingIsUnwanted
  <2> QED  BY <1>7, <2>1, DeathIsExit DEF StopKills, Release, dbVars, LivePhases,
              SupervisorInv, TypeOK
<1>8. CASE EndPass
  <2>1. RunningBots' = RunningBots
    BY <1>8 DEF RunningBots, LiveOf, EndPass, osVars
  <2> QED  BY <1>8, <2>1 DEF EndPass, dbVars, R!vars
<1>9. CASE SupervisorRestart
  <2>1. RunningBots' = {}
    BY <1>9 DEF SupervisorRestart, RunningBots, LiveOf, LivePhases
  <2> QED  BY <1>9, <2>1 DEF SupervisorRestart, dbVars, R!Next, R!Collapse
<1> QED
  BY <1>1, <1>2, <1>3, <1>4, <1>5, <1>6, <1>7, <1>8, <1>9 DEF Pass, Reap, Failure

(* Every step maps to a step of the reconciler or to a stutter.            *)
LEMMA StepRefines == SupervisorInv /\ [Next]_vars => [R!Next]_R!vars
<1> SUFFICES ASSUME SupervisorInv, [Next]_vars
             PROVE  [R!Next]_R!vars
  OBVIOUS
<1>1. CASE UNCHANGED vars
  <2>1. RunningBots' = RunningBots
    BY <1>1 DEF RunningBots, LiveOf, vars, osVars
  <2> QED  BY <1>1, <2>1 DEF vars, dbVars, supVars, R!vars
<1>2. CASE TimePasses
  <2>1. RunningBots' = RunningBots
    BY <1>2 DEF RunningBots, LiveOf, TimePasses, osVars
  <2> QED  BY <1>2, <2>1 DEF TimePasses, dbVars, R!vars
<1> QED
  BY <1>1, <1>2, OutsideStepRefines, PassStepRefines DEF Next

(* The supervisor implements the safety part of the reconciler: every step *)
(* of a pass, a process or a failure is a step of the abstract controller  *)
(* or changes nothing it sees.                                             *)
THEOREM SupervisorImplementsReconciler == Spec => R!SafeSpec
<1>1. Init => R!Init
  BY DEF Init, R!Init, RunningBots, LiveOf, LivePhases
<1> QED  BY <1>1, SupervisorInvariant, StepRefines, PTL DEF Spec, R!SafeSpec

-----------------------------------------------------------------------------
(* What the observer of SupervisorHistory sees.                            *)

(* A step of the observed supervisor is a step of the supervisor.          *)
LEMMA ObservedStep == [HNext]_hvars => [Next]_vars
BY DEF HNext, HTimePasses, HBeginPass, HStep, Next, Pass, hvars

(* Steps that are no spawn of a pass leave no process booting that was not *)
(* booting before.                                                         *)
LEMMA OnlyTheseSpawn ==
    ASSUME SupervisorInv, [Next]_vars, NEW b \in Bots, Spawned(b)
    PROVE  \E p \in Pids : ReapRestart(b, p) \/ Start(b, p)
<1> USE SupervisorAssumption DEF SupervisorInv, TypeOK
<1> PICK p \in Pids : phase[p] # "booting" /\ phase'[p] = "booting" /\ owner'[p] = b
  BY DEF Spawned
<1>1. ~(Api \/ TimePasses \/ Failure \/ UNCHANGED vars)
  BY DEF Api, StartBot, StopBot, TimePasses, Failure, ReapGiveUpUnmarked, GiveUp, Release,
         ReapRestartFails, StartFails, SupervisorRestart, osVars, vars
<1>2. ~BotProcess
  BY DEF BotProcess, Boot, FeedStops, CircuitBreak, Crash, DieSilently, Exits
<1>3. ASSUME NEW c \in Bots, \/ ReapAlive(c) \/ ReapUndesired(c) \/ ReapGiveUp(c) \/ Stop(c)
      PROVE  FALSE
  BY <1>3 DEF ReapAlive, ReapUndesired, ReapGiveUp, GiveUp, Release, Stop, AfterSigterm, osVars
<1>4. ~(BeginPass \/ StopDone \/ StopKills \/ EndPass)
  BY DEF BeginPass, StopDone, StopKills, Release, EndPass, osVars
<1>5. ASSUME NEW c \in Bots, NEW q \in Pids, ReapRestart(c, q) \/ Start(c, q)
      PROVE  q = p /\ c = b
  BY <1>5 DEF ReapRestart, Start, Spawn
<1> QED  BY <1>1, <1>2, <1>3, <1>4, <1>5 DEF Next, Pass, Reap

(* A spawn is one of its bot only.                                         *)
LEMMA SpawnIsSeen ==
    ASSUME SupervisorInv, NEW b \in Bots, NEW p \in Pids, ReapRestart(b, p) \/ Start(b, p)
    PROVE  \A c \in Bots : Spawned(c) <=> c = b
<1> USE SupervisorAssumption DEF SupervisorInv, TypeOK
<1>1. /\ p = children[b] \/ phase[p] = "free"
      /\ p = children[b] => phase[p] = "exited"
      /\ owner' = [q \in Pids |-> IF q = p THEN b ELSE IF q = children[b] THEN NoBot ELSE owner[q]]
      /\ phase' = [q \in Pids |-> IF q = p THEN "booting"
                                  ELSE IF q = children[b] THEN "free" ELSE phase[q]]
  BY DEF ReapRestart, Dead, Start, ToStart, HasChild, Spawn
<1> QED  BY <1>1 DEF Spawned

(* The spawns on record grow old with the restarts on record.              *)
LEMMA RecordAges ==
    ASSUME NEW S \in SUBSET (0..Window), NEW ages \in SUBSET (0..Window), NEW first \in 0..Window,
           InWindow(S) \subseteq ages \cup {first}
    PROVE  /\ \E second \in 0..Window : InWindow(Aged(S)) \subseteq Aged(ages) \cup {second}
           /\ Cardinality(InWindow(Aged(S))) <= Cardinality(InWindow(S))
<1> DEFINE older(a) == IF a < Window THEN a + 1 ELSE Window
           f == [a \in InWindow(S) |-> older(a)]
<1>1. Aged(S) = {older(a) : a \in S} /\ Aged(ages) = {older(a) : a \in ages}
  BY DEF Aged
<1>2. \A a \in S : older(a) < Window => a \in InWindow(S)
  BY SupervisorAssumption DEF InWindow
<1>3. InWindow(Aged(S)) \subseteq {older(a) : a \in InWindow(S)}
  BY <1>1, <1>2 DEF InWindow
<1>4. InWindow(Aged(S)) \subseteq Aged(ages) \cup {older(first)}
  BY <1>1, <1>3
<1>5. older(first) \in 0..Window
  BY SupervisorAssumption
<1>6. f \in Surjection(InWindow(S), {older(a) : a \in InWindow(S)})
  BY DEF Surjection
<1>7. InWindow(S) \in SUBSET (0..Window)
  BY DEF InWindow
<1>8. {older(a) : a \in InWindow(S)} \in SUBSET (0..Window)
  BY <1>7, SupervisorAssumption
<1>9. Cardinality({older(a) : a \in InWindow(S)}) <= Cardinality(InWindow(S))
  BY <1>6, <1>7, AgesFinite, FS_Surjection
<1>10. InWindow(Aged(S)) \in SUBSET (0..Window)
  BY <1>3, <1>8
<1>11. Cardinality(InWindow(Aged(S))) <= Cardinality({older(a) : a \in InWindow(S)})
  <2> HIDE DEF older
  <2> QED  BY <1>3, <1>8, AgesFinite, FS_Subset
<1>12. /\ Cardinality(InWindow(Aged(S))) \in Nat /\ Cardinality(InWindow(S)) \in Nat
       /\ Cardinality({older(a) : a \in InWindow(S)}) \in Nat
  BY <1>7, <1>8, <1>10, AgesFinite
<1> QED  BY <1>4, <1>5, <1>9, <1>11, <1>12

(* One set on record and one more spawn: max_restarts + 1 at the most.     *)
LEMMA RecordBounds ==
    ASSUME NEW S \in SUBSET (0..Window), NEW ages \in SUBSET (0..Window), NEW first \in 0..Window,
           S \subseteq ages \cup {first}, Cardinality(ages) <= MaxRestarts
    PROVE  Cardinality(S) <= MaxRestarts + 1
<1>1. ages \cup {first} \in SUBSET (0..Window)
  OBVIOUS
<1>2. IsFiniteSet(ages) /\ Cardinality(ages) \in Nat /\ IsFiniteSet(ages \cup {first})
  BY <1>1, AgesFinite
<1>3. Cardinality(ages \cup {first})
        = IF first \in ages THEN Cardinality(ages) ELSE Cardinality(ages) + 1
  BY <1>2, FS_AddElement, Zenon
<1>4. Cardinality(S) <= Cardinality(ages \cup {first})
  BY <1>2, FS_Subset
<1>5. Cardinality(S) \in Nat /\ Cardinality(ages \cup {first}) \in Nat
  BY <1>1, AgesFinite
<1> QED  BY <1>2, <1>3, <1>4, <1>5, SupervisorAssumption

(* The types of what is remembered.                                        *)
LEMMA HistoryTyping ==
    ASSUME SupervisorInv, HistoryTypeOK, [HNext]_hvars
    PROVE  HistoryTypeOK'
<1>0. SupervisorInv' /\ 0 \in 0..Window
  BY ObservedStep, NextInv, SupervisorAssumption
<1>1. CASE UNCHANGED hvars
  BY <1>1 DEF hvars, historyVars, HistoryTypeOK
<1>2. CASE HTimePasses
  BY <1>2, AgedBounded DEF HTimePasses, HistoryTypeOK
<1>3. CASE HBeginPass \/ HStep
  <2>1. crash_looped' \subseteq Bots
    BY <1>0, <1>3 DEF HBeginPass, HStep, Remember, HistoryTypeOK, SupervisorInv, TypeOK
  <2>2. \E forget : RememberSpawns(forget)
    BY <1>3 DEF HBeginPass, HStep
  <2> QED  BY <1>0, <2>1, <2>2 DEF RememberSpawns, HistoryTypeOK
<1> QED  BY <1>1, <1>2, <1>3 DEF HNext

(* While no pass fails, faults is and stays zero.                          *)
LEMMA NoFaultBefore ==
    ASSUME SupervisorInv, [Next]_vars, faults' = 0
    PROVE  faults = 0 /\ ~Failure
<1>1. faults \in Nat
  BY DEF SupervisorInv, TypeOK
<1>2. ~Failure
  BY <1>1 DEF Failure, ReapGiveUpUnmarked, ReapRestartFails, StartFails, SupervisorRestart, Fault
<1>3. faults' = faults
  BY <1>2 DEF Next, Api, StartBot, StopBot, TimePasses, BotProcess, Boot, FeedStops, CircuitBreak,
     Crash, DieSilently, Pass, BeginPass, Reap, ReapAlive, ReapUndesired, ReapGiveUp, ReapRestart,
     Start, Stop, StopDone, StopKills, EndPass, vars
<1> QED  BY <1>2, <1>3

(* No process is left to report for a bot that was given up, and the mark  *)
(* is made with the decision.                                              *)
LEMMA MarkStays ==
    ASSUME SupervisorInv, GivenUpIsMarked, [Next]_vars
    PROVE  GivenUpIsMarked'
<1> SUFFICES ASSUME faults' = 0, NEW b \in given_up'
             PROVE  status'[b] = "error"
  BY DEF GivenUpIsMarked
<1> USE SupervisorAssumption
<1>0. faults = 0 /\ ~Failure /\ b \in Bots /\ status \in [Bots -> Status]
  <2>1. SupervisorInv'
    BY NextInv
  <2> QED  BY <2>1, NoFaultBefore DEF SupervisorInv, TypeOK
<1>1. b \in given_up => status[b] = "error"
  BY <1>0 DEF GivenUpIsMarked
<1>2. CASE BotProcess
  <2>1. b \in given_up
    BY <1>2 DEF BotProcess, Boot, FeedStops, CircuitBreak, Crash, DieSilently, supVars
  <2>2. ASSUME NEW p \in Pids, phase[p] \in LivePhases
        PROVE  owner[p] # b
    BY <2>1, <2>2 DEF SupervisorInv, TypeOK, ProcessTable, NoOrphan, WaitingIsUnwanted,
       PassBookkeeping, HasChild, LivePhases
  <2>3. PICK p \in Pids : Boot(p) \/ FeedStops(p) \/ CircuitBreak(p) \/ Crash(p) \/ DieSilently(p)
    BY <1>2 DEF BotProcess
  <2>4. phase[p] \in LivePhases
    BY <2>3 DEF Boot, FeedStops, CircuitBreak, Crash, DieSilently, LivePhases
  <2>5. owner[p] # b
    BY <2>2, <2>4
  <2>6. status'[b] = status[b]
    BY <1>0, <2>3, <2>5 DEF Boot, FeedStops, CircuitBreak, Crash, DieSilently, Reports, dbVars
  <2> QED  BY <1>1, <2>1, <2>6
<1>3. ASSUME NEW c \in Bots, ReapGiveUp(c)
      PROVE  status'[b] = "error"
  BY <1>0, <1>1, <1>3 DEF ReapGiveUp, GiveUp
<1>4. CASE UNCHANGED status /\ given_up' \subseteq given_up
  BY <1>1, <1>4
<1>5. \/ BotProcess \/ (\E c \in Bots : ReapGiveUp(c))
      \/ UNCHANGED status /\ given_up' \subseteq given_up
  BY <1>0 DEF Next, Api, StartBot, StopBot, TimePasses, Pass, BeginPass, Reap, ReapAlive,
     ReapUndesired, ReapRestart, Start, Stop, StopDone, StopKills, EndPass, vars, dbVars, supVars
<1> QED  BY <1>2, <1>3, <1>4, <1>5

(* A bot remembered as crash-looping is still given up: a pass forgets     *)
(* only those that it sees undesired.                                      *)
LEMMA CrashLoopedStays ==
    ASSUME SupervisorInv, CrashLoopedIsGivenUp, faults' = 0, [HNext]_hvars
    PROVE  CrashLoopedIsGivenUp'
<1>0. ~Failure
  BY ObservedStep, NoFaultBefore
<1>1. CASE UNCHANGED hvars
  BY <1>1 DEF hvars, vars, dbVars, supVars, historyVars, CrashLoopedIsGivenUp
<1>2. CASE HTimePasses
  BY <1>2 DEF HTimePasses, TimePasses, dbVars, CrashLoopedIsGivenUp
<1>3. CASE HBeginPass
  BY <1>3 DEF HBeginPass, BeginPass, dbVars, Remember, StoppedByUser, CrashLoopedIsGivenUp
<1>4. CASE HStep
  <2>1. given_up \subseteq given_up'
    BY <1>0, <1>4 DEF HStep, Api, StartBot, StopBot, BotProcess, Boot, FeedStops, CircuitBreak,
       Crash, DieSilently, Pass, BeginPass, Reap, ReapAlive, ReapUndesired, ReapGiveUp, GiveUp,
       ReapRestart, Start, Stop, StopDone, StopKills, EndPass, supVars
  <2> QED  BY <1>4, <2>1 DEF HStep, Remember, StoppedByUser, CrashLoopedIsGivenUp
<1> QED  BY <1>1, <1>2, <1>3, <1>4 DEF HNext

(* A spawn: the first of a bot without a record, or one that joins the     *)
(* restarts on record.                                                     *)
LEMMA SpawnRecorded ==
    ASSUME SupervisorInv, HistoryTypeOK, SpawnsOnRecord, SpawnRateBounded, faults = 0,
           RememberSpawns({}), NEW b \in Bots, NEW p \in Pids, ReapRestart(b, p) \/ Start(b, p)
    PROVE  SpawnsOnRecord' /\ SpawnRateBounded'
<1> USE SupervisorAssumption
<1>1. /\ b \in desired_running /\ p # NoPid
      /\ children' = [children EXCEPT ![b] = p]
      /\ UNCHANGED <<desired_running, given_up, faults>>
  BY DEF ReapRestart, Start, ToStart, Spawn
<1>2. spawn_ages' = [spawn_ages EXCEPT ![b] = @ \cup {0}]
  BY SpawnIsSeen DEF RememberSpawns, HistoryTypeOK
<1>3. \A c \in Bots \ {b} : restart_times'[c] = restart_times[c]
  BY DEF ReapRestart, Start, Spawn, SupervisorInv, TypeOK
<1>4. restart_times'[b] \in SUBSET (0..Window) /\ Cardinality(restart_times'[b]) <= MaxRestarts
  <2>1. SupervisorInv'
    BY SpawnInv
  <2> QED  BY <2>1 DEF SupervisorInv, TypeOK, RestartsBounded
<1>5. \E first \in 0..Window : InWindow(spawn_ages'[b]) \subseteq restart_times'[b] \cup {first}
  <2>1. CASE ReapRestart(b, p)
    <3>1. restart_times'[b] = InWindow(restart_times[b]) \cup {0}
      BY <2>1 DEF ReapRestart, Spawn, SupervisorInv, TypeOK
    <3>2. b \in HasChild
      BY <2>1 DEF ReapRestart, Reaping, SupervisorInv, PassBookkeeping
    <3>3. PICK first \in 0..Window :
            InWindow(spawn_ages[b]) \subseteq restart_times[b] \cup {first}
      BY <3>2 DEF SpawnsOnRecord
    <3>4. InWindow(spawn_ages'[b]) \subseteq restart_times'[b] \cup {first}
      BY <1>2, <3>1, <3>3 DEF InWindow, HistoryTypeOK
    <3> QED  BY <3>4
  <2>2. CASE Start(b, p)
    <3>1. spawn_ages[b] = {}
      BY <2>2 DEF Start, ToStart, SpawnsOnRecord
    <3>2. InWindow(spawn_ages'[b]) \subseteq restart_times'[b] \cup {0}
      BY <1>2, <3>1 DEF InWindow, HistoryTypeOK
    <3> QED  BY <3>2
  <2> QED  BY <2>1, <2>2
<1>6. SpawnsOnRecord'
  <2>1. HasChild' = HasChild \cup {b}
    BY <1>1 DEF HasChild, SupervisorInv, TypeOK
  <2>2. ASSUME NEW c \in Bots \ {b}
        PROVE  /\ spawn_ages'[c] # {} => c \in desired_running' /\ c \in HasChild' \cup given_up'
               /\ c \in HasChild' =>
                     \E first \in 0..Window :
                         InWindow(spawn_ages'[c]) \subseteq restart_times'[c] \cup {first}
    <3>1. spawn_ages'[c] = spawn_ages[c] /\ restart_times'[c] = restart_times[c]
      BY <1>2, <1>3 DEF HistoryTypeOK
    <3> QED  BY <1>1, <2>1, <3>1 DEF SpawnsOnRecord
  <2> QED  BY <1>1, <1>5, <2>1, <2>2 DEF SpawnsOnRecord
<1>7. InWindow(spawn_ages'[b]) \in SUBSET (0..Window)
  BY <1>2 DEF InWindow, HistoryTypeOK
<1>8. Cardinality(InWindow(spawn_ages'[b])) <= MaxRestarts + 1
  BY <1>4, <1>5, <1>7, RecordBounds
<1> QED  BY <1>1, <1>2, <1>6, <1>8 DEF SpawnRateBounded, HistoryTypeOK

(* Any other step of a pass that does not fail, of the API or of a         *)
(* process: children are dropped only if they are undesired or given up.   *)
LEMMA QuietRecorded ==
    ASSUME SupervisorInv, HistoryTypeOK, SpawnsOnRecord, SpawnRateBounded, faults = 0,
           RememberSpawns({}), ~Failure,
           Api \/ BotProcess \/ (Pass /\ pc # "poll"),
           \A b \in Bots, p \in Pids : ~ReapRestart(b, p) /\ ~Start(b, p)
    PROVE  SpawnsOnRecord' /\ SpawnRateBounded'
<1> USE SupervisorAssumption
<1>1. [Next]_vars
  BY DEF Next
<1>2. spawn_ages' = spawn_ages
  BY <1>1, OnlyTheseSpawn DEF RememberSpawns, HistoryTypeOK
<1>3. UNCHANGED desired_running
  BY DEF Api, StartBot, StopBot, BotProcess, Boot, FeedStops, CircuitBreak,
       Crash, DieSilently, Pass, BeginPass, Reap, ReapAlive, ReapUndesired, ReapGiveUp, GiveUp,
       Stop, StopDone, StopKills, EndPass, supVars
<1>4. /\ \A b \in Bots :
           \/ children'[b] = children[b] /\ restart_times'[b] = restart_times[b]
           \/ children'[b] = NoPid
      /\ given_up \subseteq given_up'
      /\ \A b \in desired_running \ given_up' : children'[b] = children[b]
  BY DEF Api, StartBot, StopBot, BotProcess, Boot, FeedStops, CircuitBreak,
       Crash, DieSilently, Pass, BeginPass, Reap, ReapAlive, ReapUndesired, ReapGiveUp, GiveUp,
       DropChild, Stop, ToStop, StopDone, StopKills, EndPass, supVars, SupervisorInv, TypeOK
<1>5. SpawnsOnRecord'
  BY <1>2, <1>3, <1>4 DEF SpawnsOnRecord, HasChild, SupervisorInv, TypeOK
<1> QED  BY <1>2, <1>5 DEF SpawnRateBounded

(* The beginning of a pass: a bot that is seen undesired has no record any *)
(* more, and one that is newly seen desired has none yet.                  *)
LEMMA PassBeginsRecorded ==
    ASSUME SupervisorInv, HistoryTypeOK, SpawnsOnRecord, SpawnRateBounded, faults = 0, HBeginPass
    PROVE  SpawnsOnRecord' /\ SpawnRateBounded'
<1>1. [Next]_vars /\ BeginPass
  BY DEF HBeginPass, Next, Pass
<1>2. \A b \in Bots, p \in Pids : ~ReapRestart(b, p) /\ ~Start(b, p)
  BY <1>1 DEF BeginPass, ReapRestart, Reaping, Start, Reaped
<1>3. \A b \in Bots : ~Spawned(b)
  BY <1>1, <1>2, OnlyTheseSpawn
<1>4. \A b \in Bots : spawn_ages'[b] = IF b \in desired THEN spawn_ages[b] ELSE {}
  BY <1>3 DEF HBeginPass, RememberSpawns
<1>5. SpawnsOnRecord'
  <2>1. HasChild' = HasChild /\ UNCHANGED <<children, restart_times>>
    BY <1>1 DEF BeginPass, HasChild
  <2>2. desired_running' = desired /\ given_up' = given_up \cap desired
    BY <1>1 DEF BeginPass
  <2>3. InWindow({}) = {}
    BY DEF InWindow
  <2> QED  BY <1>4, <2>1, <2>2, <2>3 DEF SpawnsOnRecord
<1>6. Cardinality(InWindow({})) <= MaxRestarts + 1
  BY FS_EmptySet, SupervisorAssumption DEF InWindow
<1> QED  BY <1>4, <1>5, <1>6 DEF SpawnRateBounded

(* Time: what is remembered and what is on record grow old together.       *)
LEMMA TimeRecorded ==
    ASSUME SupervisorInv, HistoryTypeOK, SpawnsOnRecord, SpawnRateBounded, faults = 0, HTimePasses
    PROVE  SpawnsOnRecord' /\ SpawnRateBounded'
<1>0. \A b \in Bots : restart_times[b] \in SUBSET (0..Window) /\ spawn_ages[b] \in SUBSET (0..Window)
  BY DEF SupervisorInv, TypeOK, HistoryTypeOK
<1>1. /\ \A b \in Bots : restart_times'[b] = Aged(restart_times[b]) /\ spawn_ages'[b] = Aged(spawn_ages[b])
      /\ HasChild' = HasChild /\ UNCHANGED <<desired_running, given_up>>
  BY DEF HTimePasses, TimePasses, HasChild
<1>2. Aged({}) = {}
  BY DEF Aged
<1>3. SpawnsOnRecord'
  <2> SUFFICES ASSUME NEW b \in Bots
               PROVE  /\ Aged(spawn_ages[b]) # {} => b \in desired_running /\ b \in HasChild \cup given_up
                      /\ b \in HasChild =>
                            \E first \in 0..Window :
                                InWindow(Aged(spawn_ages[b])) \subseteq Aged(restart_times[b]) \cup {first}
    BY <1>1 DEF SpawnsOnRecord
  <2>1. CASE b \in HasChild
    BY <1>0, <2>1, RecordAges, <1>2 DEF SpawnsOnRecord
  <2> QED  BY <1>2, <2>1 DEF SpawnsOnRecord
<1>4. SpawnRateBounded'
  <2> SUFFICES ASSUME NEW b \in Bots
               PROVE  Cardinality(InWindow(Aged(spawn_ages[b]))) <= MaxRestarts + 1
    BY <1>1 DEF SpawnRateBounded
  <2>1. Cardinality(InWindow(spawn_ages[b])) <= MaxRestarts + 1
    BY DEF SpawnRateBounded
  <2>2. Cardinality(InWindow(Aged(spawn_ages[b]))) <= Cardinality(InWindow(spawn_ages[b]))
    <3>1. InWindow(spawn_ages[b]) \subseteq (0..Window) \cup {0} /\ 0 \in 0..Window
      BY <1>0, SupervisorAssumption DEF InWindow
    <3> QED  BY <1>0, <3>1, RecordAges
  <2>3. /\ InWindow(Aged(spawn_ages[b])) \in SUBSET (0..Window)
        /\ InWindow(spawn_ages[b]) \in SUBSET (0..Window)
    BY <1>0, AgedBounded DEF InWindow
  <2>4. /\ Cardinality(InWindow(Aged(spawn_ages[b]))) \in Nat
        /\ Cardinality(InWindow(spawn_ages[b])) \in Nat
    BY <2>3, AgesFinite
  <2> QED  BY <2>1, <2>2, <2>4, SupervisorAssumption
<1> QED  BY <1>3, <1>4

(* Every step keeps what is remembered on record.                          *)
LEMMA HistoryStep == SupervisorInv /\ HistoryInv /\ [HNext]_hvars => HistoryInv'
<1> SUFFICES ASSUME SupervisorInv, HistoryInv, [HNext]_hvars
             PROVE  HistoryInv'
  OBVIOUS
<1>1. [Next]_vars /\ HistoryTypeOK' /\ GivenUpIsMarked'
  BY ObservedStep, HistoryTyping, MarkStays DEF HistoryInv
<1>2. ASSUME faults' = 0
      PROVE  SpawnsOnRecord' /\ SpawnRateBounded' /\ CrashLoopedIsGivenUp'
  <2>1. faults = 0 /\ ~Failure
    BY <1>1, <1>2, NoFaultBefore
  <2>2. CrashLoopedIsGivenUp'
    BY <1>2, <2>1, CrashLoopedStays DEF HistoryInv
  <2>3. CASE UNCHANGED hvars
    BY <2>1, <2>2, <2>3 DEF HistoryInv, SpawnsOnRecord, SpawnRateBounded, HasChild, hvars, vars, supVars,
       historyVars
  <2>4. CASE HTimePasses
    BY <2>1, <2>2, <2>4, TimeRecorded DEF HistoryInv
  <2>5. CASE HBeginPass
    BY <2>1, <2>2, <2>5, PassBeginsRecorded DEF HistoryInv
  <2>6. CASE HStep
    <3>1. CASE \E b \in Bots, p \in Pids : ReapRestart(b, p) \/ Start(b, p)
      BY <2>1, <2>2, <2>6, <3>1, SpawnRecorded DEF HStep, HistoryInv
    <3>2. CASE ~\E b \in Bots, p \in Pids : ReapRestart(b, p) \/ Start(b, p)
      BY <2>1, <2>2, <2>6, <3>2, QuietRecorded DEF HStep, HistoryInv
    <3> QED  BY <3>1, <3>2
  <2> QED  BY <2>2, <2>3, <2>4, <2>5, <2>6 DEF HNext
<1>3. SpawnRateBounded'
  BY <1>2 DEF SpawnRateBounded
<1> QED  BY <1>1, <1>2, <1>3 DEF HistoryInv

(* What an observer remembers agrees with what is on record, in every      *)
(* reachable state of the observed supervisor.                             *)
THEOREM HistoryInvariant == HSpec => [](SupervisorInv /\ HistoryInv)
<1>1. HInit => SupervisorInv /\ HistoryInv
  <2> SUFFICES ASSUME HInit PROVE SupervisorInv /\ HistoryInv
    OBVIOUS
  <2>1. SupervisorInv
    BY InitInv DEF HInit
  <2>2. HistoryTypeOK
    BY DEF HInit, HistoryTypeOK
  <2>3. \A b \in Bots : InWindow(spawn_ages[b]) = {}
    BY DEF HInit, InWindow
  <2>4. SpawnRateBounded
    BY <2>3, FS_EmptySet, SupervisorAssumption DEF SpawnRateBounded
  <2>5. GivenUpIsMarked /\ SpawnsOnRecord /\ CrashLoopedIsGivenUp
    BY DEF HInit, Init, GivenUpIsMarked, SpawnsOnRecord, CrashLoopedIsGivenUp, HasChild
  <2> QED  BY <2>1, <2>2, <2>4, <2>5 DEF HistoryInv
<1>2. SupervisorInv /\ HistoryInv /\ [HNext]_hvars => (SupervisorInv /\ HistoryInv)'
  BY ObservedStep, NextInv, HistoryStep
<1> QED  BY <1>1, <1>2, PTL DEF HSpec

(* Crash-loop protection: as long as a bot stays desired and no pass       *)
(* fails, no window has more than max_restarts + 1 spawns of it.           *)
THEOREM CrashLoopsAreBounded == HSpec => []SpawnRateBounded
<1>1. HistoryInv => SpawnRateBounded
  BY DEF HistoryInv
<1> QED  BY <1>1, HistoryInvariant, PTL

(* The mark of a bot that was given up is not overwritten by a late report *)
(* of one of its processes.                                                *)
THEOREM MarksLast == HSpec => []GivenUpIsMarked
<1>1. HistoryInv => GivenUpIsMarked
  BY DEF HistoryInv
<1> QED  BY <1>1, HistoryInvariant, PTL

(* A bot that crash-looped is spawned again only after the user's toggle.  *)
THEOREM CrashLoopEndsWithToggle == HSpec => RestartOnlyAfterToggle
<1>1. ASSUME SupervisorInv, HistoryInv, [HNext]_hvars, faults = 0, NEW b \in Bots, Spawned(b)
      PROVE  b \notin crash_looped
  <2>1. PICK p \in Pids : ReapRestart(b, p) \/ Start(b, p)
    BY <1>1, ObservedStep, OnlyTheseSpawn
  <2>2. b \notin given_up
    BY <1>1, <2>1 DEF ReapRestart, Reaping, Start, ToStart, SupervisorInv, PassBookkeeping
  <2> QED  BY <1>1, <2>2 DEF HistoryInv, CrashLoopedIsGivenUp
<1>2. SupervisorInv /\ HistoryInv /\ [HNext]_hvars =>
        [faults = 0 => \A b \in Bots : Spawned(b) => b \notin crash_looped]_hvars
  BY <1>1
<1> QED  BY <1>2, HistoryInvariant, PTL DEF HSpec, RestartOnlyAfterToggle
=============================================================================
