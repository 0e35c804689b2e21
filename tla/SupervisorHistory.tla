-------------------------- MODULE SupervisorHistory -------------------------
(***************************************************************************)
(* The supervisor with what an observer remembers and the supervisor may   *)
(* have forgotten: which bots it declared crash-looping and the user has   *)
(* not stopped since, when it last spawned each bot, and which bots tripped *)
(* their circuit breaker since the user last started them.                 *)
(***************************************************************************)
EXTENDS Supervisor

VARIABLES
    crash_looped,  \* given up on while desired, and not stopped by the user since
    tripped,       \* circuit breaker tripped, and not stopped by the user since
    spawn_ages     \* ages of the spawns since a pass last saw the bot undesired

historyVars == <<crash_looped, tripped, spawn_ages>>
hvars == <<vars, historyVars>>

HInit == Init /\ crash_looped = {} /\ tripped = {} /\ spawn_ages = [b \in Bots |-> {}]

Spawned(b) == \E p \in Pids : phase[p] # "booting" /\ phase'[p] = "booting" /\ owner'[p] = b

StoppedByUser == desired \ desired'

Remember ==
    /\ crash_looped' = (crash_looped \cup ((given_up' \ given_up) \cap desired)) \ StoppedByUser
    /\ tripped' = (tripped \cup {b \in Bots : \E p \in Pids : CircuitBreak(p) /\ owner[p] = b})
                    \ StoppedByUser

RememberSpawns(forget) ==
    spawn_ages' = [b \in Bots |->
        IF Spawned(b) THEN spawn_ages[b] \cup {0}
        ELSE IF b \in forget THEN {} ELSE spawn_ages[b]]

HTimePasses ==
    /\ TimePasses
    /\ spawn_ages' = [b \in Bots |-> Aged(spawn_ages[b])]
    /\ UNCHANGED <<crash_looped, tripped>>

HBeginPass == BeginPass /\ Remember /\ RememberSpawns(Bots \ desired)

HStep ==
    /\ Api \/ BotProcess \/ Failure \/ (Pass /\ pc # "poll")
    /\ Remember
    /\ RememberSpawns({})

HNext == HTimePasses \/ HBeginPass \/ HStep

HSpec == HInit /\ [][HNext]_hvars
HFairSpec == HSpec /\ Fairness

-----------------------------------------------------------------------------
(* Crash-loop protection: while a bot stays desired it is spawned at most  *)
(* once more than max_restarts within any window, however its processes    *)
(* die, as long as no pass fails and the supervisor is not restarted.      *)
SpawnRateBounded ==
    faults = 0 => \A b \in Bots : Cardinality(InWindow(spawn_ages[b])) <= MaxRestarts + 1

(* A bot the supervisor gave up on keeps status 'error': no late report of *)
(* one of its processes overwrites it.                                     *)
GivenUpIsMarked == faults = 0 => \A b \in given_up : status[b] = "error"

(* What makes the above inductive: the spawns an observer remembers are    *)
(* those on record as restarts, but for the first one and those of a bot   *)
(* that was given up; ...                                                  *)
HistoryTypeOK ==
    /\ crash_looped \subseteq Bots
    /\ spawn_ages \in [Bots -> SUBSET (0..Window)]

SpawnsOnRecord ==
    \A b \in Bots :
        /\ spawn_ages[b] # {} => b \in desired_running /\ b \in HasChild \cup given_up
        /\ b \in HasChild =>
              \E first \in 0..Window :
                  InWindow(spawn_ages[b]) \subseteq restart_times[b] \cup {first}

(* ... and a bot that crash-looped and was not stopped is still given up.  *)
CrashLoopedIsGivenUp == crash_looped \subseteq given_up \cap desired

HistoryInv ==
    /\ HistoryTypeOK /\ SpawnRateBounded /\ GivenUpIsMarked
    /\ faults = 0 => SpawnsOnRecord /\ CrashLoopedIsGivenUp

(* A bot that crash-looped is spawned again only after the user stopped it *)
(* and started it again, as long as the supervisor is not restarted.       *)
RestartOnlyAfterToggle ==
    [][faults = 0 => \A b \in Bots : Spawned(b) => b \notin crash_looped]_hvars

(* A circuit-broken bot runs again only after the user stopped it.         *)
TrippedStaysHalted ==
    [][\A b \in Bots : Spawned(b) => b \notin tripped]_hvars
=============================================================================
