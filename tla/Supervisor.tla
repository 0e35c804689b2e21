----------------------------- MODULE Supervisor -----------------------------
(***************************************************************************)
(* The execution supervisor (freqpanda_execution/supervisor.py) and the    *)
(* bot processes it keeps in step with bots.desired_status.                *)
(*                                                                         *)
(* One reconciliation pass is a sequence of steps, with the API, the bot   *)
(* processes and the passage of time interleaved between any two of them:  *)
(* the snapshot of desired_status is read once and used for the whole      *)
(* pass; children are reaped, then missing bots started, then unwanted     *)
(* bots stopped.  A failing pass is abandoned where it fails.              *)
(*                                                                         *)
(* Time is counted in poll intervals, and a restart time is kept as its    *)
(* age, capped at Window: an age of Window no longer counts.  A pass       *)
(* restarts a bot at most once and passes are a sleep apart, so the list   *)
(* of restart times of a bot is the set of its ages.                       *)
(***************************************************************************)
EXTENDS Naturals, FiniteSets

CONSTANTS
    Bots,         \* rows of the bots table
    Pids,         \* process ids of the operating system
    NoBot,        \* the owner of a free process id
    NoPid,        \* "no process"
    MaxRestarts,  \* settings.max_restarts_in_window
    Window,       \* settings.crash_loop_window_seconds, in poll intervals
    MaxFaults     \* bound on failed passes and supervisor restarts

ASSUME SupervisorAssumption ==
    /\ IsFiniteSet(Bots)
    /\ NoBot \notin Bots /\ NoPid \notin Pids
    /\ MaxRestarts \in Nat /\ Window \in Nat /\ MaxFaults \in Nat

VARIABLES
    desired,          \* bots whose desired_status is 'running'
    status,           \* bots.status, what the processes report
    owner,            \* the bot a process id runs
    phase,            \* how far that process is
    pc,               \* where the supervisor is in its loop
    desired_running,  \* the snapshot of desired the pass works with
    todo,             \* children the reaping loop has yet to poll
    children,         \* _children: the process handle of each bot
    restart_times,    \* _Child.restart_times, as ages
    given_up,         \* _given_up
    waiting,          \* the process _stop waits for
    faults            \* faults so far

dbVars  == <<desired, status>>
osVars  == <<owner, phase>>
supVars == <<pc, desired_running, todo, children, restart_times, given_up, waiting>>
vars    == <<dbVars, osVars, supVars, faults>>

(* bots.status as far as the code writes it ('starting' and 'stopping' are *)
(* allowed by the column and never written).                               *)
Status == {"stopped", "running", "error", "circuit_broken"}

(* free: no such process; booting: started, no signal handler yet;         *)
(* trading: in Bot.run; draining: SIGTERM received, stop_event set;        *)
(* exited: dead, not yet polled by its parent.                             *)
Phases == {"free", "booting", "trading", "draining", "exited"}
LivePhases == {"booting", "trading", "draining"}

LiveOf(b) == {p \in Pids : owner[p] = b /\ phase[p] \in LivePhases}
HasChild  == {b \in Bots : children[b] # NoPid}

TypeOK ==
    /\ desired \subseteq Bots
    /\ status \in [Bots -> Status]
    /\ owner \in [Pids -> Bots \cup {NoBot}]
    /\ phase \in [Pids -> Phases]
    /\ pc \in {"sleep", "poll", "pass", "waiting"}
    /\ desired_running \subseteq Bots
    /\ todo \subseteq Bots
    /\ children \in [Bots -> Pids \cup {NoPid}]
    /\ restart_times \in [Bots -> SUBSET (0..Window)]
    /\ given_up \subseteq Bots
    /\ waiting \in Pids \cup {NoPid}
    /\ faults \in 0..MaxFaults

Init ==
    /\ desired = {}
    /\ status = [b \in Bots |-> "stopped"]
    /\ owner = [p \in Pids |-> NoBot]
    /\ phase = [p \in Pids |-> "free"]
    /\ pc = "poll"
    /\ desired_running = {}
    /\ todo = {}
    /\ children = [b \in Bots |-> NoPid]
    /\ restart_times = [b \in Bots |-> {}]
    /\ given_up = {}
    /\ waiting = NoPid
    /\ faults = 0

(***************************************************************************)
(* The API: POST /bots/{id}/start and /stop only flip desired_status.      *)
(***************************************************************************)
StartBot(b) ==
    /\ b \notin desired
    /\ desired' = desired \cup {b}
    /\ UNCHANGED <<status, osVars, supVars, faults>>

StopBot(b) ==
    /\ b \in desired
    /\ desired' = desired \ {b}
    /\ UNCHANGED <<status, osVars, supVars, faults>>

(***************************************************************************)
(* Time.  The end of the sleep between two passes is a passage of time;    *)
(* time may also pass while a pass runs (a stop waits for up to 30 s).     *)
(***************************************************************************)
Aged(ages) == {IF a < Window THEN a + 1 ELSE Window : a \in ages}

TimePasses ==
    /\ restart_times' = [b \in Bots |-> Aged(restart_times[b])]
    /\ pc' = IF pc = "sleep" THEN "poll" ELSE pc
    /\ UNCHANGED <<dbVars, osVars, desired_running, todo, children, given_up,
                   waiting, faults>>

(***************************************************************************)
(* The bot process (runner.main, Bot.run), as the supervisor sees it.      *)
(***************************************************************************)
Exits(p) == phase' = [phase EXCEPT ![p] = "exited"]
Reports(p, s) == status' = [status EXCEPT ![owner[p]] = s]

(* build_bot succeeds, the signal handlers are installed, run() reports.   *)
Boot(p) ==
    /\ phase[p] = "booting"
    /\ phase' = [phase EXCEPT ![p] = "trading"]
    /\ Reports(p, "running")
    /\ UNCHANGED <<desired, owner, supVars, faults>>

(* feed.run returns because stop_event is set.                             *)
FeedStops(p) ==
    /\ phase[p] = "draining"
    /\ Exits(p)
    /\ Reports(p, "stopped")
    /\ UNCHANGED <<desired, owner, supVars, faults>>

(* run() catches CircuitBreakerTripped, reports it and returns normally.   *)
CircuitBreak(p) ==
    /\ phase[p] \in {"trading", "draining"}
    /\ Exits(p)
    /\ Reports(p, "circuit_broken")
    /\ UNCHANGED <<desired, owner, supVars, faults>>

(* run() catches any other exception, reports it and re-raises.            *)
Crash(p) ==
    /\ phase[p] \in {"trading", "draining"}
    /\ Exits(p)
    /\ Reports(p, "error")
    /\ UNCHANGED <<desired, owner, supVars, faults>>

(* The process ends without a report: build_bot raised, the report itself  *)
(* failed on the database, or the process was killed from outside.         *)
DieSilently(p) ==
    /\ phase[p] \in LivePhases
    /\ Exits(p)
    /\ UNCHANGED <<dbVars, owner, supVars, faults>>

(***************************************************************************)
(* The reconciliation pass.                                                *)
(***************************************************************************)
(* Mutant: the snapshot is added to the previous one.                      *)
BeginPassStale ==
    /\ pc = "poll"
    /\ pc' = "pass"
    /\ desired_running' = desired_running \cup desired
    /\ given_up' = given_up \cap desired
    /\ todo' = HasChild
    /\ UNCHANGED <<dbVars, osVars, children, restart_times, waiting, faults>>

(* Mutant: every pass starts with a clean slate.                           *)
BeginPassForgets ==
    /\ pc = "poll"
    /\ pc' = "pass"
    /\ desired_running' = desired
    /\ given_up' = {}
    /\ todo' = HasChild
    /\ UNCHANGED <<dbVars, osVars, children, restart_times, waiting, faults>>

BeginPass ==
    /\ pc = "poll"
    /\ pc' = "pass"
    /\ desired_running' = desired
    /\ given_up' = given_up \cap desired
    /\ todo' = HasChild
    /\ UNCHANGED <<dbVars, osVars, children, restart_times, waiting, faults>>

Reaping(b)  == pc = "pass" /\ b \in todo
Dead(b)     == phase[children[b]] = "exited"
InWindow(ages) == {a \in ages : a < Window}
CrashLooping(b) == Cardinality(InWindow(restart_times[b])) >= MaxRestarts

(* del self._children[b]: poll() has collected the exit code of the dead   *)
(* process, so its id is free again.                                       *)
Release(p) ==
    /\ owner' = [owner EXCEPT ![p] = NoBot]
    /\ phase' = [phase EXCEPT ![p] = "free"]

DropChild(b) ==
    /\ children' = [children EXCEPT ![b] = NoPid]
    /\ restart_times' = [restart_times EXCEPT ![b] = {}]

(* _spawn: a new process takes the handle of b; the id of the process it   *)
(* replaces is free, and may be the one the new process gets.              *)
Spawn(b, p, ages) ==
    LET old == children[b] IN
    /\ p = old \/ phase[p] = "free"
    /\ owner' = [q \in Pids |-> IF q = p THEN b ELSE IF q = old THEN NoBot ELSE owner[q]]
    /\ phase' = [q \in Pids |-> IF q = p THEN "booting" ELSE IF q = old THEN "free" ELSE phase[q]]
    /\ children' = [children EXCEPT ![b] = p]
    /\ restart_times' = [restart_times EXCEPT ![b] = ages]

Fault == faults < MaxFaults /\ faults' = faults + 1
(* An exception leaves reconcile_once; run_forever logs it and sleeps.     *)
AbandonPass == pc' = "sleep" /\ todo' = {}

ReapAlive(b) ==
    /\ Reaping(b) /\ ~Dead(b)
    /\ todo' = todo \ {b}
    /\ UNCHANGED <<dbVars, osVars, pc, desired_running, children, restart_times,
                   given_up, waiting, faults>>

ReapUndesired(b) ==
    /\ Reaping(b) /\ Dead(b)
    /\ b \notin desired_running
    /\ todo' = todo \ {b}
    /\ Release(children[b])
    /\ DropChild(b)
    /\ UNCHANGED <<dbVars, pc, desired_running, given_up, waiting, faults>>

GiveUp(b) ==
    /\ Reaping(b) /\ Dead(b)
    /\ b \in desired_running /\ CrashLooping(b)
    /\ Release(children[b])
    /\ DropChild(b)
    /\ given_up' = given_up \cup {b}
    /\ UNCHANGED <<desired, desired_running, waiting>>

(* Mutant: the bot is given up without a mark.                             *)
ReapGiveUpSilently(b) ==
    /\ GiveUp(b)
    /\ todo' = todo \ {b}
    /\ UNCHANGED <<pc, status, faults>>

(* _mark_error reaches the database ...                                    *)
ReapGiveUp(b) ==
    /\ GiveUp(b)
    /\ status' = [status EXCEPT ![b] = "error"]
    /\ todo' = todo \ {b}
    /\ UNCHANGED <<pc, faults>>

(* ... or raises, after the bot was added to _given_up.                    *)
ReapGiveUpUnmarked(b) ==
    /\ GiveUp(b)
    /\ Fault /\ AbandonPass
    /\ UNCHANGED status

(* Mutant: restarts a dead child without asking whether it is desired.     *)
ReapRestartAny(b, p) ==
    /\ Reaping(b) /\ Dead(b)
    /\ ~CrashLooping(b)
    /\ Spawn(b, p, InWindow(restart_times[b]) \cup {0})
    /\ todo' = todo \ {b}
    /\ UNCHANGED <<dbVars, pc, desired_running, given_up, waiting, faults>>

(* Mutant: the new child starts without the restart times of the old one.  *)
ReapRestartAfresh(b, p) ==
    /\ Reaping(b) /\ Dead(b)
    /\ b \in desired_running /\ ~CrashLooping(b)
    /\ Spawn(b, p, {})
    /\ todo' = todo \ {b}
    /\ UNCHANGED <<dbVars, pc, desired_running, given_up, waiting, faults>>

ReapRestart(b, p) ==
    /\ Reaping(b) /\ Dead(b)
    /\ b \in desired_running /\ ~CrashLooping(b)
    /\ Spawn(b, p, InWindow(restart_times[b]) \cup {0})
    /\ todo' = todo \ {b}
    /\ UNCHANGED <<dbVars, pc, desired_running, given_up, waiting, faults>>

(* Popen raises after the handle, and its restart times, were dropped.     *)
ReapRestartFails(b) ==
    /\ Reaping(b) /\ Dead(b)
    /\ b \in desired_running /\ ~CrashLooping(b)
    /\ Release(children[b])
    /\ DropChild(b)
    /\ Fault /\ AbandonPass
    /\ UNCHANGED <<dbVars, desired_running, given_up, waiting>>

Reaped  == pc = "pass" /\ todo = {}
(* Mutants: _given_up is not consulted; a bot in error is not started.     *)
ToStartAll == desired_running \ HasChild
ToStartHealthy ==
    desired_running \ (HasChild \cup given_up \cup {b \in Bots : status[b] = "error"})

ToStart == desired_running \ (HasChild \cup given_up)
ToStop  == HasChild \ desired_running

Start(b, p) ==
    /\ Reaped /\ b \in ToStart
    /\ Spawn(b, p, {})
    /\ UNCHANGED <<dbVars, pc, desired_running, todo, given_up, waiting, faults>>

StartFails(b) ==
    /\ Reaped /\ b \in ToStart
    /\ Fault /\ AbandonPass
    /\ UNCHANGED <<dbVars, osVars, desired_running, children, restart_times,
                   given_up, waiting>>

(* SIGTERM kills a process that has no handler yet, and sets stop_event in *)
(* one that has.                                                           *)
AfterSigterm(ph) ==
    CASE ph = "booting" -> "exited"
      [] ph = "trading" -> "draining"
      [] OTHER -> ph

(* Mutant: the stop signals the process and does not wait for its end.     *)
StopNoWait(b) ==
    /\ Reaped /\ ToStart = {} /\ b \in ToStop
    /\ DropChild(b)
    /\ phase' = [phase EXCEPT ![children[b]] = AfterSigterm(@)]
    /\ UNCHANGED <<dbVars, owner, pc, desired_running, todo, given_up, waiting, faults>>

Stop(b) ==
    /\ Reaped /\ ToStart = {} /\ b \in ToStop
    /\ DropChild(b)
    /\ phase' = [phase EXCEPT ![children[b]] = AfterSigterm(@)]
    /\ waiting' = children[b]
    /\ pc' = "waiting"
    /\ UNCHANGED <<dbVars, owner, desired_running, todo, given_up, faults>>

(* process.wait returns within its 30 s, or kill() ends the process.       *)
StopDone ==
    /\ pc = "waiting" /\ phase[waiting] = "exited"
    /\ Release(waiting)
    /\ waiting' = NoPid
    /\ pc' = "pass"
    /\ UNCHANGED <<dbVars, desired_running, todo, children, restart_times, given_up, faults>>

StopKills ==
    /\ pc = "waiting" /\ phase[waiting] \in LivePhases
    /\ Release(waiting)
    /\ waiting' = NoPid
    /\ pc' = "pass"
    /\ UNCHANGED <<dbVars, desired_running, todo, children, restart_times, given_up, faults>>

EndPass ==
    /\ Reaped /\ ToStart = {} /\ ToStop = {}
    /\ pc' = "sleep"
    /\ UNCHANGED <<dbVars, osVars, desired_running, todo, children, restart_times,
                   given_up, waiting, faults>>

(* The supervisor's container restarts (restart: unless-stopped): every    *)
(* process in it dies, and all it remembered is gone.                      *)
SupervisorRestart ==
    /\ Fault
    /\ owner' = [p \in Pids |-> NoBot]
    /\ phase' = [p \in Pids |-> "free"]
    /\ pc' = "poll"
    /\ desired_running' = {}
    /\ todo' = {}
    /\ children' = [b \in Bots |-> NoPid]
    /\ restart_times' = [b \in Bots |-> {}]
    /\ given_up' = {}
    /\ waiting' = NoPid
    /\ UNCHANGED dbVars

-----------------------------------------------------------------------------
Api == \E b \in Bots : StartBot(b) \/ StopBot(b)

BotProcess ==
    \E p \in Pids : Boot(p) \/ FeedStops(p) \/ CircuitBreak(p) \/ Crash(p) \/ DieSilently(p)

Reap(b) ==
    \/ ReapAlive(b) \/ ReapUndesired(b) \/ ReapGiveUp(b)
    \/ \E p \in Pids : ReapRestart(b, p)

Pass ==
    \/ BeginPass
    \/ \E b \in Bots : Reap(b) \/ (\E p \in Pids : Start(b, p)) \/ Stop(b)
    \/ StopDone \/ StopKills \/ EndPass

Failure ==
    \/ \E b \in Bots : ReapGiveUpUnmarked(b) \/ ReapRestartFails(b) \/ StartFails(b)
    \/ SupervisorRestart

Next == Api \/ TimePasses \/ BotProcess \/ Pass \/ Failure

Spec == Init /\ [][Next]_vars

(* run_forever never returns: a pass that is under way takes its next      *)
(* step, and a sleep ends.  Nothing is assumed of the API or the bots.     *)
Fairness == WF_vars(Pass) /\ WF_vars(pc = "sleep" /\ TimePasses)

FairSpec == Spec /\ Fairness

-----------------------------------------------------------------------------
(* A bot never has two processes, not even a dying one beside a new one:   *)
(* two processes of one bot would trade the same account twice.            *)
OneProcessPerBot ==
    \A p, q \in Pids :
        phase[p] # "free" /\ phase[q] # "free" /\ owner[p] = owner[q] => p = q

(* No process is lost: every process the supervisor has started is in its  *)
(* table of children or is the one it is waiting for, so that a later pass *)
(* can stop it.                                                            *)
NoOrphan ==
    \A p \in Pids : phase[p] # "free" => children[owner[p]] = p \/ waiting = p

(* A bot that crash-looped has no process, and is one the last pass still  *)
(* saw desired: _given_up is cleaned by the next pass that does not.       *)
GivenUpIsDown ==
    \A b \in given_up : b \in desired_running /\ LiveOf(b) = {}

(* The supervisor never restarts a bot more often than max_restarts within *)
(* one window without giving up.                                           *)
RestartsBounded ==
    \A b \in Bots : Cardinality(restart_times[b]) <= MaxRestarts

(* The strengthening that makes the above inductive.                       *)
ProcessTable ==
    /\ \A p \in Pids : owner[p] = NoBot <=> phase[p] = "free"
    /\ \A b \in HasChild : owner[children[b]] = b

WaitingIsUnwanted ==
    /\ waiting # NoPid <=> pc = "waiting"
    /\ waiting # NoPid => owner[waiting] \in Bots \ (desired_running \cup HasChild)

PassBookkeeping ==
    /\ todo \subseteq HasChild
    /\ todo # {} => pc = "pass"
    /\ given_up \subseteq desired_running \ HasChild

(* The inductive invariant: the process ids in use are exactly the         *)
(* children and the process being stopped, whose bot is neither desired in *)
(* this pass nor a child; a bot given up is desired and not a child.       *)
SupervisorInv ==
    /\ TypeOK
    /\ ProcessTable
    /\ NoOrphan
    /\ WaitingIsUnwanted
    /\ PassBookkeeping
    /\ RestartsBounded

(* A bot the user has stopped for good ends up without a process, whatever *)
(* its process does: the stop is not lost in a stale snapshot, a failed    *)
(* pass or a supervisor restart.                                           *)
StoppedGoesDown ==
    \A b \in Bots : <>[](b \notin desired) => <>[](LiveOf(b) = {})

(* A bot the user wants for good has a process again and again, unless the *)
(* supervisor has given up on it.                                          *)
DesiredComesUp ==
    \A b \in Bots : <>[](b \in desired) => []<>(LiveOf(b) # {} \/ b \in given_up)
=============================================================================
