------------------------------- MODULE Optimize -------------------------------
(***************************************************************************)
(* Walk-forward optimization (freqpanda_optimize/optimize.py): the windows *)
(* a history is cut into (freqpanda_backtest/walkforward.py), a study per  *)
(* window over the tunable parameters of a definition (search_space.py,    *)
(* scoring.py), and a last study over the whole history; or, untuned, the  *)
(* same definition in every window.                                        *)
(*                                                                         *)
(* A backtest is an unknown function of a definition and a slice: the      *)
(* metric it gives may be anything, NaN included, and is the same when it  *)
(* is run again; or it raises, and all ends.  Optuna is external: a study  *)
(* tries what its sampler likes, drops a trial whose objective is NaN,     *)
(* keeps the first of the best, and catches nothing.  Time is counted in   *)
(* candles from data_start.                                                *)
(***************************************************************************)
EXTENDS Integers, Sequences

CONSTANTS
    MaxTime,     \* bound on data_end
    Periods,     \* train_period, test_period, step: whole candles here
    NTrials,     \* n_trials
    Parameters,  \* the parameters of the definition's indicators
    Metrics,     \* values of the metric
    Worst,       \* WORST_SCORE, minus infinity
    NaN, None

Parameter ==
    [alias : STRING, name : STRING, tuned : BOOLEAN, default : Int, min : Int, max : Int, step : Int]

(* Request schema: periods and n_trials are positive.  ParamRange and      *)
(* StrategyDefinition: a default within its bounds, aliases unique.        *)
ASSUME OptimizeAssumption ==
    /\ MaxTime \in Nat /\ Periods \subseteq Nat \ {0} /\ NTrials \in Nat \ {0}
    /\ Parameters \subseteq Parameter
    /\ \A p \in Parameters : p.min <= p.default /\ p.default <= p.max /\ p.step > 0
    /\ \A p, q \in Parameters : p.alias = q.alias /\ p.name = q.name => p = q
    /\ Metrics \subseteq Int /\ Worst \in Int /\ \A m \in Metrics : Worst < m
    /\ NaN \notin Int /\ None \notin Int \cup {NaN}

VARIABLES
    index,    \* times of the candles of df
    call,     \* the arguments
    pc,
    train_start, train_end,  \* of the next window
    windows,
    done,     \* how many windows the loop over them is done with
    study,    \* the study under way
    results,  \* the windows that have a result
    result    \* the last result

loop == <<train_start, train_end, windows>>
vars == <<index, call, pc, loop, done, study, results, result>>

Call ==
    [train_period : Periods, test_period : Periods, step : Periods \cup {None},
     anchored : BOOLEAN, tuned : BOOLEAN]
Window == [train_start : Nat, train_end : Nat, test_start : Nat, test_end : Nat]

(***************************************************************************)
(* search_space.py.                                                        *)
(***************************************************************************)
Key(p) == <<p.alias, p.name>>
SearchSpace == {p \in Parameters : p.tuned}
Grid(p) == {v \in p.min..p.max : (v - p.min) % p.step = 0}

Materialize(values) ==
    [p \in Parameters |-> IF Key(p) \in DOMAIN values THEN values[Key(p)] ELSE p.default]

Suggestions ==
    {values \in [{Key(p) : p \in SearchSpace} -> UNION {Grid(p) : p \in SearchSpace}] :
        \A p \in SearchSpace : values[Key(p)] \in Grid(p)}
Candidates == {Materialize(values) : values \in Suggestions}
Original == [p \in Parameters |-> p.default]
ASSUME NoneAssumption == None \notin Candidates \cup Window

(* score_from_result.  Mutant: NaN is handed to the study.                 *)
RawScore(metric) == metric
Score(metric) == IF metric = NaN THEN Worst ELSE metric

-----------------------------------------------------------------------------
Study ==
    [window : Window \cup {None}, train : SUBSET index, test : SUBSET index,
     read : SUBSET index, trials : 0..NTrials,
     known : [Candidates -> Metrics \cup {NaN, None}], best : Candidates \cup {None}]

NewStudy(window, train, test) ==
    [window |-> window, train |-> train, test |-> test, read |-> {}, trials |-> 0,
     known |-> [c \in Candidates |-> None], best |-> None]

Init ==
    /\ index \in {S \in SUBSET (0..MaxTime) : 0 \in S}
    /\ call \in Call
    /\ pc = "windows"
    /\ train_start = 0 /\ train_end = call.train_period
    /\ windows = <<>> /\ done = 0 /\ study = None /\ results = {} /\ result = None

(***************************************************************************)
(* generate_walk_forward_windows.                                          *)
(***************************************************************************)
Step == IF call.step = None THEN call.test_period ELSE call.step
TestEnd == train_end + call.test_period

(* Mutant: a window may not end with the last candle.                      *)
FitsBefore(time) == \E t \in index : time < t
Fits(time) == \E t \in index : time <= t

GenerateWindow ==
    /\ pc = "windows" /\ Fits(TestEnd)
    /\ windows' = Append(windows, [train_start |-> train_start, train_end |-> train_end,
                                   test_start |-> train_end, test_end |-> TestEnd])
    /\ \/ call.anchored /\ train_end' = train_end + Step /\ UNCHANGED train_start
       \/ /\ ~call.anchored
          /\ train_start' = train_start + Step
          /\ train_end' = train_start' + call.train_period
    /\ UNCHANGED <<index, call, pc, done, study, results, result>>

(* optimize raises a ValueError if there are no windows.                   *)
NoMoreWindows ==
    /\ pc = "windows" /\ ~Fits(TestEnd)
    /\ pc' = IF call.tuned /\ windows = <<>> THEN "failed" ELSE "slices"
    /\ UNCHANGED <<index, call, loop, done, study, results, result>>

(***************************************************************************)
(* The loop over the windows, of optimize and of run_walk_forward.         *)
(***************************************************************************)
(* Mutant: the end of a slice belongs to it.                               *)
ClosedSlice(from, to) == {t \in index : from <= t /\ t <= to}
Slice(from, to) == {t \in index : from <= t /\ t < to}

This  == windows[done + 1]
Train == Slice(This.train_start, This.train_end)
Test  == Slice(This.test_start, This.test_end)

(* What a backtest or its score raises - a metric that is not one of a     *)
(* result, an indicator with a period of zero - nothing catches.           *)
Raises ==
    /\ pc' = "failed" /\ study' = None /\ result' = None
    /\ UNCHANGED <<index, call, loop, done, results>>

SkipWindow ==
    /\ pc = "slices" /\ done < Len(windows)
    /\ Train = {} \/ Test = {}
    /\ done' = done + 1 /\ result' = None
    /\ UNCHANGED <<index, call, pc, loop, study, results>>

RunUntuned ==
    /\ pc = "slices" /\ done < Len(windows) /\ ~call.tuned
    /\ Train # {} /\ Test # {}
    /\ \E in_sample, out_of_sample \in Metrics \cup {NaN} :
          result' = [window |-> This, read |-> Train, test |-> Test, definition |-> Original,
                     in_sample |-> in_sample, out_of_sample |-> out_of_sample]
    /\ done' = done + 1 /\ results' = results \cup {This}
    /\ UNCHANGED <<index, call, pc, loop, study>>

UntunedRaises ==
    /\ pc = "slices" /\ done < Len(windows) /\ ~call.tuned
    /\ Train # {} /\ Test # {}
    /\ Raises

StartStudy ==
    /\ pc = "slices" /\ done < Len(windows) /\ call.tuned
    /\ Train # {} /\ Test # {}
    /\ pc' = "study" /\ study' = NewStudy(This, Train, Test) /\ result' = None
    /\ UNCHANGED <<index, call, loop, done, results>>

(* refit_on_full_history: trained and tested on all there is.              *)
Refit ==
    /\ pc = "slices" /\ done = Len(windows) /\ call.tuned
    /\ pc' = "study" /\ study' = NewStudy(None, index, index) /\ result' = None
    /\ UNCHANGED <<index, call, loop, done, results>>

Return ==
    /\ pc = "slices" /\ done = Len(windows) /\ ~call.tuned
    /\ pc' = "done"
    /\ UNCHANGED <<index, call, loop, done, study, results, result>>

(***************************************************************************)
(* optimize_single_split.                                                  *)
(***************************************************************************)
ScoreOf(c) == Score(study.known[c])

(* Mutant: a study with the default direction, minimize.                   *)
IsLower(score) == study.best = None \/ score < ScoreOf(study.best)
IsBetter(score) == study.best = None \/ ScoreOf(study.best) < score

(* Mutant: trials are not counted.                                         *)
UncountedTrial(c, metric) ==
    /\ pc = "study" /\ study.trials < NTrials
    /\ study.known[c] \in {metric, None}
    /\ study' = [study EXCEPT
         !.read = study.train, !.known[c] = metric,
         !.best = IF Score(metric) # NaN /\ IsBetter(Score(metric)) THEN c ELSE @]
    /\ UNCHANGED <<index, call, pc, loop, done, results, result>>

(* objective, and what the study makes of it.                              *)
Trial(c, metric) ==
    /\ pc = "study" /\ study.trials < NTrials
    /\ study.known[c] \in {metric, None}
    /\ study' = [study EXCEPT
         !.read = study.train, !.trials = @ + 1, !.known[c] = metric,
         !.best = IF Score(metric) # NaN /\ IsBetter(Score(metric)) THEN c ELSE @]
    /\ UNCHANGED <<index, call, pc, loop, done, results, result>>

TrialRaises(c) ==
    /\ pc = "study" /\ study.trials < NTrials
    /\ study.known[c] = None
    /\ Raises

(* After n_trials or, between trials, timeout; the first is always made.   *)
StudyEnds == pc = "study" /\ study.trials > 0

(* The best definition is run again on both slices.                        *)
Report ==
    \E out_of_sample \in Metrics \cup {NaN} :
        /\ study.test = study.train => out_of_sample = study.known[study.best]
        /\ result' = [window |-> study.window, read |-> study.read, test |-> study.test,
                      definition |-> study.best,
                      in_sample |-> study.known[study.best], out_of_sample |-> out_of_sample]

EndStudy ==
    /\ StudyEnds /\ study.best # None
    /\ Report
    /\ \/ study.window = None /\ pc' = "done" /\ UNCHANGED <<done, results>>
       \/ /\ study.window # None /\ pc' = "slices"
          /\ done' = done + 1 /\ results' = results \cup {study.window}
    /\ UNCHANGED <<index, call, loop, study>>

(* best_params raises a ValueError if no trial completed, which does not   *)
(* happen, by EndsWithBest; the backtest on the test slice may raise.      *)
EndRaises ==
    /\ StudyEnds
    /\ study.best = None \/ study.test # study.train
    /\ Raises

Next ==
    \/ GenerateWindow \/ NoMoreWindows
    \/ SkipWindow \/ RunUntuned \/ UntunedRaises \/ StartStudy \/ Refit \/ Return
    \/ \E c \in Candidates, metric \in Metrics \cup {NaN} : Trial(c, metric)
    \/ \E c \in Candidates : TrialRaises(c)
    \/ EndStudy \/ EndRaises

Spec == Init /\ [][Next]_vars
FairSpec == Spec /\ WF_vars(Next)
-----------------------------------------------------------------------------
TypeOK ==
    /\ index \subseteq 0..MaxTime /\ call \in Call
    /\ pc \in {"windows", "slices", "study", "done", "failed"}
    /\ train_start \in Nat /\ train_end \in Nat
    /\ windows \in Seq(Window) /\ done \in 0..Len(windows)
    /\ study \in Study \cup {None}
    /\ results \subseteq {windows[i] : i \in 1..done}

(* The loop makes windows that begin later and later, in which a candle is *)
(* either trained on or tested; by default without a hole between them.    *)
IsTested(t, w) == w.test_start <= t /\ t < w.test_end

WindowsInOrder ==
    /\ ~call.anchored => train_end = train_start + call.train_period
    /\ \A i \in 1..Len(windows) :
          LET w == windows[i]
          IN  /\ w.train_end = w.test_start
              /\ w.test_end = w.test_start + call.test_period
              /\ w.test_start + Step <= train_end
              /\ \A j \in 1..Len(windows) : i < j => w.test_start + Step <= windows[j].test_start

WindowsCover ==
    call.step = None =>
        \A t \in index : call.train_period <= t /\ t < train_end =>
            \E i \in 1..Len(windows) : IsTested(t, windows[i])

(* The loop over them gives each a result that has something to train and  *)
(* to test on.                                                             *)
Decided ==
    /\ \A i \in 1..done :
          \/ windows[i] \in results
          \/ Slice(windows[i].train_start, windows[i].train_end) = {}
          \/ Slice(windows[i].test_start, windows[i].test_end) = {}
    /\ pc # "windows" => ~Fits(TestEnd)
    /\ pc = "done" => done = Len(windows)

(* A study has read nothing but its training slice, and holds the best it  *)
(* tried.                                                                  *)
StudyIsSound ==
    pc = "study" =>
        /\ study \in Study /\ result = None /\ call.tuned
        /\ study.window # None =>
              /\ done < Len(windows) /\ study.window = This
              /\ study.train = Train /\ study.test = Test
        /\ study.window = None => done = Len(windows)
        /\ study.read \subseteq study.train
        /\ study.trials > 0 => study.best # None
        /\ \A c \in Candidates : study.known[c] # None =>
              study.best # None /\ Score(study.known[c]) <= ScoreOf(study.best)
        /\ study.best # None => study.known[study.best] # None

(* What a window is tested on comes after all that its definition was      *)
(* chosen by: results out of sample are results on candles not seen.       *)
NoPeeking ==
    result # None /\ result.window # None =>
        \A seen \in result.read, tested \in result.test : seen < tested

(* The best trial's definition goes into the result with the metric it had *)
(* when it was tried, and no trial did better; NaN is worse than any.      *)
BestIsBest ==
    result # None /\ call.tuned =>
        /\ result.in_sample = study.known[result.definition]
        /\ \A c \in Candidates :
              study.known[c] # None => Score(study.known[c]) <= Score(result.in_sample)

(* Whatever metrics the trials of a study gave, if they gave one it has a  *)
(* best when it ends, and best_params does not raise: a strategy that      *)
(* makes no trades, whose metric is NaN, does not fail the optimization.   *)
EndsWithBest == StudyEnds => study.best # None /\ study.known[study.best] # None

(* With the default step every candle after the first training period is   *)
(* tested once, unless there is nothing to train on or less than a test    *)
(* period of data is left.                                                 *)
EachTestedOnce ==
    pc = "done" /\ call.step = None =>
        \A t \in index : t >= call.train_period =>
            \/ \E w \in results : IsTested(t, w) /\ \A v \in results : IsTested(t, v) => v = w
            \/ /\ \A w \in results : ~IsTested(t, w)
               /\ \/ \A u \in index : u - t < call.test_period
                  \/ \E i \in 1..Len(windows) :
                        /\ IsTested(t, windows[i])
                        /\ Slice(windows[i].train_start, windows[i].train_end) = {}

OptimizeInv == TypeOK /\ WindowsInOrder /\ WindowsCover /\ Decided /\ StudyIsSound

(* n_trials or the timeout ends every study, and the data the loop.        *)
Terminates == <>(pc \in {"done", "failed"})
=============================================================================
