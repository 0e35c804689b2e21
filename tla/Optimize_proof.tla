---------------------------- MODULE Optimize_proof ----------------------------
(***************************************************************************)
(* Proofs about walk-forward optimization, for any history, any periods,   *)
(* any definition and any metric.                                          *)
(***************************************************************************)
EXTENDS Optimize, TLAPS

(* Whatever a backtest gives, its score is a number, and not NaN.          *)
LEMMA ScoreIsNumber ==
  ASSUME NEW m \in Metrics \cup {NaN}
  PROVE  Score(m) \in Int /\ Score(m) # NaN /\ m # None
BY OptimizeAssumption DEF Score

-----------------------------------------------------------------------------
LEMMA InitInv == Init => OptimizeInv
<1> SUFFICES ASSUME Init  PROVE OptimizeInv
  OBVIOUS
<1> USE DEF Init
<1>0. call.train_period \in Nat /\ index \subseteq 0..MaxTime /\ Len(windows) = 0
      /\ 1..Len(windows) = {} /\ 1..done = {}
  BY OptimizeAssumption DEF Call
<1>1. TypeOK
  BY <1>0 DEF TypeOK
<1>2. WindowsInOrder
  BY <1>0 DEF WindowsInOrder
<1>3. WindowsCover
  BY <1>0, OptimizeAssumption DEF WindowsCover
<1>4. Decided /\ StudyIsSound
  BY <1>0 DEF Decided, StudyIsSound
<1> QED  BY <1>1, <1>2, <1>3, <1>4 DEF OptimizeInv

(* Types of what the loop over the windows computes with.                  *)
LEMMA Typing ==
  ASSUME TypeOK
  PROVE  /\ call.train_period \in Nat \ {0} /\ call.test_period \in Nat \ {0}
         /\ Step \in Nat \ {0} /\ TestEnd \in Nat
         /\ train_start \in Nat /\ train_end \in Nat
         /\ windows \in Seq(Window) /\ Len(windows) \in Nat /\ done \in 0..Len(windows)
         /\ \A i \in 1..Len(windows) : windows[i] \in Window
         /\ index \subseteq Nat
<1>1. call.train_period \in Periods /\ call.test_period \in Periods /\ call.step \in Periods \cup {None}
  BY DEF TypeOK, Call
<1>2. Periods \subseteq Nat \ {0} /\ 0..MaxTime \subseteq Nat
  BY OptimizeAssumption
<1>3. Step \in Nat \ {0}
  BY <1>1, <1>2 DEF Step
<1>4. windows \in Seq(Window) /\ Len(windows) \in Nat /\ \A i \in 1..Len(windows) : windows[i] \in Window
  BY DEF TypeOK
<1>5. index \subseteq Nat /\ train_start \in Nat /\ train_end \in Nat /\ done \in 0..Len(windows)
  BY <1>2 DEF TypeOK
<1>6. call.test_period \in Nat
  BY <1>1, <1>2
<1>7. TestEnd \in Nat
  BY <1>5, <1>6 DEF TestEnd
<1> QED  BY <1>1, <1>2, <1>3, <1>4, <1>5, <1>7

(* generate_walk_forward_windows.                                          *)
LEMMA GenerateInv ==
  ASSUME OptimizeInv, GenerateWindow
  PROVE  OptimizeInv'
<1> DEFINE new == [train_start |-> train_start, train_end |-> train_end,
                   test_start |-> train_end, test_end |-> TestEnd]
<1>0. /\ TypeOK /\ pc = "windows" /\ windows' = Append(windows, new)
      /\ UNCHANGED <<index, call, pc, done, study, results, result>>
      /\ train_start' \in {train_start, train_start + Step}
      /\ \/ call.anchored /\ train_end' = train_end + Step
         \/ ~call.anchored /\ train_end' = train_start + Step + call.train_period
  BY DEF GenerateWindow, OptimizeInv
<1>1. new \in Window /\ new.train_end = train_end /\ new.test_start = train_end /\ new.test_end = TestEnd
  BY <1>0, Typing DEF Window
<1> HIDE DEF new
<1>2. /\ windows' \in Seq(Window) /\ Len(windows') = Len(windows) + 1
      /\ \A i \in 1..Len(windows) : windows'[i] = windows[i]
      /\ windows'[Len(windows) + 1] = new
  BY <1>0, <1>1, Typing
<1>3. Step' = Step /\ train_end' = train_end + Step
      /\ (~call.anchored => train_end' = train_start' + call.train_period)
  <2>1. Step' = Step
    BY <1>0 DEF Step
  <2>2. ~call.anchored => train_end = train_start + call.train_period
    BY DEF OptimizeInv, WindowsInOrder
  <2> QED  BY <1>0, <2>1, <2>2, Typing DEF GenerateWindow
<1>4. TypeOK'
  BY <1>0, <1>2, <1>3, Typing DEF TypeOK, Call, Study
<1>5. WindowsInOrder'
  <2>1. /\ new.train_end = new.test_start /\ new.test_end = new.test_start + call.test_period
        /\ new.test_start + Step <= train_end'
    BY <1>0, <1>1, <1>3, Typing DEF TestEnd
  <2>2. ASSUME NEW i \in 1..Len(windows)
        PROVE  LET w == windows[i]
               IN  /\ w.train_end = w.test_start
                   /\ w.test_end = w.test_start + call.test_period
                   /\ w.test_start + Step <= train_end' /\ w.test_start + Step <= new.test_start
                   /\ \A j \in 1..Len(windows) : i < j => w.test_start + Step <= windows[j].test_start
    <3>1. windows[i].test_start \in Nat
      BY Typing, <1>0 DEF Window
    <3> QED  BY <1>0, <1>1, <1>3, <3>1, Typing DEF OptimizeInv, WindowsInOrder
  <2>3. 1..Len(windows') = 1..Len(windows) \cup {Len(windows) + 1}
    <3>1. Len(windows) \in Nat /\ Len(windows') = Len(windows) + 1
      BY <1>0, <1>2, Typing
    <3> QED  BY <3>1
  <2> QED  BY <1>0, <1>2, <1>3, <2>1, <2>2, <2>3, Typing DEF WindowsInOrder
<1>6. WindowsCover'
  <2> SUFFICES ASSUME call.step = None, NEW t \in index, call.train_period <= t, t < train_end + Step
               PROVE  \E i \in 1..Len(windows') : IsTested(t, windows'[i])
    BY <1>0, <1>3 DEF WindowsCover
  <2>1. t \in Nat
    BY <1>0, Typing
  <2>2. CASE t < train_end
    <3>1. PICK i \in 1..Len(windows) : IsTested(t, windows[i])
      BY <2>2 DEF OptimizeInv, WindowsCover
    <3> QED  BY <1>0, <1>2, <3>1, Typing
  <2>3. CASE train_end <= t
    <3>1. Step = call.test_period
      BY DEF Step
    <3>2. IsTested(t, new)
      BY <1>0, <1>1, <2>1, <2>3, <3>1, Typing DEF IsTested, TestEnd
    <3> QED  BY <1>0, <1>2, <3>2, Typing
  <2> QED  BY <1>0, <2>1, <2>2, <2>3, Typing
<1>7. Decided'
  <2>1. \A i \in 1..done : i \in 1..Len(windows) /\ windows'[i] = windows[i]
    BY <1>0, <1>2, Typing
  <2> QED  BY <1>0, <2>1 DEF OptimizeInv, Decided, Slice
<1>8. StudyIsSound'
  BY <1>0 DEF StudyIsSound
<1> QED  BY <1>4, <1>5, <1>6, <1>7, <1>8 DEF OptimizeInv

(* What the rest leaves alone.                                             *)
LEMMA LoopInv ==
  ASSUME OptimizeInv, UNCHANGED <<index, call, loop>>
  PROVE  WindowsInOrder' /\ WindowsCover' /\ Step' = Step /\ TestEnd' = TestEnd
<1>1. Step' = Step /\ TestEnd' = TestEnd
  BY DEF Step, TestEnd, loop
<1> QED  BY <1>1 DEF OptimizeInv, WindowsInOrder, WindowsCover, loop

LEMMA WindowsDoneInv ==
  ASSUME OptimizeInv, NoMoreWindows
  PROVE  OptimizeInv'
<1> USE DEF NoMoreWindows, loop
<1>1. TypeOK'
  BY DEF OptimizeInv, TypeOK, Call, Study
<1>2. Decided'
  BY LoopInv DEF OptimizeInv, Decided, Fits, Slice
<1>3. StudyIsSound'
  BY DEF StudyIsSound
<1> QED  BY <1>1, <1>2, <1>3, LoopInv DEF OptimizeInv

(* A window gets a result, or is skipped.                                  *)
LEMMA WindowInv ==
  ASSUME OptimizeInv, UNCHANGED <<index, call, loop, study>>,
         done < Len(windows), done' = done + 1, pc' = "slices", pc # "windows",
         \/ results' = results \cup {This}
         \/ results' = results /\ (Train = {} \/ Test = {})
  PROVE  OptimizeInv'
<1>0. TypeOK
  BY DEF OptimizeInv
<1>1. TypeOK'
  <2>1. done' \in 0..Len(windows') /\ 1..done' = 1..done \cup {done + 1}
    BY <1>0, Typing DEF loop
  <2>2. results' \subseteq {windows'[i] : i \in 1..done'}
    BY <1>0, <2>1 DEF TypeOK, This, loop
  <2> QED  BY <1>0, <2>1, <2>2 DEF TypeOK, Call, Study, loop
<1>2. Decided'
  <2>1. 1..done' = 1..done \cup {done + 1}
    BY <1>0, Typing
  <2> QED  BY <2>1, LoopInv DEF OptimizeInv, Decided, Fits, Slice, This, Train, Test, loop
<1>3. StudyIsSound'
  BY DEF StudyIsSound
<1> QED  BY <1>1, <1>2, <1>3, LoopInv DEF OptimizeInv

(* A study is begun, for the next window or for the whole history.         *)
LEMMA NewStudyInv ==
  ASSUME OptimizeInv, StartStudy \/ Refit
  PROVE  OptimizeInv'
<1>0. TypeOK /\ UNCHANGED <<index, call, loop, done, results>>
      /\ pc = "slices" /\ pc' = "study" /\ result' = None /\ call.tuned
  BY DEF OptimizeInv, StartStudy, Refit
<1>1. PICK window \in Window \cup {None}, train \in SUBSET index, test \in SUBSET index :
         /\ study' = NewStudy(window, train, test)
         /\ window # None => /\ done < Len(windows) /\ window = This
                             /\ train = Train /\ test = Test
         /\ window = None => done = Len(windows)
  <2>1. CASE StartStudy
    <3>1. done + 1 \in 1..Len(windows)
      BY <1>0, <2>1, Typing DEF StartStudy
    <3>2. This \in Window /\ This # None /\ Train \in SUBSET index /\ Test \in SUBSET index
      BY <1>0, <3>1, Typing, NoneAssumption DEF This, Train, Test, Slice
    <3> QED  BY <2>1, <3>2 DEF StartStudy
  <2>2. CASE Refit
    BY <2>2 DEF Refit
  <2> QED  BY <2>1, <2>2
<1>2. NewStudy(window, train, test) \in Study
  BY OptimizeAssumption DEF NewStudy, Study
<1>3. TypeOK'
  BY <1>0, <1>1, <1>2 DEF TypeOK, Call, Study, loop
<1>4. Decided'
  BY <1>0, LoopInv DEF OptimizeInv, Decided, Fits, Slice, loop
<1>5. StudyIsSound'
  <2>1. /\ study'.window = window /\ study'.train = train /\ study'.test = test
        /\ study'.read = {} /\ study'.trials = 0 /\ study'.best = None
        /\ \A c \in Candidates : study'.known[c] = None
    BY <1>1 DEF NewStudy
  <2>2. Study' = Study /\ This' = This /\ Train' = Train /\ Test' = Test /\ call' = call
    BY <1>0 DEF Study, This, Train, Test, Slice, loop
  <2> QED  BY <1>0, <1>1, <1>2, <2>1, <2>2 DEF StudyIsSound, loop
<1> QED  BY <1>0, <1>3, <1>4, <1>5, LoopInv DEF OptimizeInv

(* A trial is better than all before it, or the best remains.              *)
LEMMA TrialInv ==
  ASSUME OptimizeInv, NEW c \in Candidates, NEW metric \in Metrics \cup {NaN}, Trial(c, metric)
  PROVE  OptimizeInv'
<1>0. /\ TypeOK /\ StudyIsSound /\ study \in Study /\ pc = "study" /\ study.trials < NTrials
      /\ study.known[c] \in {metric, None} /\ UNCHANGED <<index, call, pc, loop, done, results, result>>
  BY DEF OptimizeInv, StudyIsSound, Trial
<1>1. /\ study.known \in [Candidates -> Metrics \cup {NaN, None}]
      /\ study.best \in Candidates \cup {None} /\ study.trials \in 0..NTrials
      /\ study.train \in SUBSET index
  BY <1>0 DEF Study
<1> DEFINE known == [study.known EXCEPT ![c] = metric]
           best == IF IsBetter(Score(metric)) THEN c ELSE study.best
<1>2. study' = [study EXCEPT !.read = study.train, !.trials = @ + 1, !.known = known, !.best = best]
  BY <1>0, ScoreIsNumber DEF Trial, Study
<1>3. /\ study'.window = study.window /\ study'.train = study.train /\ study'.test = study.test
      /\ study'.read = study.train /\ study'.trials = study.trials + 1
      /\ study'.known = known /\ study'.best = best
  BY <1>0, <1>2 DEF Study
<1>4. best \in Candidates /\ best # None
  BY <1>1, NoneAssumption DEF IsBetter
<1>5. /\ known \in [Candidates -> Metrics \cup {NaN, None}]
      /\ known[c] = metric /\ metric # None
      /\ \A d \in Candidates : d # c => known[d] = study.known[d]
      /\ \A d \in Candidates : study.known[d] # None => known[d] = study.known[d]
  BY <1>0, <1>1, ScoreIsNumber
<1>6. known[best] # None /\ \A d \in Candidates : known[d] # None => Score(known[d]) <= Score(known[best])
  <2>1. \A d \in Candidates : study.known[d] # None =>
           /\ Score(study.known[d]) \in Int /\ study.best # None
           /\ Score(study.known[d]) <= ScoreOf(study.best)
    BY <1>0, <1>1, ScoreIsNumber DEF StudyIsSound
  <2>2. study.best # None => study.best \in Candidates /\ study.known[study.best] # None
                             /\ ScoreOf(study.best) \in Int
    BY <1>0, <1>1, <2>1 DEF StudyIsSound, ScoreOf
  <2>3. Score(metric) \in Int
    BY ScoreIsNumber
  <2>4. CASE IsBetter(Score(metric))
    <3>1. best = c
      BY <2>4
    <3>2. ASSUME NEW d \in Candidates, known[d] # None  PROVE Score(known[d]) <= Score(metric)
      <4>1. CASE d = c
        BY <4>1, <1>5, <2>3
      <4>2. CASE d # c
        <5>1. known[d] = study.known[d]
          BY <4>2, <1>5
        <5> HIDE DEF known, best
        <5> QED  BY <3>2, <5>1, <2>1, <2>2, <2>3, <2>4 DEF IsBetter
      <4> QED  BY <4>1, <4>2
    <3> QED  BY <3>1, <3>2, <1>5
  <2>5. CASE ~IsBetter(Score(metric))
    <3>1. best = study.best /\ study.best # None /\ known[study.best] = study.known[study.best]
      BY <2>5, <2>2, <1>5 DEF IsBetter
    <3>2. Score(metric) <= ScoreOf(study.best)
      BY <2>5, <2>2, <2>3 DEF IsBetter
    <3>3. ASSUME NEW d \in Candidates, known[d] # None
          PROVE  Score(known[d]) <= ScoreOf(study.best)
      <4>1. CASE d = c
        BY <4>1, <1>5, <3>2
      <4>2. CASE d # c
        BY <4>2, <3>3, <1>5, <2>1
      <4> QED  BY <4>1, <4>2
    <3> QED  BY <3>1, <3>3, <2>2 DEF ScoreOf
  <2> QED  BY <2>4, <2>5
<1> HIDE DEF known, best
<1>7. study' \in Study
  <2>1. study.trials + 1 \in 0..NTrials
    BY <1>0, <1>1, OptimizeAssumption
  <2> QED  BY <1>0, <1>1, <1>2, <1>4, <1>5, <2>1 DEF Study
<1>8. TypeOK'
  BY <1>0, <1>7 DEF TypeOK, Call, Study, loop
<1>9. Decided'
  BY <1>0, LoopInv DEF OptimizeInv, Decided, Fits, Slice, loop
<1>10. StudyIsSound'
  <2>1. Study' = Study /\ This' = This /\ Train' = Train /\ Test' = Test
    BY <1>0 DEF Study, This, Train, Test, Slice, loop
  <2> QED  BY <1>0, <1>3, <1>4, <1>6, <1>7, <2>1 DEF StudyIsSound, ScoreOf, Score, loop
<1> QED  BY <1>0, <1>8, <1>9, <1>10, LoopInv DEF OptimizeInv

(* A study that has tried something has a best trial.                      *)
LEMMA StudyHasBest ==
  ASSUME OptimizeInv, StudyEnds
  PROVE  study.best # None
BY DEF OptimizeInv, StudyIsSound, StudyEnds

(* What raises leaves the windows and results as they were.                *)
LEMMA RaisesInv ==
  ASSUME OptimizeInv, Raises, pc # "windows"
  PROVE  OptimizeInv'
<1>1. TypeOK'
  BY DEF Raises, OptimizeInv, TypeOK, Call, Study, loop
<1>2. Decided'
  BY LoopInv DEF Raises, OptimizeInv, Decided, Fits, Slice, loop
<1>3. StudyIsSound'
  BY DEF Raises, StudyIsSound
<1> QED  BY <1>1, <1>2, <1>3, LoopInv DEF Raises, OptimizeInv

(* The study ends: its window gets a result, or all is done.               *)
LEMMA EndInv ==
  ASSUME OptimizeInv, EndStudy
  PROVE  OptimizeInv'
<1>0. TypeOK /\ pc = "study" /\ UNCHANGED <<index, call, loop, study>>
  BY DEF OptimizeInv, EndStudy, StudyEnds
<1>1. study.best # None
  BY StudyHasBest DEF EndStudy
<1>2. CASE study.window = None /\ pc' = "done" /\ UNCHANGED <<done, results>>
  <2>1. done = Len(windows)
    BY <1>0, <1>2 DEF OptimizeInv, StudyIsSound
  <2>2. TypeOK'
    BY <1>0, <1>2 DEF TypeOK, Call, Study, loop
  <2>3. Decided'
    BY <1>0, <1>2, <2>1, LoopInv DEF OptimizeInv, Decided, Fits, Slice, loop
  <2>4. StudyIsSound'
    BY <1>2 DEF StudyIsSound
  <2> QED  BY <1>0, <2>2, <2>3, <2>4, LoopInv DEF OptimizeInv
<1>3. CASE /\ study.window # None /\ pc' = "slices"
           /\ done' = done + 1 /\ results' = results \cup {study.window}
  <2>1. done < Len(windows) /\ study.window = This
    BY <1>0, <1>3 DEF OptimizeInv, StudyIsSound
  <2> QED  BY <1>0, <1>3, <2>1, WindowInv
<1> QED  BY <1>1, <1>2, <1>3 DEF EndStudy

LEMMA NextInv == OptimizeInv /\ [Next]_vars => OptimizeInv'
<1> SUFFICES ASSUME OptimizeInv, [Next]_vars  PROVE OptimizeInv'
  OBVIOUS
<1>1. CASE GenerateWindow
  BY <1>1, GenerateInv
<1>2. CASE NoMoreWindows
  BY <1>2, WindowsDoneInv
<1>3. CASE SkipWindow
  BY <1>3, WindowInv DEF SkipWindow
<1>4. CASE RunUntuned
  BY <1>4, WindowInv DEF RunUntuned
<1>5. CASE StartStudy \/ Refit
  BY <1>5, NewStudyInv
<1>6. CASE Return
  <2>1. TypeOK'
    BY <1>6 DEF Return, OptimizeInv, TypeOK, Call, Study, loop
  <2>2. Decided'
    BY <1>6, LoopInv DEF Return, OptimizeInv, Decided, Fits, Slice, loop
  <2>3. StudyIsSound'
    BY <1>6 DEF Return, StudyIsSound
  <2> QED  BY <1>6, <2>1, <2>2, <2>3, LoopInv DEF Return, OptimizeInv
<1>7. ASSUME NEW c \in Candidates, NEW metric \in Metrics \cup {NaN}, Trial(c, metric)
      PROVE  OptimizeInv'
  BY <1>7, TrialInv
<1>8. CASE EndStudy
  BY <1>8, EndInv
<1>9. CASE UntunedRaises \/ EndRaises \/ \E c \in Candidates : TrialRaises(c)
  <2>1. Raises /\ pc # "windows"
    BY <1>9 DEF UntunedRaises, EndRaises, StudyEnds, TrialRaises
  <2> QED  BY <2>1, RaisesInv
<1>10. CASE UNCHANGED vars
  <2>1. UNCHANGED <<index, call, pc, train_start, train_end, windows, done, study, results, result>>
    BY <1>10 DEF vars, loop
  <2>2. TypeOK'
    BY <2>1 DEF OptimizeInv, TypeOK, Call, Study
  <2>3. Decided'
    BY <2>1 DEF OptimizeInv, Decided, Fits, Slice, TestEnd
  <2>4. StudyIsSound'
    BY <2>1 DEF OptimizeInv, StudyIsSound, This, Train, Test, Slice, Study, ScoreOf
  <2>5. UNCHANGED <<index, call, loop>>
    BY <2>1 DEF loop
  <2> QED  BY <2>2, <2>3, <2>4, <2>5, LoopInv DEF OptimizeInv
<1> QED  BY <1>1, <1>2, <1>3, <1>4, <1>5, <1>6, <1>7, <1>8, <1>9, <1>10 DEF Next

(* The windows, the slices cut by them, the results and the study under    *)
(* way are what the loops of optimize.py make of them.                     *)
THEOREM OptimizeInvariant == Spec => []OptimizeInv
BY InitInv, NextInv, PTL DEF Spec

-----------------------------------------------------------------------------
(* A window that is next lies between its neighbours: its training slice   *)
(* ends where its test slice begins.                                       *)
LEMMA ThisWindow ==
  ASSUME OptimizeInv, done < Len(windows)
  PROVE  /\ This \in Window /\ This.train_end = This.test_start
         /\ \A seen \in Train, tested \in Test : seen < tested
<1>0. TypeOK /\ done + 1 \in 1..Len(windows)
  BY Typing DEF OptimizeInv
<1>1. This \in Window /\ This.train_end = This.test_start /\ This.train_end \in Nat
  BY <1>0, Typing DEF OptimizeInv, WindowsInOrder, This, Window
<1>2. index \subseteq Nat
  BY <1>0, Typing
<1> QED  BY <1>1, <1>2 DEF Train, Test, Slice

(* What is reported for a window is reported of candles that come after    *)
(* all that its parameters were chosen by.                                 *)
THEOREM NeverPeeks == Spec => []NoPeeking
<1>1. Init => NoPeeking
  BY DEF Init, NoPeeking
<1>2. ASSUME OptimizeInv, NoPeeking, [Next]_vars  PROVE NoPeeking'
  <2>1. CASE result' = None \/ UNCHANGED result
    BY <1>2, <2>1 DEF NoPeeking
  <2>2. CASE RunUntuned
    BY <1>2, <2>2, ThisWindow DEF RunUntuned, NoPeeking
  <2>3. CASE EndStudy
    <3>1. result'.window = study.window /\ result'.read = study.read /\ result'.test = study.test
      BY <1>2, <2>3, StudyHasBest DEF EndStudy, Report
    <3>2. study.read \subseteq study.train
      BY <1>2, <2>3 DEF EndStudy, StudyEnds, OptimizeInv, StudyIsSound
    <3>3. study.window # None => done < Len(windows) /\ study.train = Train /\ study.test = Test
      BY <1>2, <2>3 DEF EndStudy, StudyEnds, OptimizeInv, StudyIsSound
    <3> QED  BY <1>2, <3>1, <3>2, <3>3, ThisWindow DEF NoPeeking
  <2> QED
    BY <1>2, <2>1, <2>2, <2>3
    DEF Next, GenerateWindow, NoMoreWindows, SkipWindow, StartStudy, Refit, Return, Trial, vars,
        Raises, UntunedRaises, TrialRaises, EndRaises
<1> QED  BY <1>1, <1>2, OptimizeInvariant, PTL DEF Spec

(* The definition that is deployed has the best metric of those tried.     *)
THEOREM BestIsDeployed == Spec => []BestIsBest
<1>1. Init => BestIsBest
  BY DEF Init, BestIsBest
<1>2. ASSUME OptimizeInv, BestIsBest, [Next]_vars  PROVE BestIsBest'
  <2>1. CASE result' = None \/ UNCHANGED <<call, result, study>>
    BY <1>2, <2>1 DEF BestIsBest
  <2>2. CASE RunUntuned
    BY <2>2 DEF RunUntuned, BestIsBest
  <2>3. ASSUME NEW c \in Candidates, NEW metric \in Metrics \cup {NaN}, Trial(c, metric)
        PROVE  result' = None
    BY <1>2, <2>3 DEF Trial, OptimizeInv, StudyIsSound
  <2>4. CASE EndStudy
    <3>1. /\ result'.in_sample = study.known[study.best] /\ result'.definition = study.best
          /\ study' = study /\ study.best # None
      BY <1>2, <2>4, StudyHasBest DEF EndStudy, Report
    <3>2. \A c \in Candidates : study.known[c] # None =>
             Score(study.known[c]) <= Score(study.known[study.best])
      BY <1>2, <2>4 DEF EndStudy, StudyEnds, OptimizeInv, StudyIsSound, ScoreOf
    <3> QED  BY <3>1, <3>2 DEF BestIsBest
  <2> QED
    BY <1>2, <2>1, <2>2, <2>3, <2>4
    DEF Next, GenerateWindow, NoMoreWindows, SkipWindow, StartStudy, Refit, Return, vars,
        Raises, UntunedRaises, TrialRaises, EndRaises
<1> QED  BY <1>1, <1>2, OptimizeInvariant, PTL DEF Spec

(* A study whose trials gave metrics has a best one at its end, were they  *)
(* all NaN: score_from_result gives NaN a score.  What raises ends the     *)
(* study before.                                                           *)
THEOREM StudiesEndWithBest == Spec => []EndsWithBest
<1>1. OptimizeInv => EndsWithBest
  BY StudyHasBest DEF EndsWithBest, OptimizeInv, StudyIsSound, StudyEnds
<1> QED  BY <1>1, OptimizeInvariant, PTL

-----------------------------------------------------------------------------
(* With the default step windows do not overlap.                           *)
LEMMA OneWindow ==
  ASSUME OptimizeInv, call.step = None, NEW t \in index,
         NEW i \in 1..Len(windows), NEW j \in 1..Len(windows),
         IsTested(t, windows[i]), IsTested(t, windows[j])
  PROVE  i = j
<1>0. TypeOK /\ Step = call.test_period /\ t \in Nat
  BY Typing DEF OptimizeInv, Step
<1>1. \A k, l \in 1..Len(windows) : k < l => windows[k].test_end <= windows[l].test_start
  BY <1>0 DEF OptimizeInv, WindowsInOrder
<1>2. \A k \in 1..Len(windows) : windows[k].test_start \in Nat /\ windows[k].test_end \in Nat
  BY <1>0, Typing DEF Window
<1>3. Len(windows) \in Nat
  BY <1>0, Typing
<1> QED  BY <1>0, <1>1, <1>2, <1>3 DEF IsTested

(* Every candle after the first training period is tested once, but for    *)
(* the candles of a last, incomplete test period.                          *)
THEOREM EveryCandleTestedOnce == Spec => []EachTestedOnce
<1>1. OptimizeInv => EachTestedOnce
  <2> SUFFICES ASSUME OptimizeInv, pc = "done", call.step = None,
                      NEW t \in index, t >= call.train_period
               PROVE  \/ \E w \in results : IsTested(t, w) /\ \A v \in results : IsTested(t, v) => v = w
                      \/ /\ \A w \in results : ~IsTested(t, w)
                         /\ \/ \A u \in index : u - t < call.test_period
                            \/ \E i \in 1..Len(windows) :
                                  /\ IsTested(t, windows[i])
                                  /\ Slice(windows[i].train_start, windows[i].train_end) = {}
    BY DEF EachTestedOnce
  <2>0. TypeOK /\ done = Len(windows) /\ ~Fits(TestEnd) /\ t \in Nat
    BY Typing DEF OptimizeInv, Decided
  <2>1. \A w \in results : \E i \in 1..Len(windows) : w = windows[i]
    BY <2>0 DEF TypeOK
  <2>2. CASE t < train_end
    <3>1. PICK i \in 1..Len(windows) : IsTested(t, windows[i])
      BY <2>0, <2>2 DEF OptimizeInv, WindowsCover
    <3>2. \A v \in results : IsTested(t, v) => v = windows[i]
      BY <2>1, <3>1, OneWindow
    <3>3. t \in Slice(windows[i].test_start, windows[i].test_end)
      BY <3>1 DEF Slice, IsTested
    <3>4. windows[i] \in results \/ Slice(windows[i].train_start, windows[i].train_end) = {}
      BY <2>0, <3>3 DEF OptimizeInv, Decided
    <3> QED  BY <3>1, <3>2, <3>4
  <2>3. CASE train_end <= t
    <3>1. \A i \in 1..Len(windows) : windows[i].test_end <= train_end /\ windows[i].test_end \in Nat
      <4>1. Step = call.test_period
        BY DEF Step
      <4> QED  BY <2>0, <4>1, Typing DEF OptimizeInv, WindowsInOrder, Window
    <3>2. \A w \in results : ~IsTested(t, w)
      BY <2>0, <2>1, <2>3, <3>1, Typing DEF IsTested
    <3>3. ASSUME NEW u \in index  PROVE u - t < call.test_period
      <4>1. u \in Nat /\ u < TestEnd
        BY <2>0, Typing DEF Fits
      <4> QED  BY <2>0, <2>3, <4>1, Typing DEF TestEnd
    <3> QED  BY <3>2, <3>3
  <2> QED  BY <2>0, <2>2, <2>3, Typing
<1> QED  BY <1>1, OptimizeInvariant, PTL
=============================================================================
