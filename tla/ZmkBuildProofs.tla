--------------------------- MODULE ZmkBuildProofs ---------------------------
(***************************************************************************)
(* `west zmk-build', for every number of jobs, every command line and      *)
(* every size of the pool.                                                 *)
(*                                                                         *)
(* The exit status is computed from the results, which hold what the main  *)
(* thread has collected: CollectInvariant follows a job from the pool over *)
(* the completed futures to the results.  TeeInvariant says what a log     *)
(* holds while it is written.  RunInvariant puts both beside the plan: the *)
(* names are distinct, so a job's directory tells that job's history and   *)
(* no other's.                                                             *)
(***************************************************************************)
EXTENDS ZmkBuild, DataLemmas, FiniteSetTheorems

Stages == {"idle", "queued", "building", "flashing", "over"}
Outcomes == {"none", "success", "failure", "exception"}
Result == [id : Job \cup Nat, job : Job, success : BOOLEAN]

CollectTypeOK ==
  /\ stage \in [Job -> Stages] /\ outcome \in [Job -> Outcomes]
  /\ finished \in Seq(Job) /\ results \in Seq(Result)
  /\ main \in {"plan", "submitted", "collecting", "exited"}
  /\ exit \in {0, 1, NotExited} /\ (main = "exited" <=> exit # NotExited)
  /\ Targets \subseteq Job

\* Only a target has a job, and it has none before the targets are planned.
JobsAreTargets ==
  /\ \A j \in Job : stage[j] # "idle" => j \in Targets
  /\ main = "plan" => \A j \in Job : stage[j] = "idle"

\* A job that is over has an outcome, and waits to be collected or has been.
OverIsAccounted ==
  \A j \in Job :
    /\ stage[j] = "over" <=> outcome[j] # "none"
    /\ stage[j] = "over" =>
         \/ \E k \in DOMAIN finished : finished[k] = j
         \/ \E k \in DOMAIN results : results[k].job = j

\* Nothing else is collected, and a result tells the outcome.
ResultsAreOutcomes ==
  /\ \A k \in DOMAIN finished : stage[finished[k]] = "over"
  /\ \A k \in DOMAIN results :
       /\ stage[results[k].job] = "over"
       /\ results[k].success <=> outcome[results[k].job] = "success"

\* After the exit no job is under way.
ExitedIsOver ==
  main = "exited" => \A j \in Job : stage[j] \in {"idle", "over"}

\* There are no targets before the plan.
NoTargets == main = "plan" => Targets = {}

CollectInvariant ==
  /\ CollectTypeOK /\ NoTargets /\ JobsAreTargets /\ OverIsAccounted
  /\ ResultsAreOutcomes /\ ExitedIsOver /\ BuildExitIsHonest

-----------------------------------------------------------------------------
\* What RemoveAt leaves of a sequence: everything but the element taken out.
LEMMA RemoveAtFacts ==
  ASSUME NEW S, NEW s \in Seq(S), NEW k \in DOMAIN s
  PROVE  /\ RemoveAt(s, k) \in Seq(S) /\ Len(RemoveAt(s, k)) = Len(s) - 1
         /\ \A i \in DOMAIN s : i # k =>
              \E l \in DOMAIN RemoveAt(s, k) : RemoveAt(s, k)[l] = s[i]
         /\ \A l \in DOMAIN RemoveAt(s, k) :
              \E i \in DOMAIN s : RemoveAt(s, k)[l] = s[i]
<1> DEFINE front == SubSeq(s, 1, k - 1)
           back  == SubSeq(s, k + 1, Len(s))
<1>1. k \in 1..Len(s) /\ Len(s) \in Nat
  OBVIOUS
<1>2. /\ front \in Seq(S) /\ Len(front) = k - 1
      /\ \A i \in 1..(k - 1) : front[i] = s[i]
  BY <1>1
<1>3. /\ back \in Seq(S) /\ Len(back) = Len(s) - k
      /\ \A i \in 1..(Len(s) - k) : back[i] = s[i + k]
  BY <1>1
<1>4. RemoveAt(s, k) = front \o back
  BY DEF RemoveAt
<1>5. /\ RemoveAt(s, k) \in Seq(S) /\ Len(RemoveAt(s, k)) = Len(s) - 1
      /\ DOMAIN RemoveAt(s, k) = 1..(Len(s) - 1)
      /\ \A l \in 1..(Len(s) - 1) :
           RemoveAt(s, k)[l] = IF l < k THEN s[l] ELSE s[l + 1]
  <2> HIDE DEF front, back
  <2>1. front \o back \in Seq(S) /\ Len(front \o back) = Len(s) - 1
    BY <1>1, <1>2, <1>3
  <2>2. ASSUME NEW l \in 1..(Len(s) - 1)
        PROVE  (front \o back)[l] = IF l < k THEN s[l] ELSE s[l + 1]
    <3>1. CASE l < k
      BY <1>1, <1>2, <1>3, <3>1
    <3>2. CASE ~(l < k)
      <4>1. l \in Int /\ l - (k - 1) \in 1..(Len(s) - k) /\ (l - (k - 1)) + k = l + 1
        BY <1>1, <3>2
      <4>2. l \in 1..(Len(front) + Len(back)) /\ ~(l <= Len(front))
        BY <1>1, <1>2, <1>3, <3>2
      <4>3. (front \o back)[l] = back[l - Len(front)]
        BY <1>2, <1>3, <4>2, ConcatProperties
      <4> QED  BY <1>2, <1>3, <3>2, <4>1, <4>3
    <3> QED  BY <3>1, <3>2
  <2> QED  BY <1>4, <2>1, <2>2
<1>6. ASSUME NEW i \in DOMAIN s, i # k
      PROVE  \E l \in DOMAIN RemoveAt(s, k) : RemoveAt(s, k)[l] = s[i]
  <2>1. CASE i < k
    <3>1. i \in 1..(Len(s) - 1)
      BY <1>1, <2>1
    <3> QED  BY <1>5, <2>1, <3>1
  <2>2. CASE i > k
    <3>1. i - 1 \in 1..(Len(s) - 1) /\ ~(i - 1 < k) /\ (i - 1) + 1 = i
      BY <1>1, <2>2
    <3> QED  BY <1>5, <3>1
  <2> QED  BY <1>1, <1>6, <2>1, <2>2
<1>7. ASSUME NEW l \in DOMAIN RemoveAt(s, k)
      PROVE  \E i \in DOMAIN s : RemoveAt(s, k)[l] = s[i]
  <2>1. l \in 1..Len(s) /\ l + 1 \in 1..Len(s)
    BY <1>1, <1>5
  <2> QED  BY <1>5, <2>1
<1> QED  BY <1>5, <1>6, <1>7

LEMMA ResultFacts ==
  ASSUME results \in Seq(Result), NEW k \in DOMAIN results
  PROVE  results[k].job \in Job
<1>1. results[k] \in Result
  OBVIOUS
<1> QED  BY <1>1 DEF Result

\* A step of a job starts its process or completes its future.
LEMMA JobStepFacts ==
  ASSUME NEW j \in Job, JobStep(j)
  PROVE  /\ stage[j] \in {"queued", "building", "flashing"}
         /\ UNCHANGED mainVars
         /\ \/ /\ stage' \in {[stage EXCEPT ![j] = "building"],
                              [stage EXCEPT ![j] = "flashing"]}
               /\ UNCHANGED <<outcome, finished>>
            \/ \E how \in {"success", "failure", "exception"} :
                 /\ stage' = [stage EXCEPT ![j] = "over"]
                 /\ outcome' = [outcome EXCEPT ![j] = how]
                 /\ finished' = Append(finished, j)
<1>1. ASSUME NEW how \in {"success", "failure", "exception"}, FlashOr(j, how)
      PROVE  \/ /\ stage' = [stage EXCEPT ![j] = "flashing"]
                /\ UNCHANGED <<outcome, finished>>
             \/ \E h \in {"success", "failure", "exception"} : Completes(j, h)
  BY <1>1 DEF FlashOr, StartFlash
<1>2. CASE SkipBuild(j)
  BY <1>1, <1>2 DEF SkipBuild, Taken, Completes
<1>3. CASE StartBuild(j)
  BY <1>3 DEF StartBuild, Taken, Completes
<1>4. CASE FinishBuild(j)
  BY <1>1, <1>4 DEF FinishBuild, Completes
<1>5. CASE FinishFlash(j)
  BY <1>5 DEF FinishFlash, Completes
<1> QED  BY <1>2, <1>3, <1>4, <1>5 DEF JobStep

-----------------------------------------------------------------------------
LEMMA CollectInit == BuildInit => CollectInvariant
BY DEF BuildInit, CollectInvariant, CollectTypeOK, JobsAreTargets, OverIsAccounted,
       ResultsAreOutcomes, ExitedIsOver, NoTargets, BuildExitIsHonest, Targets,
       Stages, Outcomes, Result, NotExited

\* The plan ends the program or submits a job for each target.
LEMMA PlanKeepsInvariant ==
  CollectInvariant /\ do_run => CollectInvariant'
<1> SUFFICES ASSUME CollectInvariant, do_run PROVE CollectInvariant'
  OBVIOUS
<1>1. /\ main = "plan" /\ UNCHANGED <<outcome, finished, results>>
      /\ \/ exit' \in {0, 1} /\ main' = "exited" /\ UNCHANGED <<matrix, stage>>
         \/ \E targets : Submit(targets)
  BY DEF do_run, _run_for_all, Exits, Build
<1>2. CASE exit' \in {0, 1} /\ main' = "exited" /\ UNCHANGED <<matrix, stage>>
  <2>1. CollectTypeOK'
    BY <1>1, <1>2 DEF CollectInvariant, CollectTypeOK, NotExited, Targets
  <2>2. \A j \in Job : stage[j] = "idle"
    BY <1>1 DEF CollectInvariant, JobsAreTargets
  <2>3. JobsAreTargets' /\ ExitedIsOver'
    BY <1>2, <2>2 DEF JobsAreTargets, ExitedIsOver
  <2>4. OverIsAccounted' /\ ResultsAreOutcomes'
    BY <1>1, <1>2 DEF CollectInvariant, OverIsAccounted, ResultsAreOutcomes
  <2>5. Targets' = {}
    BY <1>1, <1>2 DEF CollectInvariant, NoTargets, Targets
  <2> QED  BY <2>1, <2>3, <2>4, <2>5 DEF CollectInvariant, NoTargets, BuildExitIsHonest
<1>3. CASE \E targets : Submit(targets)
  <2>1. PICK targets : Submit(targets)
    BY <1>3
  <2>2. CollectTypeOK'
    BY <1>1, <2>1 DEF Submit, CollectInvariant, CollectTypeOK, Stages, Targets
  <2>3. \A j \in Job : stage[j] = "idle"
    BY <1>1 DEF CollectInvariant, JobsAreTargets
  <2>4. JobsAreTargets' /\ ExitedIsOver' /\ NoTargets'
    BY <2>1 DEF Submit, JobsAreTargets, ExitedIsOver, NoTargets, Targets
  <2>5. \A j \in Job : outcome[j] = "none" /\ stage'[j] # "over"
    BY <2>1, <2>3 DEF Submit, CollectInvariant, OverIsAccounted
  <2>6. OverIsAccounted'
    BY <1>1, <2>5 DEF OverIsAccounted
  <2>7. finished \in Seq(Job) /\ results \in Seq(Result)
    BY DEF CollectInvariant, CollectTypeOK
  <2>8. /\ \A k \in DOMAIN finished : finished[k] \in Job
        /\ \A k \in DOMAIN results : results[k].job \in Job
    BY <2>7, ResultFacts
  <2>9. finished = << >> /\ results = << >>
    BY <2>3, <2>7, <2>8 DEF CollectInvariant, ResultsAreOutcomes
  <2>10. ResultsAreOutcomes'
    BY <1>1, <2>9 DEF ResultsAreOutcomes
  <2>11. BuildExitIsHonest'
    BY <2>1, <1>1 DEF Submit, CollectInvariant, CollectTypeOK, BuildExitIsHonest
  <2> QED  BY <2>2, <2>4, <2>6, <2>10, <2>11 DEF CollectInvariant
<1> QED  BY <1>1, <1>2, <1>3

\* A job that starts or completes: a completed one waits to be collected.
LEMMA JobKeepsInvariant ==
  ASSUME CollectInvariant, NEW j \in Job, JobStep(j)
  PROVE  CollectInvariant'
<1> USE DEF CollectInvariant
<1>1. /\ stage[j] \in {"queued", "building", "flashing"} /\ UNCHANGED mainVars
      /\ main # "exited" /\ main' # "exited"
  BY JobStepFacts DEF ExitedIsOver, mainVars
<1>2. stage \in [Job -> Stages] /\ outcome \in [Job -> Outcomes]
      /\ finished \in Seq(Job) /\ results \in Seq(Result)
  BY DEF CollectTypeOK
<1>3. /\ \A k \in DOMAIN finished : finished[k] \in Job /\ finished[k] # j
      /\ \A k \in DOMAIN results : results[k].job \in Job /\ results[k].job # j
  <2>1. \A k \in DOMAIN results : results[k].job \in Job
    BY <1>2, ResultFacts
  <2> QED  BY <1>1, <1>2, <2>1 DEF ResultsAreOutcomes
<1>4. BuildExitIsHonest' /\ ExitedIsOver' /\ NoTargets'
  BY <1>1 DEF CollectTypeOK, BuildExitIsHonest, ExitedIsOver, NoTargets, Targets, mainVars
<1>5. CASE /\ stage' \in {[stage EXCEPT ![j] = "building"],
                          [stage EXCEPT ![j] = "flashing"]}
           /\ UNCHANGED <<outcome, finished>>
  <2>1. CollectTypeOK'
    BY <1>1, <1>5 DEF CollectTypeOK, Stages, Targets, mainVars
  <2>2. JobsAreTargets'
    BY <1>1, <1>2, <1>5 DEF JobsAreTargets, Targets, mainVars
  <2>3. OverIsAccounted'
    BY <1>1, <1>2, <1>5 DEF OverIsAccounted, mainVars
  <2>4. ResultsAreOutcomes'
    BY <1>1, <1>2, <1>3, <1>5 DEF ResultsAreOutcomes, mainVars
  <2> QED  BY <1>4, <2>1, <2>2, <2>3, <2>4
<1>6. ASSUME NEW how \in {"success", "failure", "exception"},
             stage' = [stage EXCEPT ![j] = "over"],
             outcome' = [outcome EXCEPT ![j] = how],
             finished' = Append(finished, j)
      PROVE  CollectInvariant'
  <2>1. CollectTypeOK'
    BY <1>1, <1>6 DEF CollectTypeOK, Stages, Outcomes, Targets, mainVars
  <2>2. JobsAreTargets'
    BY <1>1, <1>2, <1>6 DEF JobsAreTargets, Targets, mainVars
  <2>3. /\ \A k \in DOMAIN finished : k \in DOMAIN finished' /\ finished'[k] = finished[k]
        /\ \A k \in DOMAIN finished' : k \in DOMAIN finished \/ finished'[k] = j
        /\ \E k \in DOMAIN finished' : finished'[k] = j
    <3>1. Len(finished) + 1 \in DOMAIN finished' /\ finished'[Len(finished) + 1] = j
      BY <1>2, <1>6
    <3> QED  BY <1>2, <1>6, <3>1
  <2>4. OverIsAccounted'
    BY <1>1, <1>2, <1>6, <2>3 DEF OverIsAccounted, mainVars
  <2>5. ResultsAreOutcomes'
    BY <1>1, <1>2, <1>3, <1>6, <2>3 DEF ResultsAreOutcomes, mainVars
  <2> QED  BY <1>4, <2>1, <2>2, <2>4, <2>5
<1> QED  BY <1>5, <1>6, JobStepFacts

-----------------------------------------------------------------------------
\* The main thread takes a completed job and notes its outcome.
LEMMA CollectKeepsInvariant ==
  CollectInvariant /\ Collect => CollectInvariant'
<1> SUFFICES ASSUME CollectInvariant, Collect PROVE CollectInvariant'
  OBVIOUS
<1> USE DEF CollectInvariant
<1>1. PICK k \in DOMAIN finished : /\ Collected(finished[k])
                                  /\ finished' = RemoveAt(finished, k)
  BY DEF Collect
<1>2. stage \in [Job -> Stages] /\ outcome \in [Job -> Outcomes]
      /\ finished \in Seq(Job) /\ results \in Seq(Result)
  BY DEF CollectTypeOK
<1>3. /\ main = "collecting"
      /\ UNCHANGED <<stage, outcome, matrix, main, exit>>
  BY DEF Collect, jobVars
<1> DEFINE j == finished[k]
           result == [id      |-> IF outcome[j] = "exception" THEN Len(results) + 1 ELSE j,
                      job     |-> j,
                      success |-> outcome[j] = "success"]
<1>4. j \in Job /\ stage[j] = "over" /\ results' = Append(results, result)
  BY <1>1, <1>2 DEF Collected, ResultsAreOutcomes
<1>5. /\ finished' \in Seq(Job)
      /\ \A i \in DOMAIN finished : i # k =>
           \E l \in DOMAIN finished' : finished'[l] = finished[i]
      /\ \A l \in DOMAIN finished' : \E i \in DOMAIN finished : finished'[l] = finished[i]
  BY <1>1, <1>2, RemoveAtFacts
<1>6. result \in Result /\ result.job = j /\ (result.success <=> outcome[j] = "success")
  <2> DEFINE id == IF outcome[j] = "exception" THEN Len(results) + 1 ELSE j
             success == outcome[j] = "success"
  <2>1. id \in Job \cup Nat
    BY <1>2, <1>4
  <2>2. success \in BOOLEAN
    OBVIOUS
  <2>3. result = [id |-> id, job |-> j, success |-> success]
    OBVIOUS
  <2> HIDE DEF id, result
  <2> QED  BY <1>4, <2>1, <2>2, <2>3 DEF Result
<1>7. /\ results' \in Seq(Result)
      /\ \A i \in DOMAIN results : i \in DOMAIN results' /\ results'[i] = results[i]
      /\ \A i \in DOMAIN results' : i \in DOMAIN results \/ results'[i] = result
      /\ \E i \in DOMAIN results' : results'[i] = result
  <2> HIDE DEF result
  <2>1. Len(results) + 1 \in DOMAIN results' /\ results'[Len(results) + 1] = result
    BY <1>2, <1>4, <1>6
  <2> QED  BY <1>2, <1>4, <1>6, <2>1
<1> HIDE DEF result
<1>8. CollectTypeOK'
  BY <1>3, <1>5, <1>7 DEF CollectTypeOK, Targets
<1>9. JobsAreTargets' /\ ExitedIsOver' /\ NoTargets'
  BY <1>3 DEF JobsAreTargets, ExitedIsOver, NoTargets, Targets
<1>10. OverIsAccounted'
  BY <1>3, <1>5, <1>6, <1>7 DEF OverIsAccounted
<1>11. ResultsAreOutcomes'
  BY <1>3, <1>4, <1>5, <1>6, <1>7 DEF ResultsAreOutcomes
<1>12. BuildExitIsHonest'
  BY <1>3 DEF CollectTypeOK, BuildExitIsHonest
<1> QED  BY <1>8, <1>9, <1>10, <1>11, <1>12

\* The status is computed when every job is over and collected.
LEMMA ReportKeepsInvariant ==
  CollectInvariant /\ Report => CollectInvariant'
<1> SUFFICES ASSUME CollectInvariant, Report PROVE CollectInvariant'
  OBVIOUS
<1> USE DEF CollectInvariant
<1>1. /\ main = "collecting" /\ main' = "exited" /\ finished = << >>
      /\ \A j \in Targets : stage[j] = "over"
      /\ exit' = IF \E k \in DOMAIN results : ~results[k].success THEN 1 ELSE 0
      /\ UNCHANGED <<stage, outcome, matrix, finished, results>>
  BY DEF Report, Exits, jobVars
<1>2. CollectTypeOK'
  BY <1>1 DEF CollectTypeOK, NotExited, Targets
<1>3. stage \in [Job -> Stages] /\ results \in Seq(Result) /\ Targets \subseteq Job
  BY DEF CollectTypeOK
<1>4. JobsAreTargets' /\ OverIsAccounted' /\ ResultsAreOutcomes' /\ NoTargets'
  BY <1>1 DEF JobsAreTargets, OverIsAccounted, ResultsAreOutcomes, NoTargets, Targets
<1>5. ExitedIsOver'
  BY <1>1, <1>3 DEF ExitedIsOver, JobsAreTargets, Stages
<1>6. \A j \in Targets : \E k \in DOMAIN results : results[k].job = j
  BY <1>1, <1>3 DEF OverIsAccounted
<1>7. \A k \in DOMAIN results : results[k].job \in Targets
  <2>1. \A k \in DOMAIN results : results[k].job \in Job
    BY <1>3, ResultFacts
  <2> QED  BY <2>1 DEF ResultsAreOutcomes, JobsAreTargets
<1>8. (\E k \in DOMAIN results : ~results[k].success)
        <=> ~(\A j \in Targets : outcome[j] = "success")
  BY <1>6, <1>7 DEF ResultsAreOutcomes
<1>9. BuildExitIsHonest'
  BY <1>1, <1>8 DEF BuildExitIsHonest, Targets
<1> QED  BY <1>2, <1>4, <1>5, <1>9

-----------------------------------------------------------------------------
LEMMA StepKeepsInvariant ==
  CollectInvariant /\ [BuildNext]_buildVars => CollectInvariant'
<1> SUFFICES ASSUME CollectInvariant, [BuildNext]_buildVars PROVE CollectInvariant'
  OBVIOUS
<1>1. CASE do_run
  BY <1>1, PlanKeepsInvariant
<1>2. CASE as_completed
  BY <1>2 DEF as_completed, jobVars, CollectInvariant, CollectTypeOK, JobsAreTargets,
    OverIsAccounted, ResultsAreOutcomes, ExitedIsOver, NoTargets, BuildExitIsHonest, Targets
<1>3. CASE Collect
  BY <1>3, CollectKeepsInvariant
<1>4. CASE Report
  BY <1>4, ReportKeepsInvariant
<1>5. ASSUME NEW j \in Job, JobStep(j) PROVE CollectInvariant'
  BY <1>5, JobKeepsInvariant
<1>6. ASSUME UNCHANGED <<stage, outcome, finished, mainVars>> PROVE CollectInvariant'
  BY <1>6 DEF mainVars, CollectInvariant, CollectTypeOK, JobsAreTargets,
    OverIsAccounted, ResultsAreOutcomes, ExitedIsOver, NoTargets, BuildExitIsHonest, Targets
<1>7. CASE \E j \in Job : WestExits(j) \/ TeeStep(j) \/ Chatter(j)
  BY <1>6, <1>7 DEF WestExits, TeeStep, Chatter, jobVars
<1>8. CASE UNCHANGED buildVars
  BY <1>6, <1>8 DEF buildVars, jobVars
<1> QED  BY <1>1, <1>2, <1>3, <1>4, <1>5, <1>7, <1>8 DEF BuildNext, MainStep

LEMMA CollectInvariantHolds == BuildSpec => []CollectInvariant
BY CollectInit, StepKeepsInvariant, PTL DEF BuildSpec

\* The exit status of `west zmk-build' is 0 exactly if every job was a success,
\* in whatever order the jobs complete and are collected, and whatever raised.
THEOREM ExitStatusIsHonest == BuildSpec => []BuildExitIsHonest
<1>1. CollectInvariant => BuildExitIsHonest
  BY DEF CollectInvariant
<1> QED  BY <1>1, CollectInvariantHolds, PTL

\* A result is never made up: what is reported of a job is how its future ended.
THEOREM ResultsTellTheOutcome == BuildSpec => []ResultsAreOutcomes
<1>1. CollectInvariant => ResultsAreOutcomes
  BY DEF CollectInvariant
<1> QED  BY <1>1, CollectInvariantHolds, PTL

-----------------------------------------------------------------------------
(* The logs.                                                               *)

Line == Stream \X (1..MaxLines)

\* A log that holds the first lines of each stream, b[s] of stream s, in order.
Follows(log, b) ==
  /\ ToSet(log) = {line \in Line : line[2] <= b[line[1]]}
  /\ \A i, l \in DOMAIN log :
       i < l /\ log[i][1] = log[l][1] => log[i][2] < log[l][2]

\* A thread is behind its pipe, and through with it only when nobody writes or
\* when it failed.
PipesFollow(j) ==
  \A s \in Stream :
    /\ buf[j][s] <= printed[j][s]
    /\ proc[j] # "none" /\ s \notin reading[j] \cup broken[j]
         => proc[j] = "silent" /\ buf[j][s] = printed[j][s]

TeeInvariant ==
  TeeTypeOK /\ \A j \in Job : PipesFollow(j) /\ Follows(log_file[j], buf[j])

\* The next line of a stream is the next line of its log.
LEMMA CopyExtendsLog ==
  ASSUME NEW log \in Seq(Line), NEW b \in [Stream -> 0..MaxLines], Follows(log, b),
         NEW s \in Stream, b[s] + 1 \in 1..MaxLines
  PROVE  /\ Append(log, <<s, b[s] + 1>>) \in Seq(Line)
         /\ Follows(Append(log, <<s, b[s] + 1>>), [b EXCEPT ![s] = @ + 1])
<1> DEFINE line == <<s, b[s] + 1>>
           t == Append(log, line)
           c == [b EXCEPT ![s] = @ + 1]
<1>1. line \in Line /\ line[1] = s /\ line[2] = b[s] + 1
  BY DEF Line
<1> HIDE DEF line
<1>2. /\ t \in Seq(Line) /\ Len(t) = Len(log) + 1 /\ t[Len(log) + 1] = line
      /\ \A i \in 1..Len(log) : t[i] = log[i] /\ log[i] \in Line
      /\ DOMAIN t = 1..(Len(log) + 1) /\ DOMAIN log = 1..Len(log) /\ Len(log) \in Nat
  BY <1>1
<1> HIDE DEF t
<1>3. /\ \A r \in Stream : b[r] \in Nat
      /\ c[s] = b[s] + 1 /\ \A r \in Stream : r # s => c[r] = b[r]
  OBVIOUS
<1> HIDE DEF c
<1>4. ToSet(t) = ToSet(log) \cup {line}
  BY <1>2 DEF ToSet
<1>5. ASSUME NEW x \in Line
      PROVE  x[1] \in Stream /\ x[2] \in Nat /\ x = <<x[1], x[2]>>
  BY DEF Line
<1>6. ASSUME NEW x \in Line
      PROVE  x \in ToSet(log) \cup {line} <=> x[2] <= c[x[1]]
  <2>1. x \in ToSet(log) <=> x[2] <= b[x[1]]
    BY DEF Follows
  <2>2. CASE x[1] = s
    <3>1. x = line <=> x[2] = b[s] + 1
      BY <1>5, <2>2 DEF line
    <3>2. x[2] <= b[s] + 1 <=> x[2] <= b[s] \/ x[2] = b[s] + 1
      BY <1>3, <1>5
    <3> QED
      BY <1>3, <2>1, <2>2, <3>1, <3>2
  <2>3. CASE x[1] # s
    <3>1. x # line
      BY <1>1, <2>3
    <3>2. c[x[1]] = b[x[1]]
      BY <1>3, <1>5, <2>3
    <3> QED
      BY <2>1, <3>1, <3>2
  <2> QED
    BY <2>2, <2>3
<1>7. ToSet(t) = {x \in Line : x[2] <= c[x[1]]}
  <2>1. ToSet(log) \subseteq Line
    BY DEF Follows
  <2> QED
    BY <1>1, <1>4, <1>6, <2>1
<1>8. ASSUME NEW i \in DOMAIN t, NEW l \in DOMAIN t, i < l, t[i][1] = t[l][1]
      PROVE  t[i][2] < t[l][2]
  <2>1. i \in 1..Len(log) /\ t[i] = log[i]
    BY <1>2, <1>8
  <2>2. CASE l \in 1..Len(log)
    BY <1>2, <1>8, <2>1, <2>2 DEF Follows
  <2>3. CASE l = Len(log) + 1
    <3>1. log[i] \in ToSet(log) /\ log[i] \in Line
      BY <1>2, <2>1 DEF ToSet
    <3>2. log[i][2] <= b[log[i][1]]
      BY <3>1 DEF Follows
    <3>3. log[i][1] = s /\ t[l][2] = b[s] + 1
      BY <1>1, <1>2, <1>8, <2>1, <2>3
    <3> QED
      BY <1>3, <1>5, <2>1, <3>1, <3>2, <3>3
  <2> QED
    BY <1>2, <2>2, <2>3
<1>9. Follows(t, c)
  BY <1>7, <1>8 DEF Follows
<1> QED
  BY <1>2, <1>9 DEF t, c, line

\* An empty log is what nothing printed leaves.
LEMMA EmptyLogFollows == << >> \in Seq(Line) /\ Follows(<< >>, Nothing)
<1>1. ToSet(<< >>) = {} /\ \A x \in Line : ~(x[2] <= Nothing[x[1]])
  BY DEF ToSet, Nothing, Line
<1> QED
  BY <1>1 DEF Follows

\* A process that writes, exits, and lets go of its pipes.
LEMMA ProcessKeepsTee ==
  ASSUME TeeInvariant, NEW j \in Job,
         \/ \E s \in Stream : PrintLine(j, s)
         \/ \E code \in {0, 1} : Exit(j, code)
         \/ PipesClose(j)
  PROVE  TeeInvariant'
<1> USE DEF TeeInvariant
<1>1. /\ proc \in [Job -> {"none", "running", "exited", "silent"}]
      /\ printed \in [Job -> [Stream -> 0..MaxLines]]
      /\ buf \in [Job -> [Stream -> 0..MaxLines]]
      /\ MaxLines \in Nat
  BY BuildAssumption DEF TeeTypeOK, BuildAssumption
<1>2. CASE \E s \in Stream : PrintLine(j, s)
  <2>1. PICK s \in Stream : PrintLine(j, s)
    BY <1>2
  <2>2. printed[j][s] + 1 \in 0..MaxLines
    BY <1>1, <2>1 DEF PrintLine
  <2>3. /\ printed' = [printed EXCEPT ![j] = [printed[j] EXCEPT ![s] = @ + 1]]
        /\ UNCHANGED <<proc, returncode, buf, reading, broken, log_file>>
    BY <2>1 DEF PrintLine, readerVars
  <2>4. printed' \in [Job -> [Stream -> 0..MaxLines]]
    BY <1>1, <2>2, <2>3
  <2>5. \A i \in Job, r \in Stream :
          /\ printed'[i][r] >= printed[i][r]
          /\ proc[i] = "silent" => printed'[i][r] = printed[i][r]
    BY <1>1, <2>1, <2>3 DEF PrintLine
  <2>6. \A i \in Job : PipesFollow(i)'
    <3> SUFFICES ASSUME NEW i \in Job, NEW r \in Stream
                 PROVE  /\ buf[i][r] <= printed'[i][r]
                        /\ proc[i] # "none" /\ r \notin reading[i] \cup broken[i]
                             => proc[i] = "silent" /\ buf[i][r] = printed'[i][r]
      BY <2>3 DEF PipesFollow
    <3>1. /\ buf[i][r] <= printed[i][r]
          /\ proc[i] # "none" /\ r \notin reading[i] \cup broken[i]
               => proc[i] = "silent" /\ buf[i][r] = printed[i][r]
      BY DEF PipesFollow
    <3>2. /\ printed'[i][r] >= printed[i][r]
          /\ proc[i] = "silent" => printed'[i][r] = printed[i][r]
      BY <2>5
    <3>3. printed[i][r] \in Nat /\ printed'[i][r] \in Nat /\ buf[i][r] \in Nat
      BY <1>1, <2>4
    <3> QED
      BY <3>1, <3>2, <3>3
  <2> QED
    BY <2>3, <2>4, <2>6 DEF TeeTypeOK
<1>3. CASE \E code \in {0, 1} : Exit(j, code)
  <2>1. /\ proc[j] = "running" /\ proc' = [proc EXCEPT ![j] = "exited"]
        /\ returncode' \in [Job -> {0, 1, NotYet}]
        /\ UNCHANGED <<printed, buf, reading, broken, log_file>>
    BY <1>3 DEF Exit, readerVars, TeeTypeOK
  <2>2. \A i \in Job : PipesFollow(i)'
    BY <1>1, <2>1 DEF PipesFollow
  <2>3. TeeTypeOK'
    BY <2>1 DEF TeeTypeOK
  <2> QED
    BY <2>1, <2>2, <2>3
<1>4. CASE PipesClose(j)
  <2>1. /\ proc[j] = "exited" /\ proc' = [proc EXCEPT ![j] = "silent"]
        /\ UNCHANGED <<returncode, printed, buf, reading, broken, log_file>>
    BY <1>4 DEF PipesClose, readerVars
  <2>2. \A i \in Job : PipesFollow(i)'
    BY <1>1, <2>1 DEF PipesFollow
  <2>3. TeeTypeOK'
    BY <2>1 DEF TeeTypeOK
  <2> QED
    BY <2>1, <2>2, <2>3
<1> QED
  BY <1>2, <1>3, <1>4

\* The two threads of a process.
LEMMA ReaderKeepsTee ==
  ASSUME TeeInvariant, NEW j \in Job, _reader(j)
  PROVE  TeeInvariant'
<1> USE DEF TeeInvariant
<1>1. PICK s \in Stream : CopyLine(j, s) \/ EndOfPipe(j, s) \/ ReaderFails(j, s)
  BY DEF _reader
<1>2. /\ buf \in [Job -> [Stream -> 0..MaxLines]]
      /\ printed \in [Job -> [Stream -> 0..MaxLines]]
      /\ reading \in [Job -> SUBSET Stream] /\ broken \in [Job -> SUBSET Stream]
      /\ log_file \in [Job -> Seq(Line)]
      /\ MaxLines \in Nat
  BY BuildAssumption DEF TeeTypeOK, Line, BuildAssumption
<1>3. CASE CopyLine(j, s)
  <2>1. /\ s \in reading[j] /\ buf[j][s] < printed[j][s]
        /\ UNCHANGED <<proc, returncode, printed, reading, broken>>
    BY <1>3 DEF CopyLine, procVars
  <2>2. buf' = [buf EXCEPT ![j] = [buf[j] EXCEPT ![s] = @ + 1]]
    BY <1>2, <1>3 DEF CopyLine
  <2>3. buf[j] \in [Stream -> 0..MaxLines] /\ buf[j][s] + 1 \in 1..MaxLines
        /\ log_file[j] \in Seq(Line)
    BY <1>2, <2>1
  <2>4. buf'[j] = [buf[j] EXCEPT ![s] = @ + 1] /\ buf'[j][s] = buf[j][s] + 1
        /\ \A i \in Job : i # j => buf'[i] = buf[i]
    BY <1>2, <2>2, <2>3
  <2>5. log_file' = [log_file EXCEPT ![j] = Append(log_file[j], <<s, buf[j][s] + 1>>)]
    BY <1>3, <2>4 DEF CopyLine
  <2>6. /\ Append(log_file[j], <<s, buf[j][s] + 1>>) \in Seq(Line)
        /\ Follows(Append(log_file[j], <<s, buf[j][s] + 1>>), [buf[j] EXCEPT ![s] = @ + 1])
    BY <2>3, CopyExtendsLog
  <2>7. log_file' \in [Job -> Seq(Line)] /\ buf' \in [Job -> [Stream -> 0..MaxLines]]
    BY <1>2, <2>2, <2>3, <2>5, <2>6
  <2>8. \A i \in Job : Follows(log_file[i], buf[i])'
    <3> TAKE i \in Job
    <3>1. CASE i = j
      BY <1>2, <2>4, <2>5, <2>6, <3>1
    <3>2. CASE i # j
      BY <1>2, <2>4, <2>5, <3>2
    <3> QED
      BY <3>1, <3>2
  <2>9. \A i \in Job : PipesFollow(i)'
    <3> SUFFICES ASSUME NEW i \in Job, NEW r \in Stream
                 PROVE  /\ buf'[i][r] <= printed[i][r]
                        /\ proc[i] # "none" /\ r \notin reading[i] \cup broken[i]
                             => proc[i] = "silent" /\ buf'[i][r] = printed[i][r]
      BY <2>1 DEF PipesFollow
    <3>1. /\ buf[i][r] <= printed[i][r]
          /\ proc[i] # "none" /\ r \notin reading[i] \cup broken[i]
               => proc[i] = "silent" /\ buf[i][r] = printed[i][r]
      BY DEF PipesFollow
    <3>2. CASE i = j /\ r = s
      BY <1>2, <2>1, <2>4, <3>2
    <3>3. CASE ~(i = j /\ r = s)
      <4>1. buf'[i][r] = buf[i][r]
        BY <1>2, <2>3, <2>4, <3>3
      <4> QED
        BY <3>1, <4>1
    <3> QED
      BY <3>2, <3>3
  <2> QED
    BY <2>1, <2>7, <2>8, <2>9 DEF TeeTypeOK, Line
<1>4. CASE EndOfPipe(j, s)
  <2>1. /\ s \in reading[j] /\ proc[j] = "silent" /\ buf[j][s] = printed[j][s]
        /\ reading' = [reading EXCEPT ![j] = @ \ {s}]
        /\ UNCHANGED <<proc, returncode, printed, buf, broken, log_file>>
    BY <1>4 DEF EndOfPipe, procVars
  <2>2. reading' \in [Job -> SUBSET Stream]
    BY <1>2, <2>1
  <2>3. \A i \in Job : PipesFollow(i)'
    BY <1>2, <2>1 DEF PipesFollow
  <2> QED
    BY <2>1, <2>2, <2>3 DEF TeeTypeOK
<1>5. CASE ReaderFails(j, s)
  <2>1. /\ s \in reading[j]
        /\ reading' = [reading EXCEPT ![j] = @ \ {s}]
        /\ broken' = [broken EXCEPT ![j] = @ \cup {s}]
        /\ UNCHANGED <<proc, returncode, printed, buf, log_file>>
    BY <1>5 DEF ReaderFails, procVars
  <2>2. reading' \in [Job -> SUBSET Stream] /\ broken' \in [Job -> SUBSET Stream]
    BY <1>2, <2>1
  <2>3. \A i \in Job : PipesFollow(i)'
    BY <1>2, <2>1 DEF PipesFollow
  <2> QED
    BY <2>1, <2>2, <2>3 DEF TeeTypeOK
<1> QED
  BY <1>1, <1>3, <1>4, <1>5

\* A process that is started, or dropped after the wait.
LEMMA CallsKeepTee ==
  ASSUME TeeInvariant, NEW j \in Job, start(j) \/ drop(j)
  PROVE  TeeInvariant'
<1> USE DEF TeeInvariant
<1>1. /\ printed' = [printed EXCEPT ![j] = Nothing] /\ buf' = [buf EXCEPT ![j] = Nothing]
      /\ log_file' = [log_file EXCEPT ![j] = << >>]
      /\ broken' = [broken EXCEPT ![j] = {}]
      /\ \/ proc' = [proc EXCEPT ![j] = "none"] /\ UNCHANGED reading
         \/ /\ proc' = [proc EXCEPT ![j] = "running"]
            /\ reading' = [reading EXCEPT ![j] = Stream]
  BY DEF start, drop
<1>2. /\ buf \in [Job -> [Stream -> 0..MaxLines]]
      /\ printed \in [Job -> [Stream -> 0..MaxLines]]
      /\ proc \in [Job -> {"none", "running", "exited", "silent"}]
      /\ reading \in [Job -> SUBSET Stream] /\ broken \in [Job -> SUBSET Stream]
      /\ log_file \in [Job -> Seq(Line)]
  BY DEF TeeTypeOK, Line
<1>3. Nothing \in [Stream -> 0..MaxLines] /\ \A s \in Stream : Nothing[s] = 0
  BY BuildAssumption DEF Nothing, BuildAssumption
<1>4. returncode' \in [Job -> {0, 1, NotYet}]
  BY DEF start, drop, TeeTypeOK
<1>5. /\ printed' \in [Job -> [Stream -> 0..MaxLines]]
      /\ buf' \in [Job -> [Stream -> 0..MaxLines]]
      /\ proc' \in [Job -> {"none", "running", "exited", "silent"}]
      /\ reading' \in [Job -> SUBSET Stream] /\ broken' \in [Job -> SUBSET Stream]
  BY <1>1, <1>2, <1>3, ZenonT(40)
<1>6. log_file' \in [Job -> Seq(Line)]
  BY <1>1, <1>2, EmptyLogFollows
<1>7. \A i \in Job : PipesFollow(i)'
  <2> SUFFICES ASSUME NEW i \in Job, NEW s \in Stream
               PROVE  /\ buf'[i][s] <= printed'[i][s]
                      /\ proc'[i] # "none" /\ s \notin reading'[i] \cup broken'[i]
                           => proc'[i] = "silent" /\ buf'[i][s] = printed'[i][s]
    BY DEF PipesFollow
  <2>1. CASE i = j
    BY <1>1, <1>2, <1>3, <2>1
  <2>2. CASE i # j
    BY <1>1, <1>2, <2>2 DEF PipesFollow
  <2> QED
    BY <2>1, <2>2
<1>8. \A i \in Job : Follows(log_file[i], buf[i])'
  <2> TAKE i \in Job
  <2>1. CASE i = j
    BY <1>1, <1>2, <2>1, EmptyLogFollows
  <2>2. CASE i # j
    BY <1>1, <1>2, <2>2
  <2> QED
    BY <2>1, <2>2
<1> QED
  BY <1>4, <1>5, <1>6, <1>7, <1>8 DEF TeeTypeOK, Line

\* wait: the log of a process that was waited for is whole.
LEMMA WaitedForIsWhole ==
  ASSUME TeeInvariant, NEW j \in Job, wait(j)
  PROVE  LogIsWhole(j)
<1>1. \A s \in Stream \ broken[j] : buf[j][s] = printed[j][s]
  BY DEF TeeInvariant, PipesFollow, wait
<1>2. Follows(log_file[j], buf[j])
  BY DEF TeeInvariant
<1>3. \A line \in Line : line[1] \in Stream
  BY DEF Line
<1> QED
  BY <1>1, <1>2, <1>3 DEF Follows, LogIsWhole, Line

-----------------------------------------------------------------------------
(* The plan.                                                               *)

\* The elements of a sequence are finitely many.
LEMMA ElementsAreFinite ==
  ASSUME NEW E, NEW s \in Seq(E)
  PROVE  ToSet(s) \subseteq E /\ IsFiniteSet(ToSet(s))
<1>1. s \in [1..Len(s) -> E] /\ Len(s) \in Nat
  OBVIOUS
<1>2. ToSet(s) \subseteq E
  BY <1>1 DEF ToSet
<1>3. s \in Surjection(1..Len(s), ToSet(s))
  BY <1>1 DEF Surjection, ToSet
<1>4. IsFiniteSet(1..Len(s))
  BY <1>1, FS_Interval
<1>5. IsFiniteSet(ToSet(s))
  BY <1>3, <1>4, FS_Surjection DEF ExistsSurjection
<1> QED
  BY <1>2, <1>5

LEMMA YamlIsTyped ==
  ASSUME NEW documents \in BuildYaml
  PROVE  /\ _load_yaml(documents).boards \subseteq Word
         /\ IsFiniteSet(_load_yaml(documents).boards)
         /\ _load_yaml(documents).shields \subseteq Word
         /\ IsFiniteSet(_load_yaml(documents).shields)
         /\ _load_yaml(documents).include \in Seq(Listed)
<1> DEFINE boards == [i \in DOMAIN documents |-> documents[i].board]
           shields == [i \in DOMAIN documents |-> documents[i].shield]
           includes == [i \in DOMAIN documents |-> documents[i].include]
           Document == [board : Seq(Word), shield : Seq(Word), include : Seq(Listed)]
<1>1. DOMAIN documents = 1..Len(documents) /\ Len(documents) \in Nat
      /\ \A i \in 1..Len(documents) : documents[i] \in Document
  <2>1. documents \in Seq(Document)
    BY DEF BuildYaml
  <2> HIDE DEF Document
  <2> QED
    BY <2>1
<1>2. boards \in Seq(Seq(Word)) /\ shields \in Seq(Seq(Word)) /\ includes \in Seq(Seq(Listed))
  <2>1. \A i \in 1..Len(documents) : /\ documents[i].board \in Seq(Word)
                                     /\ documents[i].shield \in Seq(Word)
                                     /\ documents[i].include \in Seq(Listed)
    BY <1>1
  <2> QED
    BY <1>1, <2>1
<1> HIDE DEF boards, shields, includes
<1>3. FlattenSeq(boards) \in Seq(Word) /\ FlattenSeq(shields) \in Seq(Word)
      /\ FlattenSeq(includes) \in Seq(Listed)
  BY <1>2, FlattenIsSeq
<1>4. /\ ToSet(FlattenSeq(boards)) \subseteq Word /\ IsFiniteSet(ToSet(FlattenSeq(boards)))
      /\ ToSet(FlattenSeq(shields)) \subseteq Word /\ IsFiniteSet(ToSet(FlattenSeq(shields)))
  BY <1>3, ElementsAreFinite
<1>5. /\ _load_yaml(documents).boards = ToSet(FlattenSeq(boards))
      /\ _load_yaml(documents).shields = ToSet(FlattenSeq(shields))
      /\ _load_yaml(documents).include = FlattenSeq(includes)
  BY DEF _load_yaml, boards, shields, includes
<1> QED
  BY <1>3, <1>4, <1>5

\* The one that exists of the four places, or nothing.
LEMMA YamlIsFound ==
  ASSUME NEW places \in Seq(BuildYaml)
  PROVE  _find_build_yaml(places) \in BuildYaml
<1> DEFINE There == {i \in 1..Len(places) : places[i] # << >>}
           found == IF There # {} THEN Min(There) ELSE 0
<1>1. _find_build_yaml(places) = IF found = 0 THEN << >> ELSE places[found]
  BY DEF _find_build_yaml, SelectInSeq
<1>2. CASE There = {}
  BY <1>1, <1>2 DEF BuildYaml
<1>3. CASE There # {}
  <2>1. PICK m \in There : \A y \in There : m <= y
    <3>1. There \in SUBSET Nat
      OBVIOUS
    <3> QED
      BY <1>3, <3>1, LeastElement
  <2>2. Min(There) \in There
    BY <2>1 DEF Min
  <2>3. places[Min(There)] \in BuildYaml
    BY <2>2
  <2> HIDE DEF There
  <2>4. found = Min(There)
    BY <1>3
  <2> QED
    BY <1>1, <2>3, <2>4 DEF BuildYaml
<1> QED
  BY <1>2, <1>3

LEMMA IterationIsSeq ==
  ASSUME NEW S, IsFiniteSet(S), NEW s \in Iterations(S)
  PROVE  s \in Seq(S)
<1>1. Cardinality(S) \in Nat
  BY FS_CardinalityType
<1>2. s \in [1..Cardinality(S) -> S]
  BY DEF Iterations, SetToSeqs
<1> QED
  BY <1>1, <1>2

\* The targets listed and filtered are targets, with or without a name.
LEMMA ListedAreTargets ==
  ASSUME NEW s \in Scenario, NEW listed \in Matrices(YamlOf(s), s.args)
  PROVE  Filtered(s.args, listed) \in Seq(Listed)
<1> DEFINE yaml == YamlOf(s)
           Bs == IF s.args.board # {} THEN s.args.board ELSE yaml.boards
           Ss == IF s.args.shield # {} THEN s.args.shield ELSE yaml.shields
           row(b, ss) == [i \in DOMAIN ss |-> [board |-> b, shield |-> ss[i], artifact |-> NoWord]]
           rows(bs, ss) == [i \in DOMAIN bs |-> row(bs[i], ss)]
           Kept(i) == IF filter_out_matrix_by_args(s.args, listed[i]) THEN <<listed[i]>> ELSE << >>
<1>1. /\ yaml.boards \subseteq Word /\ IsFiniteSet(yaml.boards)
      /\ yaml.shields \subseteq Word /\ IsFiniteSet(yaml.shields)
      /\ yaml.include \in Seq(Listed)
  <2>1. s.build_yaml \in BuildYaml \cup {NoWord} /\ s.places \in Seq(BuildYaml)
    BY BuildAssumption DEF BuildAssumption
  <2>2. (IF s.build_yaml # NoWord THEN s.build_yaml ELSE _find_build_yaml(s.places)) \in BuildYaml
    BY <2>1, YamlIsFound
  <2> QED
    BY <2>2, YamlIsTyped DEF YamlOf
<1>2. /\ s.args.board \subseteq Word /\ IsFiniteSet(s.args.board)
      /\ s.args.shield \subseteq Word /\ IsFiniteSet(s.args.shield)
  BY BuildAssumption DEF BuildAssumption
<1>3. Bs \subseteq Word /\ IsFiniteSet(Bs) /\ Ss \subseteq Word /\ IsFiniteSet(Ss)
  BY <1>1, <1>2
<1>4. PICK bs \in Iterations(Bs), ss \in Iterations(Ss) :
        listed = yaml.include \o FlattenSeq(rows(bs, ss))
  <2>1. Matrices(yaml, s.args) = {yaml.include \o FlattenSeq(rows(bs, ss)) :
                                    bs \in Iterations(Bs), ss \in Iterations(Ss)}
    BY DEF Matrices
  <2>2. listed \in Matrices(yaml, s.args)
    OBVIOUS
  <2> HIDE DEF yaml, Bs, Ss, rows
  <2> QED
    BY <2>1, <2>2
<1> HIDE DEF yaml, Bs, Ss
<1>5. bs \in Seq(Word) /\ ss \in Seq(Word)
  <2>1. bs \in Seq(Bs) /\ ss \in Seq(Ss)
    BY <1>3, IterationIsSeq
  <2> QED
    BY <1>3, <2>1
<1>6. rows(bs, ss) \in Seq(Seq(Listed))
  <2>1. ASSUME NEW b \in Word PROVE row(b, ss) \in Seq(Listed)
    <3>1. \A i \in 1..Len(ss) :
            [board |-> b, shield |-> ss[i], artifact |-> NoWord] \in Listed
      BY <1>5 DEF Listed
    <3> QED
      BY <1>5, <3>1
  <2> HIDE DEF row
  <2>2. \A i \in 1..Len(bs) : row(bs[i], ss) \in Seq(Listed)
    BY <1>5, <2>1
  <2> QED
    BY <1>5, <2>2
<1> HIDE DEF rows
<1>7. listed \in Seq(Listed)
  <2>1. FlattenSeq(rows(bs, ss)) \in Seq(Listed)
    BY <1>6, FlattenIsSeq
  <2> QED
    BY <1>1, <1>4, <2>1
<1>8. [i \in DOMAIN listed |-> Kept(i)] \in Seq(Seq(Listed))
  <2>1. \A i \in 1..Len(listed) : Kept(i) \in Seq(Listed)
    BY <1>7
  <2> HIDE DEF Kept
  <2> QED
    BY <1>7, <2>1
<1>9. FlattenSeq([i \in DOMAIN listed |-> Kept(i)]) \in Seq(Listed)
  <2> HIDE DEF Kept
  <2> QED
    BY <1>8, FlattenIsSeq
<1> QED
  BY <1>9 DEF Filtered

\* A target given another name is a target.
LEMMA RenamedIsTarget ==
  ASSUME NEW t \in Listed, NEW n \in Name
  PROVE  [t EXCEPT !.artifact = n] \in Target
BY DEF Listed, Target

\* The names are Names: those of build.yaml, and those made of cleaned words.
LEMMA NamedIsTyped ==
  ASSUME NEW a, a.artifact \in Name \cup {NoWord}, NEW found \in Seq(Listed),
         \A i \in DOMAIN found : found[i].shield # NoWord \/ found[i].artifact # NoWord
  PROVE  Named(a, found) \in Seq(Target)
<1>1. ASSUME NEW i \in DOMAIN found, found[i].artifact = NoWord
      PROVE  DefaultName(a, found[i]) \in Name
  <2>1. found[i].board \in Word /\ found[i].shield \in Word
    <3>1. found[i] \in Listed
      OBVIOUS
    <3> QED
      BY <1>1, <3>1 DEF Listed
  <2>2. << >> \in Name /\ <<found[i].board, found[i].shield>> \in Name
    BY <2>1 DEF Name
  <2> DEFINE prefix == IF a.artifact = NoWord THEN << >> ELSE a.artifact
             pair == <<found[i].board, found[i].shield>>
             raw == prefix \o pair
  <2>3. prefix \in Name /\ pair \in Name
    BY <2>2
  <2> HIDE DEF prefix, pair
  <2>4. raw \in Seq(Word)
    BY <2>3 DEF Name
  <2>5. DefaultName(a, found[i]) = [k \in DOMAIN raw |-> Clean[raw[k]]]
    BY DEF DefaultName, prefix, pair
  <2> HIDE DEF raw
  <2>6. [k \in DOMAIN raw |-> Clean[raw[k]]] \in Seq(Word)
    BY <2>4, MatrixAssumption DEF MatrixAssumption
  <2> QED
    BY <2>5, <2>6 DEF Name
<1>2. ASSUME NEW i \in DOMAIN found
      PROVE  (IF found[i].artifact # NoWord THEN found[i]
              ELSE [found[i] EXCEPT !.artifact = DefaultName(a, found[i])]) \in Target
  <2>1. found[i] \in Listed
    OBVIOUS
  <2>2. CASE found[i].artifact # NoWord
    BY <2>1, <2>2 DEF Listed, Target
  <2>3. CASE found[i].artifact = NoWord
    BY <1>1, <2>1, <2>3, RenamedIsTarget
  <2> QED
    BY <2>2, <2>3
<1>3. DOMAIN found = 1..Len(found) /\ Len(found) \in Nat
  OBVIOUS
<1> QED
  BY <1>2, <1>3 DEF Named

\* As many names as targets: no two are the same.
LEMMA DifferingNamesAreDistinct ==
  ASSUME NEW m \in Seq(Target), NamesDiffer(m)
  PROVE  \A i, k \in DOMAIN m : i # k => m[i].artifact # m[k].artifact
<1> DEFINE S == 1..Len(m)
           T == {m[i].artifact : i \in DOMAIN m}
           f == [i \in S |-> m[i].artifact]
<1>1. DOMAIN m = S /\ Len(m) \in Nat
  OBVIOUS
<1>2. f \in Surjection(S, T)
  BY <1>1 DEF Surjection
<1>3. IsFiniteSet(S) /\ Cardinality(S) = Len(m)
  <2>1. IsFiniteSet(1..Len(m)) /\ Cardinality(1..Len(m)) = IF 1 > Len(m) THEN 0 ELSE Len(m) - 1 + 1
    BY <1>1, FS_Interval
  <2> QED
    BY <1>1, <2>1
<1>4. Cardinality(T) = Cardinality(S)
  BY <1>3 DEF NamesDiffer
<1> HIDE DEF f, T
<1>5. f \in Injection(S, T)
  BY <1>2, <1>3, <1>4, FS_SurjSameCardinalityImpliesInj
<1>6. \A i, k \in S : f[i] = f[k] => i = k
  BY <1>5 DEF Injection, IsInjective
<1> QED
  BY <1>1, <1>6 DEF f

\* The same suffix leaves different names different.
LEMMA SuffixKeepsDistinct ==
  ASSUME NEW n \in Name, NEW o \in Name, NEW x \in Name, n # o
  PROVE  n \o x \in Name /\ n \o x # o \o x
<1>1. /\ n \in Seq(Word) /\ o \in Seq(Word) /\ x \in Seq(Word)
      /\ Len(n) \in Nat /\ Len(o) \in Nat /\ Len(x) \in Nat
  BY DEF Name
<1>2. /\ n \o x \in Seq(Word) /\ Len(n \o x) = Len(n) + Len(x)
      /\ \A i \in 1..(Len(n) + Len(x)) :
           (n \o x)[i] = IF i <= Len(n) THEN n[i] ELSE x[i - Len(n)]
  BY <1>1, ConcatProperties
<1>3. /\ Len(o \o x) = Len(o) + Len(x)
      /\ \A i \in 1..(Len(o) + Len(x)) :
           (o \o x)[i] = IF i <= Len(o) THEN o[i] ELSE x[i - Len(o)]
  BY <1>1, ConcatProperties
<1>4. CASE n \o x = o \o x
  <2>1. Len(n) = Len(o)
    BY <1>1, <1>2, <1>3, <1>4
  <2>2. ASSUME NEW i \in 1..Len(n) PROVE n[i] = o[i]
    BY <1>1, <1>2, <1>3, <1>4, <2>1
  <2>3. n = o
    BY <1>1, <2>1, <2>2, SeqEqual
  <2> QED
    BY <2>3
<1> QED
  BY <1>2, <1>4 DEF Name

\* What is selected, in its order and with its suffix.
LEMMA SelectionIsPlan ==
  ASSUME NEW a, a.suffix \in Name, NEW named \in Seq(Target), NamesDiffer(named),
         NEW n \in Nat, NEW chosen \in [1..n -> DOMAIN named],
         \A i, k \in 1..n : i < k => chosen[i] < chosen[k]
  PROVE  LET selected == [i \in DOMAIN chosen |-> named[chosen[i]]]
         IN /\ Suffixed(a, selected) \in Seq(Target)
            /\ \A i, k \in DOMAIN Suffixed(a, selected) :
                 i # k => Suffixed(a, selected)[i].artifact # Suffixed(a, selected)[k].artifact
<1> DEFINE selected == [i \in DOMAIN chosen |-> named[chosen[i]]]
           plan == Suffixed(a, selected)
<1>1. /\ DOMAIN chosen = 1..n /\ DOMAIN selected = 1..n /\ DOMAIN plan = 1..n
      /\ \A i \in 1..n : plan[i] = [named[chosen[i]] EXCEPT !.artifact = @ \o a.suffix]
  BY DEF Suffixed
<1>2. \A i \in 1..n : chosen[i] \in DOMAIN named /\ chosen[i] \in Nat /\ named[chosen[i]] \in Target
  OBVIOUS
<1>3. ASSUME NEW i \in 1..n
      PROVE  /\ named[chosen[i]].artifact \in Name
             /\ plan[i] \in Target /\ plan[i].artifact = named[chosen[i]].artifact \o a.suffix
  <2>1. named[chosen[i]] \in Target
    BY <1>2
  <2>2. named[chosen[i]].artifact \in Name
    BY <2>1 DEF Target
  <2>3. named[chosen[i]].artifact \o a.suffix \in Name
    BY <2>2 DEF Name
  <2> HIDE DEF plan
  <2>4. plan[i] = [named[chosen[i]] EXCEPT !.artifact = named[chosen[i]].artifact \o a.suffix]
    BY <1>1
  <2> QED
    BY <2>1, <2>2, <2>3, <2>4 DEF Target
<1>4. plan \in Seq(Target)
  <2>1. plan = [i \in 1..n |-> plan[i]]
    BY <1>1 DEF Suffixed
  <2> HIDE DEF plan
  <2>2. \A i \in 1..n : plan[i] \in Target
    BY <1>3
  <2>3. [i \in 1..n |-> plan[i]] \in Seq(Target)
    BY <2>2
  <2> QED
    BY <2>1, <2>3
<1>5. ASSUME NEW i \in 1..n, NEW k \in 1..n, i # k
      PROVE  plan[i].artifact # plan[k].artifact
  <2>1. chosen[i] # chosen[k]
    <3>1. i < k \/ k < i
      BY <1>5
    <3> QED
      BY <1>2, <3>1
  <2>2. named[chosen[i]].artifact # named[chosen[k]].artifact
    BY <1>2, <2>1, DifferingNamesAreDistinct
  <2> HIDE DEF plan
  <2>3. named[chosen[i]].artifact \in Name /\ named[chosen[k]].artifact \in Name
    BY <1>3
  <2>4. named[chosen[i]].artifact \o a.suffix # named[chosen[k]].artifact \o a.suffix
    BY <2>2, <2>3, SuffixKeepsDistinct
  <2> QED
    BY <1>3, <2>4
<1> QED
  BY <1>1, <1>4, <1>5

\* Every selection is in the order offered, and so is the whole list.
LEMMA SelectionsAreIncreasing ==
  ASSUME NEW named \in Seq(Target), NEW chosen \in Selections(named)
  PROVE  \E n \in Nat : /\ chosen \in [1..n -> DOMAIN named]
                        /\ \A i, k \in 1..n : i < k => chosen[i] < chosen[k]
<1>1. CASE args.interactive
  BY <1>1 DEF Selections
<1>2. CASE ~args.interactive
  <2>1. chosen = [i \in DOMAIN named |-> i]
    BY <1>2 DEF Selections
  <2>2. DOMAIN named = 1..Len(named) /\ Len(named) \in Nat
    OBVIOUS
  <2> QED
    BY <2>1, <2>2
<1> QED
  BY <1>1, <1>2

\* Of entries with a target's name the last survives an update.
LEMMA LastEntrySurvives ==
  ASSUME NEW file, DOMAIN file \subseteq Nat, NEW targets \in Seq(Target),
         NEW j \in DOMAIN targets, NEW k \in DOMAIN file,
         file[k].name = targets[j].artifact,
         \A l \in DOMAIN file : file[l].name = targets[j].artifact => l <= k
  PROVE  file[k] \in ToSet(UpdatedEntries(file, targets, << >>))
<1> DEFINE name(i) == targets[i].artifact
           Latest(i, l) == /\ file[l].name = name(i)
                         /\ \A h \in DOMAIN file : file[h].name = name(i) => h <= l
<1>1. HasEntry(file, name(j))
  BY DEF HasEntry
<1>2. EntryFor(file, name(j)) = file[k]
  <2> DEFINE last == CHOOSE l \in DOMAIN file : Latest(j, l)
  <2>1. last \in DOMAIN file /\ Latest(j, last)
    BY DEF EntryFor
  <2>2. last <= k /\ k <= last
    BY <2>1
  <2>3. last \in Nat /\ k \in Nat
    BY <2>1
  <2> HIDE DEF last
  <2>4. last = k
    BY <2>2, <2>3
  <2> QED
    BY <2>4 DEF EntryFor, last
<1>3. CASE \A i \in DOMAIN targets : HasEntry(file, name(i))
  BY <1>3 DEF UpdatedEntries, ToSet
<1>4. CASE ~(\A i \in DOMAIN targets : HasEntry(file, name(i)))
  <2> DEFINE updated == UpdatedEntries(file, targets, << >>)
  <2>1. j \in DOMAIN updated /\ updated[j] = EntryFor(file, name(j))
    BY <1>1, <1>4 DEF UpdatedEntries
  <2> HIDE DEF updated
  <2>2. updated[j] \in ToSet(updated)
    BY <2>1 DEF ToSet
  <2> QED
    BY <1>2, <2>1, <2>2 DEF updated
<1> QED
  BY <1>3, <1>4

\* And so does that of any name the rewritten file has an entry for.
LEMMA RewrittenEntrySurvives ==
  ASSUME NEW file \in Seq(FileEntry), NEW targets \in Seq(Target),
         NEW k \in DOMAIN file,
         \A l \in DOMAIN file : file[l].name = file[k].name => l <= k,
         NEW h \in DOMAIN UpdatedEntries(file, targets, << >>),
         UpdatedEntries(file, targets, << >>)[h].name = file[k].name
  PROVE  file[k] \in ToSet(UpdatedEntries(file, targets, << >>))
<1> DEFINE name(i) == targets[i].artifact
           updated == UpdatedEntries(file, targets, << >>)
<1>1. CASE \A i \in DOMAIN targets : HasEntry(file, name(i))
  BY <1>1 DEF UpdatedEntries, ToSet
<1>2. CASE ~(\A i \in DOMAIN targets : HasEntry(file, name(i)))
  <2>1. /\ h \in DOMAIN targets
        /\ updated[h] = IF HasEntry(file, name(h)) THEN EntryFor(file, name(h))
                        ELSE [name |-> << >> \o name(h), by |-> "west"]
    BY <1>2 DEF UpdatedEntries
  <2>2. name(h) \in Seq(Word)
    <3>1. targets[h] \in Target
      BY <2>1
    <3> QED
      BY <3>1 DEF Target, Name
  <2>3. << >> \o name(h) = name(h)
    <3> HIDE DEF name
    <3> QED
      BY <2>2
  <2>4. updated[h].name = file[k].name
    OBVIOUS
  <2> HIDE DEF updated, name
  <2>5. HasEntry(file, name(h))
    <3> SUFFICES ASSUME ~HasEntry(file, name(h)) PROVE FALSE
      OBVIOUS
    <3>1. file[k].name = name(h)
      BY <2>1, <2>3, <2>4
    <3> QED
      BY <3>1 DEF HasEntry
  <2>6. file[k].name = name(h)
    <3>1. \E l \in DOMAIN file : /\ file[l].name = name(h)
                                 /\ \A i \in DOMAIN file : file[i].name = name(h) => i <= l
      <4>1. PICK l \in DOMAIN file : file[l].name = name(h)
        BY <2>5 DEF HasEntry
      <4> DEFINE same == {i \in 1..Len(file) : file[i].name = name(h)}
      <4>2. same \in SUBSET (1..Len(file)) /\ same # {} /\ Len(file) \in Nat
        BY <4>1
      <4>3. Max(same) \in same /\ \A i \in same : Max(same) >= i
        <5> HIDE DEF same
        <5> QED
          BY <4>2, MaxOfPart
      <4> DEFINE m == Max(same)
      <4>4. m \in DOMAIN file /\ file[m].name = name(h)
        <5> HIDE DEF m
        <5> QED
          BY <4>3 DEF m
      <4>5. ASSUME NEW i \in DOMAIN file, file[i].name = name(h) PROVE i <= m
        <5>1. i \in same
          BY <4>5
        <5>2. m \in Nat /\ i \in Nat
          BY <4>4
        <5>3. m >= i
          BY <4>3, <5>1
        <5> HIDE DEF m
        <5> QED
          BY <5>2, <5>3
      <4> HIDE DEF m
      <4> QED
        BY <4>4, <4>5
    <3> QED
      BY <2>1, <2>4, <2>5, <3>1 DEF EntryFor
  <2> QED
    <3>1. DOMAIN file \subseteq Nat
      OBVIOUS
    <3> QED
      BY <2>1, <2>6, <3>1, LastEntrySurvives DEF name
<1> QED
  BY <1>1, <1>2

\* The plan: the program ends, or distinct targets are submitted and the editor's
\* file, if it is touched, updated for them.
Planned(targets) ==
  /\ targets \in Seq(Target)
  /\ \A i, k \in DOMAIN targets : i # k => targets[i].artifact # targets[k].artifact
  /\ Submit(targets)
  /\ \/ UNCHANGED settings
     \/ settings.cpp # Unreadable /\ settings'.cpp = UpdatedEntries(settings.cpp, targets, << >>)

\* The program ends, the editor's files rewritten or not.
Ended ==
  /\ main' = "exited" /\ UNCHANGED <<matrix, stage, firmware>>
  /\ \/ UNCHANGED settings
     \/ /\ settings.cpp # Unreadable
        /\ \E targets \in Seq(Target) :
             settings'.cpp = UpdatedEntries(settings.cpp, targets, << >>)

LEMMA PlanFacts ==
  ASSUME scenario \in Scenario, do_run
  PROVE  \/ Ended
         \/ \E targets : Planned(targets)
<1>1. CASE ~scenario.zmk
  BY <1>1 DEF do_run, Exits, Ended
<1>2. CASE scenario.zmk
  <2>1. PICK listed \in Matrices(YamlOf(scenario), args) :
          LET found == Filtered(args, listed)
              named == Named(args, found)
          IN \/ Ended
             \/ /\ Nameable(args, found) /\ NamesDiffer(named)
                /\ \E chosen \in Selections(named) :
                     LET selected == [i \in DOMAIN chosen |-> named[chosen[i]]]
                     IN \/ Ended
                        \/ Build(Suffixed(args, selected))
    BY <1>2 DEF do_run, _run_for_all, Exits, Ended
  <2> DEFINE found == Filtered(args, listed)
             named == Named(args, found)
  <2>2. found \in Seq(Listed)
    BY <2>1, ListedAreTargets DEF args
  <2>3. args.suffix \in Name /\ args.artifact \in Name \cup {NoWord}
    BY BuildAssumption DEF BuildAssumption, args
  <2>4. SUFFICES ASSUME Nameable(args, found), NamesDiffer(named),
                        NEW chosen \in Selections(named),
                        Build(Suffixed(args, [i \in DOMAIN chosen |-> named[chosen[i]]]))
                 PROVE  \/ Ended
                        \/ \E targets : Planned(targets)
    BY <2>1
  <2> DEFINE targets == Suffixed(args, [i \in DOMAIN chosen |-> named[chosen[i]]])
  <2>5. named \in Seq(Target)
    <3> HIDE DEF found
    <3>1. \A i \in DOMAIN found : found[i].shield # NoWord \/ found[i].artifact # NoWord
      BY <2>4 DEF Nameable
    <3> QED
      BY <2>2, <2>3, <3>1, NamedIsTyped
  <2>6. /\ targets \in Seq(Target)
        /\ \A i, k \in DOMAIN targets : i # k => targets[i].artifact # targets[k].artifact
    <3> HIDE DEF named
    <3>1. PICK n \in Nat : /\ chosen \in [1..n -> DOMAIN named]
                           /\ \A i, k \in 1..n : i < k => chosen[i] < chosen[k]
      BY <2>4, <2>5, SelectionsAreIncreasing
    <3> QED
      BY <2>3, <2>4, <2>5, <3>1, SelectionIsPlan, ZenonT(40)
  <2> HIDE DEF targets, named
  <2>7. CASE args.vscode
    <3>1. /\ _generate_vscode_settings(targets)
          /\ \/ main' = "exited" /\ UNCHANGED <<matrix, stage, firmware>>
             \/ Submit(targets)
      BY <2>4, <2>7 DEF Build, Exits, targets
    <3>2. \/ UNCHANGED settings
          \/ settings.cpp # Unreadable
             /\ settings'.cpp = UpdatedEntries(settings.cpp, targets, << >>)
      <4> DEFINE cpp == UpdatedEntries(settings.cpp, targets, << >>)
                 launch == UpdatedEntries(settings.launch, targets, <<"Debug ZMK">>)
      <4>1. GenerateSettings(cpp, launch)
        BY <3>1 DEF _generate_vscode_settings
      <4> HIDE DEF cpp, launch
      <4>2. UNCHANGED settings \/ (settings.cpp # Unreadable /\ settings'.cpp = cpp)
        BY <4>1 DEF GenerateSettings
      <4> QED
        BY <4>2 DEF cpp
    <3> QED
      BY <2>6, <3>1, <3>2 DEF Planned, Ended
  <2>8. CASE ~args.vscode
    BY <2>4, <2>6, <2>8 DEF Build, Planned, targets
  <2> QED
    BY <2>7, <2>8
<1> QED
  BY <1>1, <1>2

-----------------------------------------------------------------------------
(* The directories: the inductive invariant.                               *)

\* What was planned, and what it left of the user's files.
PlanInvariant ==
  /\ scenario \in Scenario
  /\ matrix \in Seq(Target) /\ OwnBuildDir /\ EntriesSurvive
  /\ main = "plan" => matrix = << >> /\ settings = scenario.files

FirmwareOfTheRun(j) ==
  firmware[NameOf(j)] \in IF args.pristine THEN {"new"} ELSE {"old", "new"}

\* A job's directory tells what the job has done so far.
JobHistory(j) ==
  /\ stage[j] = "building" /\ args.pristine => firmware[NameOf(j)] # "old"
  /\ stage[j] = "flashing" \/ outcome[j] = "success" => FirmwareOfTheRun(j)
  /\ stage[j] = "flashing" \/ outcome[j] \in {"success", "failure"} => saved[j]
  /\ outcome[j] = "success" => returncode[j] = 0

Files == {"none", "old", "new"}
Names == {NameOf(j) : j \in Targets}

DirInvariant ==
  /\ saved \in [Job -> BOOLEAN] /\ firmware \in [Names -> Files]
  /\ \A j \in Job : stage[j] \in Busy <=> proc[j] # "none"
  /\ ~args.skip_build => \A j \in Targets : JobHistory(j)

RunInvariant ==
  /\ CollectInvariant /\ TeeInvariant /\ PlanInvariant /\ DirInvariant
  /\ early \in 0..Len(finished)

\* What the proofs of the steps use of it.
LEMMA RunFacts ==
  ASSUME RunInvariant
  PROVE  /\ stage \in [Job -> Stages] /\ outcome \in [Job -> Outcomes]
         /\ saved \in [Job -> BOOLEAN] /\ firmware \in [Names -> Files]
         /\ proc \in [Job -> {"none", "running", "exited", "silent"}]
         /\ returncode \in [Job -> {0, 1, NotYet}]
         /\ Targets \subseteq Job
         /\ \A j \in Job : stage[j] # "idle" => j \in Targets
         /\ \A j \in Job : stage[j] # "over" <=> outcome[j] = "none"
         /\ \A j \in Targets : NameOf(j) \in Names
         /\ \A i, j \in Targets : i # j => NameOf(i) # NameOf(j)
<1>1. /\ stage \in [Job -> Stages] /\ outcome \in [Job -> Outcomes]
      /\ saved \in [Job -> BOOLEAN] /\ firmware \in [Names -> Files]
      /\ Targets \subseteq Job
  BY DEF RunInvariant, CollectInvariant, CollectTypeOK, DirInvariant
<1>2. /\ proc \in [Job -> {"none", "running", "exited", "silent"}]
      /\ returncode \in [Job -> {0, 1, NotYet}]
  BY DEF RunInvariant, TeeInvariant, TeeTypeOK
<1>3. \A j \in Job : stage[j] # "idle" => j \in Targets
  BY DEF RunInvariant, CollectInvariant, JobsAreTargets
<1>4. \A j \in Job : stage[j] # "over" <=> outcome[j] = "none"
  BY DEF RunInvariant, CollectInvariant, OverIsAccounted
<1>5. \A i, j \in Targets : i # j => NameOf(i) # NameOf(j)
  BY DEF RunInvariant, PlanInvariant, OwnBuildDir
<1>6. \A j \in Targets : NameOf(j) \in Names
  BY DEF Names
<1> QED
  BY <1>1, <1>2, <1>3, <1>4, <1>5, <1>6

LEMMA RunInit == BuildInit => RunInvariant
<1> SUFFICES ASSUME BuildInit PROVE RunInvariant
  OBVIOUS
<1>1. CollectInvariant
  BY CollectInit
<1>2. TeeInvariant
  <2>1. TeeTypeOK
    <3>1. Nothing \in [Stream -> 0..MaxLines]
      BY BuildAssumption DEF Nothing, BuildAssumption
    <3> QED
      BY <3>1 DEF BuildInit, TeeInit, TeeTypeOK
  <2>2. ASSUME NEW j \in Job PROVE PipesFollow(j) /\ Follows(log_file[j], buf[j])
    <3>1. /\ proc[j] = "none" /\ buf[j] = Nothing /\ printed[j] = Nothing
          /\ log_file[j] = << >>
      BY DEF BuildInit, TeeInit
    <3>2. PipesFollow(j)
      BY <3>1 DEF PipesFollow, Nothing
    <3>3. Follows(log_file[j], buf[j])
      BY <3>1, EmptyLogFollows
    <3> QED
      BY <3>2, <3>3
  <2> QED
    BY <2>1, <2>2 DEF TeeInvariant
<1>3. matrix = << >> /\ Targets = {} /\ Names = {}
  BY DEF BuildInit, Targets, Names
<1>4. EntriesSurvive /\ OwnBuildDir
  <2>1. settings = scenario.files
    BY DEF BuildInit
  <2> QED
    BY <1>3, <2>1 DEF EntriesSurvive, OwnBuildDir, ToSet
<1>5. PlanInvariant
  BY <1>3, <1>4 DEF BuildInit, PlanInvariant
<1>6. DirInvariant
  <2>1. firmware \in [Names -> Files]
    BY <1>3 DEF BuildInit
  <2> QED
    BY <1>3, <2>1 DEF BuildInit, TeeInit, DirInvariant, Busy
<1>7. early \in 0..Len(finished)
  BY DEF BuildInit
<1> QED
  BY <1>1, <1>2, <1>5, <1>6, <1>7 DEF RunInvariant

\* The user's entries, in the file as it was or rewritten for the targets.
LEMMA EntriesKept ==
  ASSUME scenario \in Scenario, settings = scenario.files, UNCHANGED scenario,
         NEW targets \in Seq(Target),
         \A j \in Targets' : j \in DOMAIN targets /\ NameOf(j)' = targets[j].artifact,
         \/ UNCHANGED settings
         \/ /\ settings.cpp # Unreadable
            /\ settings'.cpp = UpdatedEntries(settings.cpp, targets, << >>)
  PROVE  EntriesSurvive'
<1> DEFINE file == scenario.files.cpp
           kept == settings'.cpp
<1> SUFFICES ASSUME file # Unreadable, NEW k \in DOMAIN file,
                    \A l \in DOMAIN file : file[l].name = file[k].name => l <= k,
                    \/ \E l \in DOMAIN kept : kept[l].name = file[k].name
                    \/ \E j \in Targets' : NameOf(j)' = file[k].name
             PROVE  file[k] \in ToSet(kept)
  BY DEF EntriesSurvive
<1>1. file \in Seq(FileEntry) /\ DOMAIN file \subseteq Nat
  <2>1. file \in Seq(FileEntry)
    BY BuildAssumption DEF BuildAssumption, Unreadable
  <2> HIDE DEF file
  <2> QED
    BY <2>1
<1>2. CASE UNCHANGED settings
  BY <1>2 DEF ToSet
<1>3. CASE kept = UpdatedEntries(file, targets, << >>)
  <2> HIDE DEF kept, file
  <2>1. CASE \E l \in DOMAIN kept : kept[l].name = file[k].name
    BY <1>1, <1>3, <2>1, RewrittenEntrySurvives
  <2>2. CASE \E j \in Targets' : NameOf(j)' = file[k].name
    <3>1. PICK j \in DOMAIN targets : file[k].name = targets[j].artifact
      BY <2>2
    <3> QED
      BY <1>1, <1>3, <3>1, LastEntrySurvives
  <2> QED
    BY <2>1, <2>2
<1> QED
  BY <1>2, <1>3

\* The plan gives each target a directory and keeps the user's entries.
LEMMA PlanKeepsRun ==
  ASSUME RunInvariant, do_run
  PROVE  PlanInvariant' /\ DirInvariant'
<1>1. /\ main = "plan" /\ UNCHANGED <<scenario, outcome, saved, finished, early, results, teeVars>>
      /\ UNCHANGED <<proc, returncode>>
  BY DEF do_run, teeVars, procVars
<1>2. /\ scenario \in Scenario /\ matrix = << >> /\ Targets = {} /\ settings = scenario.files
  BY <1>1 DEF RunInvariant, PlanInvariant, Targets
<1>3. CASE Ended
  <2>1. Targets' = {} /\ matrix' = << >> /\ main' = "exited" /\ UNCHANGED <<stage, firmware>>
    BY <1>2, <1>3 DEF Targets, Ended
  <2>2. EntriesSurvive'
    <3>1. << >> \in Seq(Target)
      OBVIOUS
    <3> QED
      BY <1>1, <1>2, <1>3, <2>1, <3>1, EntriesKept DEF Ended
  <2>4. PlanInvariant'
    BY <1>1, <1>2, <2>1, <2>2 DEF PlanInvariant, OwnBuildDir
  <2>3. DirInvariant'
    BY <1>1, <1>2, <2>1 DEF RunInvariant, DirInvariant, Names, NameOf, Targets
  <2> QED
    BY <2>4, <2>3
<1>4. ASSUME NEW targets, Planned(targets)
      PROVE  PlanInvariant' /\ DirInvariant'
  <2>1. /\ targets \in Seq(Target) /\ matrix' = targets /\ main' = "submitted"
        /\ \A i, k \in DOMAIN targets : i # k => targets[i].artifact # targets[k].artifact
        /\ DOMAIN targets \subseteq Job
        /\ stage' = [j \in Job |-> IF j \in DOMAIN targets THEN "queued" ELSE "idle"]
        /\ firmware' = [n \in {targets[i].artifact : i \in DOMAIN targets} |-> Leftover(n)]
    BY <1>4 DEF Planned, Submit
  <2>2. Targets' = DOMAIN targets /\ \A j \in DOMAIN targets : NameOf(j)' = targets[j].artifact
    BY <2>1 DEF Targets, NameOf
  <2>3. OwnBuildDir'
    BY <2>1, <2>2 DEF OwnBuildDir
  <2>4. EntriesSurvive'
    BY <1>1, <1>2, <1>4, <2>1, <2>2, EntriesKept DEF Planned
  <2>5. PlanInvariant'
    BY <1>1, <1>2, <2>1, <2>3, <2>4 DEF PlanInvariant
  <2>6. Names' = {targets[i].artifact : i \in DOMAIN targets}
    BY <2>2 DEF Names
  <2>7. firmware' \in [Names' -> Files]
    BY <2>1, <2>6 DEF Files, Leftover
  <2>8. \A j \in Job : stage[j] = "idle"
    BY <1>1 DEF RunInvariant, CollectInvariant, JobsAreTargets
  <2>9. \A j \in Job : outcome[j] = "none" /\ proc[j] = "none"
    BY <2>8, RunFacts DEF RunInvariant, DirInvariant, Busy
  <2>10. \A j \in Job : stage'[j] \in {"queued", "idle"}
    BY <2>1
  <2>11. \A j \in Job : JobHistory(j)'
    BY <1>1, <2>9, <2>10 DEF JobHistory
  <2>12. saved' \in [Job -> BOOLEAN] /\ \A j \in Job : stage'[j] \in Busy <=> proc'[j] # "none"
    BY <1>1, <2>9, <2>10 DEF RunInvariant, DirInvariant, Busy
  <2>13. DirInvariant'
    BY <2>1, <2>2, <2>7, <2>11, <2>12 DEF DirInvariant
  <2> QED
    BY <2>5, <2>13
<1> QED
  BY <1>2, <1>3, <1>4, PlanFacts

\* What does not touch the plan keeps it.
LEMMA UnplannedKeepsPlan ==
  ASSUME PlanInvariant, UNCHANGED <<scenario, matrix, settings>>, main' = "plan" => main = "plan"
  PROVE  PlanInvariant'
<1>1. OwnBuildDir' /\ EntriesSurvive'
  BY DEF PlanInvariant, OwnBuildDir, EntriesSurvive, Targets, NameOf
<1> QED
  BY <1>1 DEF PlanInvariant

\* A job works in its own directory: what the others' directories tell stays.
LEMMA OthersAreLeftAlone ==
  ASSUME RunInvariant, NEW j \in Job,
         UNCHANGED <<scenario, matrix>>,
         \A i \in Job \ {j} : /\ stage'[i] = stage[i] /\ outcome'[i] = outcome[i]
                              /\ saved'[i] = saved[i] /\ returncode'[i] = returncode[i]
                              /\ (proc'[i] # "none") = (proc[i] # "none"),
         \/ firmware' = firmware
         \/ \E file \in Files : firmware' = [firmware EXCEPT ![NameOf(j)] = file],
         saved' \in [Job -> BOOLEAN],
         stage[j] # "idle",
         stage'[j] \in Busy <=> proc'[j] # "none",
         ~args.skip_build => JobHistory(j)'
  PROVE  DirInvariant'
<1>1. /\ firmware \in [Names -> Files] /\ Targets \subseteq Job /\ j \in Targets
      /\ \A i \in Targets : NameOf(i) \in Names
      /\ \A i \in Targets : i # j => NameOf(i) # NameOf(j)
  BY RunFacts
<1>2. Targets' = Targets /\ Names' = Names /\ args' = args
      /\ \A i \in Job : NameOf(i)' = NameOf(i)
  BY DEF Targets, Names, args, NameOf
<1>3. firmware' \in [Names' -> Files]
  BY <1>1, <1>2
<1>4. \A i \in Targets \ {j} : firmware'[NameOf(i)] = firmware[NameOf(i)]
  BY <1>1
<1>5. ASSUME NEW i \in Job PROVE stage'[i] \in Busy <=> proc'[i] # "none"
  <2>1. CASE i = j
    BY <2>1
  <2>2. CASE i # j
    <3>1. stage[i] \in Busy <=> proc[i] # "none"
      BY DEF RunInvariant, DirInvariant
    <3> QED
      BY <2>2, <3>1
  <2> QED
    BY <2>1, <2>2
<1>6. ASSUME ~args.skip_build, NEW i \in Targets PROVE JobHistory(i)'
  <2>1. CASE i = j
    BY <1>6, <2>1
  <2>2. CASE i # j
    <3>1. JobHistory(i)
      BY <1>6 DEF RunInvariant, DirInvariant
    <3>2. /\ stage'[i] = stage[i] /\ outcome'[i] = outcome[i] /\ saved'[i] = saved[i]
          /\ returncode'[i] = returncode[i] /\ firmware'[NameOf(i)] = firmware[NameOf(i)]
          /\ args' = args /\ NameOf(i)' = NameOf(i)
      BY <1>1, <1>2, <1>4, <2>2
    <3> QED
      BY <3>1, <3>2 DEF JobHistory, FirmwareOfTheRun
  <2> QED
    BY <2>1, <2>2
<1> QED
  BY <1>2, <1>3, <1>5, <1>6 DEF DirInvariant

\* What starting a process and completing a job do to the job and to the others.
LEMMA StartFacts ==
  ASSUME RunInvariant, NEW j \in Job, start(j), NEW s \in Busy,
         stage' = [stage EXCEPT ![j] = s], UNCHANGED outcome
  PROVE  /\ stage'[j] = s /\ proc'[j] = "running" /\ returncode'[j] = NotYet
         /\ \A i \in Job \ {j} : /\ stage'[i] = stage[i] /\ outcome'[i] = outcome[i]
                                 /\ returncode'[i] = returncode[i] /\ proc'[i] = proc[i]
BY RunFacts DEF start

LEMMA CompleteFacts ==
  ASSUME RunInvariant, NEW j \in Job, NEW how, Completes(j, how)
  PROVE  /\ stage'[j] = "over" /\ proc'[j] = "none" /\ outcome'[j] = how
         /\ UNCHANGED returncode
         /\ \A i \in Job \ {j} : /\ stage'[i] = stage[i] /\ outcome'[i] = outcome[i]
                                 /\ returncode'[i] = returncode[i] /\ proc'[i] = proc[i]
BY RunFacts DEF Completes, drop

\* A job is asked on to the flash or to its end.
LEMMA FlashOrFacts ==
  ASSUME RunInvariant, NEW j \in Job, NEW how \in {"success", "failure", "exception"},
         FlashOr(j, how), outcome[j] = "none"
  PROVE  /\ \/ stage'[j] = "flashing" /\ proc'[j] = "running" /\ outcome'[j] = "none"
            \/ stage'[j] = "over" /\ proc'[j] = "none"
               /\ outcome'[j] \in {how, "exception"} /\ UNCHANGED returncode
         /\ \A i \in Job \ {j} : /\ stage'[i] = stage[i] /\ outcome'[i] = outcome[i]
                                 /\ returncode'[i] = returncode[i] /\ proc'[i] = proc[i]
<1>1. CASE Completes(j, how) \/ Completes(j, "exception")
  BY <1>1, CompleteFacts
<1>2. CASE stage' = [stage EXCEPT ![j] = "flashing"] /\ start(j) /\ UNCHANGED <<outcome, finished>>
  BY <1>2, StartFacts DEF Busy
<1> QED
  BY <1>1, <1>2 DEF FlashOr, StartFlash

LEMMA JobKeepsDir ==
  ASSUME RunInvariant, NEW j \in Job, JobStep(j)
  PROVE  DirInvariant'
<1>1. /\ stage[j] \in {"queued", "building", "flashing"} /\ UNCHANGED <<scenario, matrix>>
      /\ outcome[j] = "none" /\ j \in Targets /\ UNCHANGED mainVars
      /\ args' = args /\ NameOf(j)' = NameOf(j)
  BY JobStepFacts, RunFacts DEF mainVars, args, NameOf
<1>2. /\ saved \in [Job -> BOOLEAN] /\ firmware \in [Names -> Files]
      /\ NameOf(j) \in Names /\ firmware[NameOf(j)] \in Files
      /\ returncode \in [Job -> {0, 1, NotYet}]
  BY <1>1, RunFacts
<1>3. ~args.skip_build => JobHistory(j)
  BY <1>1 DEF RunInvariant, DirInvariant
<1>4. CASE SkipBuild(j)
  <2>1. args.skip_build /\ UNCHANGED <<firmware, saved>> /\ FlashOr(j, "success")
    BY <1>4 DEF SkipBuild
  <2>2. /\ stage'[j] \in Busy <=> proc'[j] # "none"
        /\ \A i \in Job \ {j} : /\ stage'[i] = stage[i] /\ outcome'[i] = outcome[i]
                                /\ returncode'[i] = returncode[i] /\ proc'[i] = proc[i]
    BY <1>1, <2>1, FlashOrFacts DEF Busy
  <2> QED
    BY <1>1, <1>2, <2>1, <2>2, OthersAreLeftAlone
<1>5. CASE StartBuild(j)
  <2>1. ~args.skip_build /\ UNCHANGED saved
    BY <1>5 DEF StartBuild
  <2>2. CASE Completes(j, "exception") /\ UNCHANGED firmware
    <3>1. /\ stage'[j] = "over" /\ proc'[j] = "none" /\ outcome'[j] = "exception"
          /\ \A i \in Job \ {j} : /\ stage'[i] = stage[i] /\ outcome'[i] = outcome[i]
                                  /\ returncode'[i] = returncode[i] /\ proc'[i] = proc[i]
      BY <2>2, CompleteFacts
    <3>2. JobHistory(j)'
      BY <3>1 DEF JobHistory
    <3> QED
      BY <1>1, <1>2, <2>1, <2>2, <3>1, <3>2, OthersAreLeftAlone DEF Busy
  <2>3. ASSUME stage' = [stage EXCEPT ![j] = "building"], start(j), UNCHANGED <<outcome, finished>>,
               NEW kept \in {"none"} \cup IF args.pristine THEN {} ELSE {firmware[NameOf(j)]},
               firmware' = [firmware EXCEPT ![NameOf(j)] = kept]
        PROVE  DirInvariant'
    <3>1. /\ stage'[j] = "building" /\ proc'[j] = "running" /\ outcome'[j] = "none"
          /\ \A i \in Job \ {j} : /\ stage'[i] = stage[i] /\ outcome'[i] = outcome[i]
                                  /\ returncode'[i] = returncode[i] /\ proc'[i] = proc[i]
      BY <1>1, <2>3, StartFacts DEF Busy
    <3>2. kept \in Files /\ (args.pristine => kept = "none")
      BY <1>2, <2>3 DEF Files
    <3>3. firmware'[NameOf(j)] = kept
      BY <1>2, <2>3
    <3>4. JobHistory(j)'
      BY <1>1, <3>1, <3>2, <3>3 DEF JobHistory
    <3>5. \E file \in Files : firmware' = [firmware EXCEPT ![NameOf(j)] = file]
      BY <2>3, <3>2
    <3>6. /\ stage'[j] \in Busy /\ proc'[j] # "none" /\ stage[j] # "idle"
          /\ saved' \in [Job -> BOOLEAN]
      BY <1>1, <1>2, <2>1, <3>1 DEF Busy
    <3> QED
      BY <1>1, <2>1, <3>1, <3>4, <3>5, <3>6, OthersAreLeftAlone
  <2> QED
    BY <1>5, <2>2, <2>3 DEF StartBuild
<1>6. CASE FinishBuild(j)
  <2>1. stage[j] = "building" /\ wait(j) /\ UNCHANGED firmware
    BY <1>6 DEF FinishBuild
  <2>2. CASE Completes(j, "exception") /\ UNCHANGED saved
    <3>1. /\ stage'[j] = "over" /\ proc'[j] = "none" /\ outcome'[j] = "exception"
          /\ \A i \in Job \ {j} : /\ stage'[i] = stage[i] /\ outcome'[i] = outcome[i]
                                  /\ returncode'[i] = returncode[i] /\ proc'[i] = proc[i]
      BY <2>2, CompleteFacts
    <3>2. JobHistory(j)'
      BY <3>1 DEF JobHistory
    <3> QED
      BY <1>1, <1>2, <2>1, <2>2, <3>1, <3>2, OthersAreLeftAlone DEF Busy
  <2>3. CASE /\ saved' = [saved EXCEPT ![j] = LogIsWhole(j)]
             /\ IF Succeeded(j) THEN FlashOr(j, "success") ELSE Completes(j, "failure")
    <3>1. LogIsWhole(j)
      BY <2>1, WaitedForIsWhole DEF RunInvariant
    <3>2. /\ saved' \in [Job -> BOOLEAN] /\ saved'[j] = TRUE
          /\ \A i \in Job \ {j} : saved'[i] = saved[i]
      <4> HIDE DEF LogIsWhole
      <4>1. saved' = [saved EXCEPT ![j] = TRUE]
        BY <2>3, <3>1
      <4> QED
        BY <1>2, <4>1
    <3>3. CASE ~Succeeded(j)
      <4>1. Completes(j, "failure")
        BY <2>3, <3>3
      <4>2. /\ stage'[j] = "over" /\ proc'[j] = "none" /\ outcome'[j] = "failure"
            /\ \A i \in Job \ {j} : /\ stage'[i] = stage[i] /\ outcome'[i] = outcome[i]
                                    /\ returncode'[i] = returncode[i] /\ proc'[i] = proc[i]
        BY <4>1, CompleteFacts
      <4>3. JobHistory(j)'
        BY <3>2, <4>2 DEF JobHistory
      <4> QED
        BY <1>1, <2>1, <3>2, <4>2, <4>3, OthersAreLeftAlone DEF Busy
    <3>4. CASE Succeeded(j)
      <4>1. FlashOr(j, "success") /\ returncode[j] = 0 /\ firmware[NameOf(j)] # "none"
        BY <2>3, <3>4 DEF Succeeded
      <4>2. /\ \/ stage'[j] = "flashing" /\ proc'[j] = "running" /\ outcome'[j] = "none"
               \/ stage'[j] = "over" /\ proc'[j] = "none"
                  /\ outcome'[j] \in {"success", "exception"} /\ UNCHANGED returncode
            /\ \A i \in Job \ {j} : /\ stage'[i] = stage[i] /\ outcome'[i] = outcome[i]
                                    /\ returncode'[i] = returncode[i] /\ proc'[i] = proc[i]
        BY <1>1, <4>1, FlashOrFacts
      <4>3. ~args.skip_build => JobHistory(j)'
        <5> SUFFICES ASSUME ~args.skip_build PROVE JobHistory(j)'
          OBVIOUS
        <5>1. args.pristine => firmware[NameOf(j)] = "new"
          BY <1>2, <1>3, <2>1, <4>1 DEF JobHistory, Files
        <5>2. firmware[NameOf(j)] \in {"old", "new"}
          BY <1>2, <4>1 DEF Files
        <5>3. firmware'[NameOf(j)'] \in IF args'.pristine THEN {"new"} ELSE {"old", "new"}
          BY <1>1, <2>1, <5>1, <5>2
        <5>4. /\ stage'[j] # "building" /\ saved'[j]
              /\ outcome'[j] = "success" => returncode'[j] = 0
          BY <3>2, <4>1, <4>2
        <5> QED
          BY <5>3, <5>4 DEF JobHistory, FirmwareOfTheRun
      <4> QED
        BY <1>1, <2>1, <3>2, <4>2, <4>3, OthersAreLeftAlone DEF Busy
    <3> QED
      BY <3>3, <3>4
  <2> QED
    BY <1>6, <2>2, <2>3 DEF FinishBuild
<1>7. CASE FinishFlash(j)
  <2>1. stage[j] = "flashing" /\ UNCHANGED <<firmware, saved>>
    BY <1>7 DEF FinishFlash
  <2>2. PICK how \in {"success", "failure", "exception"} :
          Completes(j, how) /\ (how = "success" => returncode[j] = 0)
    BY <1>7 DEF FinishFlash
  <2>3. /\ stage'[j] = "over" /\ proc'[j] = "none" /\ outcome'[j] = how /\ UNCHANGED returncode
        /\ \A i \in Job \ {j} : /\ stage'[i] = stage[i] /\ outcome'[i] = outcome[i]
                                /\ returncode'[i] = returncode[i] /\ proc'[i] = proc[i]
    BY <2>2, CompleteFacts
  <2>4. ~args.skip_build => JobHistory(j)'
    BY <1>1, <1>3, <2>1, <2>2, <2>3 DEF JobHistory, FirmwareOfTheRun
  <2> QED
    BY <1>1, <1>2, <2>1, <2>3, <2>4, OthersAreLeftAlone DEF Busy
<1> QED
  BY <1>4, <1>5, <1>6, <1>7 DEF JobStep

\* West exits and leaves what it leaves in its job's directory.
LEMMA WestKeepsDir ==
  ASSUME RunInvariant, NEW j \in Job, WestExits(j)
  PROVE  DirInvariant' /\ TeeInvariant'
<1>1. PICK code \in {0, 1} : Exit(j, code)
  BY DEF WestExits
<1>2. /\ proc[j] = "running" /\ proc' = [proc EXCEPT ![j] = "exited"]
      /\ returncode' = [returncode EXCEPT ![j] = code]
      /\ UNCHANGED <<stage, outcome, saved, scenario, matrix>>
      /\ args' = args /\ NameOf(j)' = NameOf(j)
  BY <1>1 DEF Exit, WestExits, mainVars, args, NameOf
<1>3. /\ stage[j] \in Busy /\ stage[j] # "idle" /\ outcome[j] = "none" /\ j \in Targets
      /\ saved \in [Job -> BOOLEAN] /\ firmware[NameOf(j)] \in Files
      /\ firmware \in [Names -> Files] /\ NameOf(j) \in Names
  <2>1. stage[j] \in Busy
    BY <1>2 DEF RunInvariant, DirInvariant
  <2> QED
    BY <2>1, RunFacts DEF Busy
<1>4. \/ stage[j] = "building"
           /\ \E file \in {"new", firmware[NameOf(j)]} :
                firmware' = [firmware EXCEPT ![NameOf(j)] = file]
      \/ stage[j] = "flashing" /\ UNCHANGED firmware
  BY <1>3 DEF WestExits, Busy
<1>5. /\ proc'[j] # "none"
      /\ \A i \in Job \ {j} : proc'[i] = proc[i] /\ returncode'[i] = returncode[i]
  BY <1>2, RunFacts
<1>6. ~args.skip_build => JobHistory(j)'
  <2> SUFFICES ASSUME ~args.skip_build PROVE JobHistory(j)'
    OBVIOUS
  <2>1. JobHistory(j)
    BY <1>3 DEF RunInvariant, DirInvariant
  <2>2. CASE stage[j] = "building"
    <3>1. firmware'[NameOf(j)] \in {"new", firmware[NameOf(j)]}
      BY <1>3, <1>4, <2>2
    <3> QED
      BY <1>2, <1>3, <2>1, <2>2, <3>1 DEF JobHistory
  <2>3. CASE stage[j] = "flashing"
    BY <1>2, <1>3, <1>4, <2>1, <2>3 DEF JobHistory, FirmwareOfTheRun
  <2> QED
    BY <1>4, <2>2, <2>3
<1>7. \/ firmware' = firmware
      \/ \E file \in Files : firmware' = [firmware EXCEPT ![NameOf(j)] = file]
  BY <1>3, <1>4 DEF Files
<1>8. DirInvariant'
  BY <1>2, <1>3, <1>5, <1>6, <1>7, OthersAreLeftAlone
<1>9. TeeInvariant'
  BY <1>1, ProcessKeepsTee DEF RunInvariant
<1> QED
  BY <1>8, <1>9

\* The process prints and lets go of its pipes, the threads read them.
LEMMA PipesKeepDir ==
  ASSUME RunInvariant, NEW j \in Job, Chatter(j) \/ TeeStep(j)
  PROVE  DirInvariant' /\ TeeInvariant'
<1>1. /\ UNCHANGED <<jobVars, finished, mainVars>>
      /\ (\E s \in Stream : PrintLine(j, s)) \/ PipesClose(j) \/ _reader(j)
  BY DEF Chatter, TeeStep
<1>2. /\ UNCHANGED <<stage, outcome, firmware, saved, scenario, matrix, returncode>>
      /\ \A i \in Job : proc'[i] # "none" <=> proc[i] # "none"
  <2>1. UNCHANGED returncode
    BY <1>1 DEF PrintLine, PipesClose, _reader, CopyLine, EndOfPipe, ReaderFails, procVars
  <2>2. ASSUME NEW i \in Job PROVE proc'[i] # "none" <=> proc[i] # "none"
    <3>1. CASE PipesClose(j)
      BY <3>1, RunFacts DEF PipesClose
    <3>2. CASE UNCHANGED proc
      BY <3>2
    <3>3. CASE (\E s \in Stream : PrintLine(j, s)) \/ _reader(j)
      BY <3>2, <3>3 DEF PrintLine, _reader, CopyLine, EndOfPipe, ReaderFails, procVars
    <3> QED
      BY <1>1, <3>1, <3>3
  <2> QED
    BY <1>1, <2>1, <2>2 DEF jobVars, mainVars
<1>3. Targets' = Targets /\ Names' = Names /\ args' = args /\ \A i \in Job : NameOf(i)' = NameOf(i)
  BY <1>2 DEF Targets, Names, args, NameOf
<1>4. \A i \in Job : JobHistory(i)' <=> JobHistory(i)
  BY <1>2, <1>3 DEF JobHistory, FirmwareOfTheRun
<1>5. Targets \subseteq Job
  BY RunFacts
<1>6. DirInvariant'
  BY <1>2, <1>3, <1>4, <1>5 DEF RunInvariant, DirInvariant
<1>7. TeeInvariant'
  BY <1>1, ProcessKeepsTee, ReaderKeepsTee DEF RunInvariant
<1> QED
  BY <1>6, <1>7

\* What the main thread does after the plan leaves the directories alone.
LEMMA CollectingKeepsDir ==
  ASSUME RunInvariant, UNCHANGED <<jobVars, scenario, matrix, teeVars>>
  PROVE  DirInvariant' /\ TeeInvariant'
<1>1. /\ UNCHANGED <<stage, outcome, firmware, saved, scenario, matrix, returncode, proc>>
      /\ UNCHANGED <<printed, buf, reading, broken, log_file>>
  BY DEF jobVars, teeVars, procVars, readerVars
<1>2. DirInvariant'
  BY <1>1 DEF RunInvariant, DirInvariant, JobHistory, FirmwareOfTheRun, Targets, Names, args, NameOf
<1>3. TeeInvariant'
  BY <1>1 DEF RunInvariant, TeeInvariant, TeeTypeOK, PipesFollow
<1> QED
  BY <1>2, <1>3

\* What had completed early is collected first.
LEMMA StepKeepsEarly ==
  ASSUME RunInvariant, [BuildNext]_buildVars
  PROVE  early' \in 0..Len(finished')
<1>1. /\ early \in 0..Len(finished) /\ finished \in Seq(Job) /\ finished' \in Seq(Job)
      /\ Len(finished) \in Nat /\ Len(finished') \in Nat
  <2>1. finished \in Seq(Job)
    BY DEF RunInvariant, CollectInvariant, CollectTypeOK
  <2>2. finished' \in Seq(Job)
    BY StepKeepsInvariant DEF RunInvariant, CollectInvariant, CollectTypeOK
  <2> QED
    BY <2>1, <2>2 DEF RunInvariant
<1>2. CASE as_completed
  BY <1>1, <1>2 DEF as_completed
<1>3. CASE Collect
  <2>1. PICK k \in DOMAIN finished : finished' = RemoveAt(finished, k)
    BY <1>3 DEF Collect
  <2>2. Len(finished') = Len(finished) - 1
    BY <1>1, <2>1, RemoveAtFacts
  <2>3. early' = IF early > 0 THEN early - 1 ELSE 0
    BY <1>3 DEF Collect
  <2> QED
    BY <1>1, <2>2, <2>3
<1>4. CASE UNCHANGED <<early, finished>>
  BY <1>1, <1>4
<1>5. ASSUME NEW j \in Job, JobStep(j)
      PROVE  early' \in 0..Len(finished')
  <2>1. UNCHANGED early
    BY <1>5, JobStepFacts DEF mainVars
  <2>2. UNCHANGED finished \/ finished' = Append(finished, j)
    BY <1>5, JobStepFacts
  <2>3. Len(finished') = Len(finished) \/ Len(finished') = Len(finished) + 1
    BY <1>1, <2>2
  <2> QED
    BY <1>1, <2>1, <2>3
<1>6. CASE do_run \/ Report
  BY <1>4, <1>6 DEF do_run, Report
<1>7. ASSUME NEW j \in Job, WestExits(j) \/ TeeStep(j) \/ Chatter(j)
      PROVE  UNCHANGED <<early, finished>>
  BY <1>7 DEF WestExits, TeeStep, Chatter, mainVars
<1>8. CASE UNCHANGED buildVars
  BY <1>4, <1>8 DEF buildVars, mainVars
<1> QED
  BY <1>2, <1>3, <1>4, <1>5, <1>6, <1>7, <1>8 DEF BuildNext, MainStep

LEMMA StepKeepsRun ==
  RunInvariant /\ [BuildNext]_buildVars => RunInvariant'
<1> SUFFICES ASSUME RunInvariant, [BuildNext]_buildVars PROVE RunInvariant'
  OBVIOUS
<1>1. CollectInvariant' /\ early' \in 0..Len(finished')
  BY StepKeepsInvariant, StepKeepsEarly DEF RunInvariant
<1>2. PlanInvariant
  BY DEF RunInvariant
<1>3. CASE do_run
  <2>1. UNCHANGED teeVars
    BY <1>3 DEF do_run
  <2>2. TeeInvariant'
    BY <2>1 DEF RunInvariant, TeeInvariant, TeeTypeOK, PipesFollow, teeVars, procVars, readerVars
  <2> QED
    BY <1>1, <1>3, <2>2, PlanKeepsRun DEF RunInvariant
<1>4. CASE as_completed \/ Collect \/ Report
  <2>1. /\ UNCHANGED <<jobVars, scenario, matrix, settings, teeVars>>
        /\ (main' = "plan" => main = "plan")
    BY <1>4 DEF as_completed, Collect, Report, Exits
  <2>2. PlanInvariant'
    BY <1>2, <2>1, UnplannedKeepsPlan
  <2> QED
    BY <1>1, <2>1, <2>2, CollectingKeepsDir DEF RunInvariant
<1>5. ASSUME UNCHANGED mainVars PROVE PlanInvariant'
  <2>1. UNCHANGED <<scenario, matrix, settings>> /\ UNCHANGED main
    BY <1>5 DEF mainVars
  <2> QED
    BY <1>2, <2>1, UnplannedKeepsPlan
<1>6. ASSUME NEW j \in Job, JobStep(j) PROVE RunInvariant'
  <2>1. UNCHANGED mainVars
    BY <1>6, JobStepFacts
  <2>2. start(j) \/ drop(j)
    BY <1>6 DEF JobStep, SkipBuild, StartBuild, FinishBuild, FinishFlash, FlashOr, StartFlash,
      Completes
  <2>3. TeeInvariant'
    BY <2>2, CallsKeepTee DEF RunInvariant
  <2> QED
    BY <1>1, <1>5, <1>6, <2>1, <2>3, JobKeepsDir DEF RunInvariant
<1>7. ASSUME NEW j \in Job, WestExits(j) \/ TeeStep(j) \/ Chatter(j) PROVE RunInvariant'
  <2>1. UNCHANGED mainVars
    BY <1>7 DEF WestExits, TeeStep, Chatter
  <2> QED
    BY <1>1, <1>5, <1>7, <2>1, WestKeepsDir, PipesKeepDir DEF RunInvariant
<1>8. CASE UNCHANGED buildVars
  <2>1. UNCHANGED mainVars /\ UNCHANGED <<jobVars, scenario, matrix, teeVars>>
    BY <1>8 DEF buildVars, mainVars
  <2> QED
    BY <1>1, <1>5, <2>1, CollectingKeepsDir DEF RunInvariant
<1> QED
  BY <1>3, <1>4, <1>6, <1>7, <1>8 DEF BuildNext, MainStep

LEMMA RunInvariantHolds == BuildSpec => []RunInvariant
<1>1. BuildInit => RunInvariant
  BY RunInit
<1>2. RunInvariant /\ [BuildNext]_buildVars => RunInvariant'
  BY StepKeepsRun
<1> QED
  BY <1>1, <1>2, PTL DEF BuildSpec

-----------------------------------------------------------------------------
\* No two jobs work in one directory, whatever build.yaml, the command line and
\* the selection make of the names.
THEOREM EveryJobHasItsDirectory == BuildSpec => []OwnBuildDir
<1>1. RunInvariant => OwnBuildDir
  BY DEF RunInvariant, PlanInvariant
<1> QED
  BY <1>1, RunInvariantHolds, PTL

\* The log moved beside a build holds every line its processes printed, each
\* stream in its order, and of a stream whose thread failed those before that.
THEOREM LogsAreMovedWhole == BuildSpec => []LogsAreWhole
<1>1. RunInvariant => LogsAreWhole
  BY DEF RunInvariant, DirInvariant, JobHistory, LogsAreWhole
<1> QED
  BY <1>1, RunInvariantHolds, PTL

\* With --skip-build nothing is built: a directory stays as it was found, and a
\* success that was to flash has flashed.
SkippedHistory(j) ==
  /\ stage[j] # "building" /\ firmware[NameOf(j)] = Leftover(NameOf(j))
  /\ outcome[j] = "success" /\ args.flash => returncode[j] = 0

SkipInvariant == args.skip_build => \A j \in Targets : SkippedHistory(j)

LEMMA StepKeepsSkip ==
  ASSUME RunInvariant, SkipInvariant, [BuildNext]_buildVars
  PROVE  SkipInvariant'
<1>1. /\ returncode \in [Job -> {0, 1, NotYet}] /\ stage \in [Job -> Stages]
      /\ Targets \subseteq Job
      /\ \A j \in Job : stage[j] # "over" <=> outcome[j] = "none"
      /\ \A j \in Job : stage[j] \in Busy <=> proc[j] # "none"
  BY RunFacts DEF RunInvariant, DirInvariant
<1>2. CASE do_run
  <2>1. /\ main = "plan" /\ UNCHANGED <<scenario, outcome, returncode>>
        /\ scenario \in Scenario /\ matrix = << >> /\ \A j \in Job : stage[j] = "idle"
    BY <1>2 DEF do_run, teeVars, procVars, RunInvariant, PlanInvariant, CollectInvariant,
                JobsAreTargets
  <2>2. CASE Ended
    BY <2>1, <2>2 DEF Ended, SkipInvariant, Targets
  <2>3. ASSUME NEW targets, Planned(targets) PROVE SkipInvariant'
    <3>1. /\ matrix' = targets
          /\ stage' = [j \in Job |-> IF j \in DOMAIN targets THEN "queued" ELSE "idle"]
          /\ firmware' = [n \in {targets[i].artifact : i \in DOMAIN targets} |-> Leftover(n)]
          /\ DOMAIN targets \subseteq Job
      BY <2>3 DEF Planned, Submit
    <3>2. Targets' = DOMAIN targets /\ \A j \in DOMAIN targets : NameOf(j)' = targets[j].artifact
      BY <3>1 DEF Targets, NameOf
    <3>3. ASSUME NEW j \in DOMAIN targets PROVE SkippedHistory(j)'
      <4>1. stage'[j] = "queued" /\ outcome'[j] = "none"
        BY <1>1, <2>1, <3>1
      <4>2. firmware'[NameOf(j)'] = Leftover(targets[j].artifact)
        BY <3>1, <3>2
      <4>3. Leftover(NameOf(j))' = Leftover(targets[j].artifact)
        BY <2>1, <3>2 DEF Leftover
      <4> QED
        BY <4>1, <4>2, <4>3 DEF SkippedHistory
    <3> QED
      BY <3>2, <3>3 DEF SkipInvariant
  <2> QED
    BY <1>2, <2>1, <2>2, <2>3, PlanFacts
\* From the plan on, the targets and the command line stay.
<1>3. ASSUME UNCHANGED <<scenario, matrix>>
      PROVE  /\ Targets' = Targets /\ args' = args
             /\ \A j \in Job : NameOf(j)' = NameOf(j) /\ Leftover(NameOf(j))' = Leftover(NameOf(j))
  BY <1>3 DEF Targets, args, NameOf, Leftover
<1>4. ASSUME UNCHANGED <<scenario, matrix, firmware, stage, outcome, returncode>>
      PROVE  SkipInvariant'
  BY <1>1, <1>3, <1>4 DEF SkipInvariant, SkippedHistory
\* A step of one job, which neither builds nor touches the firmware.
<1>5. ASSUME NEW j \in Job, UNCHANGED <<scenario, matrix>>,
             args.skip_build => /\ UNCHANGED firmware /\ stage'[j] # "building"
                                /\ outcome'[j] = "success" /\ args.flash => returncode'[j] = 0,
             \A i \in Job \ {j} : /\ stage'[i] = stage[i] /\ outcome'[i] = outcome[i]
                                  /\ returncode'[i] = returncode[i]
      PROVE  SkipInvariant'
  <2> SUFFICES ASSUME args'.skip_build, NEW i \in Targets' PROVE SkippedHistory(i)'
    BY DEF SkipInvariant
  <2>1. args.skip_build /\ args' = args /\ i \in Targets /\ i \in Job /\ SkippedHistory(i)
    BY <1>1, <1>3, <1>5 DEF SkipInvariant
  <2>2. NameOf(i)' = NameOf(i) /\ Leftover(NameOf(i))' = Leftover(NameOf(i))
    BY <1>3, <1>5, <2>1
  <2>3. CASE i = j
    BY <1>5, <2>1, <2>2, <2>3 DEF SkippedHistory
  <2>4. CASE i # j
    BY <1>5, <2>1, <2>2, <2>4 DEF SkippedHistory
  <2> QED
    BY <2>3, <2>4
<1>6. ASSUME NEW j \in Job, JobStep(j) PROVE SkipInvariant'
  <2>1. /\ UNCHANGED <<scenario, matrix>> /\ outcome[j] = "none" /\ j \in Targets
        /\ stage[j] \in {"queued", "building", "flashing"}
    <3>1. /\ UNCHANGED mainVars /\ stage[j] \in {"queued", "building", "flashing"}
      BY <1>6, JobStepFacts
    <3>2. stage[j] # "idle" /\ stage[j] # "over"
      BY <3>1
    <3> QED
      BY <3>1, <3>2, RunFacts DEF mainVars
  <2>2. args.skip_build => stage[j] # "building"
    BY <2>1 DEF SkipInvariant, SkippedHistory
  <2>3. ASSUME NEW how \in {"success", "failure", "exception"}, Completes(j, how)
        PROVE  /\ stage'[j] = "over" /\ outcome'[j] = how /\ UNCHANGED returncode
               /\ \A i \in Job \ {j} : /\ stage'[i] = stage[i] /\ outcome'[i] = outcome[i]
                                       /\ returncode'[i] = returncode[i]
    BY <2>3, CompleteFacts
  <2>4. CASE SkipBuild(j)
    <3>1. FlashOr(j, "success") /\ UNCHANGED firmware
      BY <2>4 DEF SkipBuild
    <3>2. CASE StartFlash(j) /\ args.flash
      <4>1. CASE Completes(j, "exception")
        BY <1>5, <2>1, <2>3, <3>1, <4>1
      <4>2. CASE stage' = [stage EXCEPT ![j] = "flashing"] /\ start(j) /\ UNCHANGED outcome
        <5>1. /\ stage'[j] = "flashing" /\ outcome'[j] = "none"
              /\ \A i \in Job \ {j} : /\ stage'[i] = stage[i] /\ outcome'[i] = outcome[i]
                                      /\ returncode'[i] = returncode[i]
          BY <2>1, <4>2, StartFacts DEF Busy
        <5> QED
          BY <1>5, <2>1, <3>1, <5>1
      <4> QED
        BY <3>2, <4>1, <4>2 DEF StartFlash
    <3>3. CASE Completes(j, "success") /\ ~args.flash
      BY <1>5, <2>1, <2>3, <3>1, <3>3
    <3> QED
      BY <3>1, <3>2, <3>3 DEF FlashOr
  <2>5. CASE StartBuild(j)
    <3>1. ~args.skip_build
      BY <2>5 DEF StartBuild
    <3>2. args' = args
      BY <1>3, <2>1
    <3> QED
      BY <3>1, <3>2 DEF SkipInvariant
  <2>6. CASE FinishBuild(j)
    <3>1. ~args.skip_build
      BY <2>2, <2>6 DEF FinishBuild
    <3>2. args' = args
      BY <1>3, <2>1
    <3> QED
      BY <3>1, <3>2 DEF SkipInvariant
  <2>7. CASE FinishFlash(j)
    <3>1. PICK how \in {"success", "failure", "exception"} :
            Completes(j, how) /\ (how = "success" => returncode[j] = 0)
      BY <2>7 DEF FinishFlash
    <3>2. UNCHANGED firmware
      BY <2>7 DEF FinishFlash
    <3> QED
      BY <1>5, <2>1, <2>3, <3>1, <3>2
  <2> QED
    BY <1>6, <2>4, <2>5, <2>6, <2>7 DEF JobStep
<1>7. ASSUME NEW j \in Job, WestExits(j) PROVE SkipInvariant'
  <2>1. PICK code \in {0, 1} : Exit(j, code)
    BY <1>7 DEF WestExits
  <2>2. /\ proc[j] = "running" /\ returncode' = [returncode EXCEPT ![j] = code]
        /\ UNCHANGED <<stage, outcome, scenario, matrix>>
    BY <1>7, <2>1 DEF Exit, WestExits, mainVars
  <2>3. stage[j] \in Busy /\ stage[j] # "idle" /\ outcome[j] = "none" /\ j \in Targets
    <3>1. stage[j] \in Busy
      BY <1>1, <2>2
    <3> QED
      BY <3>1, RunFacts DEF Busy
  <2>4. args.skip_build => stage[j] # "building" /\ UNCHANGED firmware
    BY <1>7, <2>3 DEF SkipInvariant, SkippedHistory, WestExits
  <2> QED
    BY <1>1, <1>5, <2>2, <2>3, <2>4
<1>8. ASSUME NEW j \in Job, TeeStep(j) \/ Chatter(j) PROVE SkipInvariant'
  <2>1. UNCHANGED <<scenario, matrix, firmware, stage, outcome>>
    BY <1>8 DEF TeeStep, Chatter, jobVars, mainVars
  <2>2. UNCHANGED returncode
    BY <1>8 DEF TeeStep, Chatter, PrintLine, PipesClose, _reader, CopyLine, EndOfPipe,
                 ReaderFails, procVars
  <2> QED
    BY <1>4, <2>1, <2>2
<1>9. CASE as_completed \/ Collect \/ Report \/ UNCHANGED buildVars
  <2>1. UNCHANGED <<scenario, matrix, firmware, stage, outcome, returncode>>
    BY <1>9 DEF as_completed, Collect, Report, buildVars, jobVars, mainVars, teeVars, procVars
  <2> QED
    BY <1>4, <2>1
<1> QED
  BY <1>2, <1>6, <1>7, <1>8, <1>9 DEF BuildNext, MainStep

\* A success is what west and the directory say: an exit with 0 and a firmware,
\* with -p always the one of this run, before it is flashed and after; or, with
\* --skip-build, whatever an earlier run has left.
THEOREM EverySuccessIsEarned == BuildSpec => []SuccessIsEarned
<1>1. BuildInit => SkipInvariant
  BY DEF BuildInit, SkipInvariant, Targets
<1>2. RunInvariant /\ SkipInvariant /\ [BuildNext]_buildVars => SkipInvariant'
  BY StepKeepsSkip
<1>3. RunInvariant /\ SkipInvariant => SuccessIsEarned
  <2> SUFFICES ASSUME RunInvariant, SkipInvariant, NEW j \in Targets, outcome[j] = "success"
               PROVE  /\ args.flash \/ ~args.skip_build => returncode[j] = 0
                      /\ firmware[NameOf(j)] \in
                           IF args.skip_build THEN {Leftover(NameOf(j))}
                           ELSE IF args.pristine THEN {"new"} ELSE {"old", "new"}
    BY DEF SuccessIsEarned
  <2>1. CASE args.skip_build
    BY <2>1 DEF SkipInvariant, SkippedHistory
  <2>2. CASE ~args.skip_build
    BY <2>2 DEF RunInvariant, DirInvariant, JobHistory, FirmwareOfTheRun
  <2> QED
    BY <2>1, <2>2
<1> QED
  BY <1>1, <1>2, <1>3, RunInvariantHolds, PTL DEF BuildSpec

\* The variables keep their types, and what the user had configured for a target
\* stays in c_cpp_properties.json.
THEOREM BuildAlwaysInvariant == BuildSpec => []BuildInvariant
<1>1. RunInvariant => BuildInvariant
  <2> SUFFICES ASSUME RunInvariant PROVE BuildInvariant
    OBVIOUS
  <2>1. EntriesSurvive
    BY DEF RunInvariant, PlanInvariant
  <2>2. TeeTypeOK /\ scenario \in Scenario /\ Targets \subseteq Job
    BY RunFacts DEF RunInvariant, TeeInvariant, PlanInvariant
  <2>3. matrix \in Seq(Target)
    BY DEF RunInvariant, PlanInvariant
  <2>4. /\ stage \in [Job -> {"idle", "queued", "building", "flashing", "over"}]
        /\ outcome \in [Job -> {"none", "success", "failure", "exception"}]
        /\ saved \in [Job -> BOOLEAN]
    BY RunFacts DEF Stages, Outcomes
  <2>5. \A n \in DOMAIN firmware : n \in Name /\ firmware[n] \in {"none", "old", "new"}
    <3>1. firmware \in [Names -> Files]
      BY RunFacts
    <3>2. \A j \in Targets : NameOf(j) \in Name
      <4>1. \A j \in Targets : matrix[j] \in Target
        BY DEF RunInvariant, PlanInvariant, Targets
      <4> QED
        BY <4>1 DEF NameOf, Target
    <3> QED
      BY <3>1, <3>2 DEF Names, Files
  <2>6. finished \in Seq(Job) /\ early \in 0..Len(finished)
    BY DEF RunInvariant, CollectInvariant, CollectTypeOK
  <2>7. results \in Seq([id : Nat, job : Job, success : BOOLEAN])
    <3>1. Job \cup Nat = Nat
      BY BuildAssumption DEF BuildAssumption
    <3> QED
      BY <3>1 DEF RunInvariant, CollectInvariant, CollectTypeOK, Result
  <2>8. /\ main \in {"plan", "submitted", "collecting", "exited"}
        /\ exit \in {0, 1, NotExited} /\ (main = "exited" <=> exit # NotExited)
    BY DEF RunInvariant, CollectInvariant, CollectTypeOK
  <2> QED
    BY <2>1, <2>2, <2>3, <2>4, <2>5, <2>6, <2>7, <2>8 DEF BuildInvariant, BuildTypeOK
<1> QED
  BY <1>1, RunInvariantHolds, PTL
=============================================================================
