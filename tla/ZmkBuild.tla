------------------------------ MODULE ZmkBuild -------------------------------
(***************************************************************************)
(* `west zmk-build' (scripts/zmk_build.py) from its arguments to its exit  *)
(* status: the main thread works the targets out, hands one job per target *)
(* to a pool of threads and collects the outcomes as the jobs complete;    *)
(* each job runs `west build' in its target's directory, under a TeePopen, *)
(* and perhaps `west flash' after it.                                      *)
(*                                                                         *)
(* External: west, which may print, fail and leave a firmware file or not; *)
(* the file system, whose errors are exceptions in a job.                  *)
(***************************************************************************)
EXTENDS BuildMatrix, TeePopen

CONSTANTS Scenario   (* the command lines and working trees considered     *)

ASSUME BuildAssumption ==
  /\ Job \subseteq Nat \ {0} /\ MaxLines \in Nat
  /\ \A s \in Scenario :
       /\ s.args.suffix \in Name /\ s.args.artifact \in Name \cup {NoWord}
       /\ \A S \in {s.args.board, s.args.shield} : S \subseteq Word /\ IsFiniteSet(S)
       /\ s.build_yaml \in BuildYaml \cup {NoWord} /\ s.places \in Seq(BuildYaml)
       /\ s.files.cpp \in Seq(FileEntry) \cup {NoWord}

VARIABLES
  scenario,  (* zmk, places, build_yaml (or NoWord), args, firmware, files *)
  matrix,    (* the targets, in their order; << >> until they are planned  *)
  stage,     (* job -> "idle", "queued", "building", "flashing" or "over"  *)
  outcome,   (* job -> "none", "success", "failure" or "exception"         *)
  firmware,  (* name -> zephyr/zmk.uf2: "none", "old" or "new"             *)
  saved,     (* job -> the log of its build was whole when it was moved    *)
  finished,  (* completed jobs the main thread has yet to collect          *)
  early,     (* how many of those had completed when it began to           *)
  results,   (* what it has collected: the id reported, the job, success   *)
  main,      (* "plan", "submitted", "collecting" or "exited"              *)
  exit,      (* 0, or 1: failed builds, log.die or an exception            *)
  settings   (* .vscode: c_cpp_properties and launch                       *)

jobVars == <<stage, outcome, firmware, saved>>
mainVars == <<scenario, matrix, results, early, main, exit, settings>>
buildVars == <<jobVars, mainVars, finished, teeVars>>

NotExited == 2
args == scenario.args
Targets == DOMAIN matrix
NameOf(j) == matrix[j].artifact
Busy == {"building", "flashing"}

BuildTypeOK ==
  /\ TeeTypeOK
  /\ scenario \in Scenario
  /\ matrix \in Seq(Target)
  /\ Targets \subseteq Job
  /\ stage \in [Job -> {"idle", "queued", "building", "flashing", "over"}]
  /\ outcome \in [Job -> {"none", "success", "failure", "exception"}]
  /\ \A n \in DOMAIN firmware : n \in Name /\ firmware[n] \in {"none", "old", "new"}
  /\ saved \in [Job -> BOOLEAN]
  /\ finished \in Seq(Job) /\ early \in 0..Len(finished)
  /\ results \in Seq([id : Nat, job : Job, success : BOOLEAN])
  /\ main \in {"plan", "submitted", "collecting", "exited"}
  /\ exit \in {0, 1, NotExited} /\ (main = "exited" <=> exit # NotExited)

BuildInit ==
  /\ TeeInit
  /\ scenario \in Scenario
  /\ matrix = << >>
  /\ stage = [j \in Job |-> "idle"] /\ outcome = [j \in Job |-> "none"]
  /\ firmware = << >> /\ saved = [j \in Job |-> FALSE]
  /\ finished = << >> /\ early = 0 /\ results = << >>
  /\ main = "plan" /\ exit = NotExited
  /\ settings = scenario.files

-----------------------------------------------------------------------------
(* Planning, in the main thread before any job.                            *)

Exits(status) == main' = "exited" /\ exit' = status

Unreadable == NoWord
SettingsUnreadable == settings.cpp = Unreadable \/ settings.launch = Unreadable

\* c_cpp_properties.json is written before launch.json is read; one that does
\* not parse ends the program.
GenerateSettings(cpp, launch) ==
  IF settings.cpp = Unreadable THEN UNCHANGED settings
  ELSE settings' = [cpp    |-> cpp,
                    launch |-> IF settings.launch = Unreadable THEN Unreadable ELSE launch]

_generate_vscode_settings(targets) ==
  GenerateSettings(UpdatedEntries(settings.cpp, targets, << >>),
                   UpdatedEntries(settings.launch, targets, <<"Debug ZMK">>))

\* What an earlier run has left in the directory of that name.
Leftover(name) == IF name \in scenario.built THEN "old" ELSE "none"

\* Every job is submitted, in the order of the targets.  Bound: as many targets
\* as there are jobs.
Submit(targets) ==
  /\ DOMAIN targets \subseteq Job
  /\ matrix' = targets
  /\ stage' = [j \in Job |-> IF j \in DOMAIN targets THEN "queued" ELSE "idle"]
  /\ firmware' = [n \in {targets[i].artifact : i \in DOMAIN targets} |-> Leftover(n)]
  /\ main' = "submitted" /\ UNCHANGED exit

\* What was selected interactively, in the order it was offered.
Selections(named) ==
  IF args.interactive
  THEN {chosen \in UNION {[1..n -> DOMAIN named] : n \in 0..Len(named)} :
          \A i, k \in DOMAIN chosen : i < k => chosen[i] < chosen[k]}
  ELSE {[i \in DOMAIN named |-> i]}

Build(targets) ==
  IF args.vscode
  THEN /\ _generate_vscode_settings(targets)
       /\ IF SettingsUnreadable
          THEN Exits(1) /\ UNCHANGED <<matrix, stage, firmware>>
          ELSE Submit(targets)
  ELSE Submit(targets) /\ UNCHANGED settings

\* The build.yaml given, or the one that is found.
YamlOf(s) ==
  _load_yaml(IF s.build_yaml # NoWord THEN s.build_yaml ELSE _find_build_yaml(s.places))

\* Without a ZMK project, a target, distinct names or a selection the command
\* dies, and so it does if it is to flash several boards.
_run_for_all(yaml) ==
  \E listed \in Matrices(yaml, args) :
    LET found == Filtered(args, listed)
        named == Named(args, found)
        dies  == found = << >> \/ (Len(found) > 1 /\ args.flash)
                 \/ ~Nameable(args, found) \/ ~NamesDiffer(named)
    IN IF dies
       THEN Exits(1) /\ UNCHANGED <<matrix, stage, firmware, settings>>
       ELSE \E chosen \in Selections(named) :
              LET selected == [i \in DOMAIN chosen |-> named[chosen[i]]]
              IN IF selected = << >> \/ args.no_run
                 THEN /\ Exits(IF selected = << >> THEN 1 ELSE 0)
                      /\ UNCHANGED <<matrix, stage, firmware, settings>>
                 ELSE Build(Suffixed(args, selected))

do_run ==
  /\ main = "plan"
  /\ IF ~scenario.zmk
     THEN Exits(1) /\ UNCHANGED <<matrix, stage, firmware, settings>>
     ELSE _run_for_all(YamlOf(scenario))
  /\ UNCHANGED <<scenario, outcome, saved, finished, early, results, teeVars>>

-----------------------------------------------------------------------------
(* The jobs.                                                               *)

\* Mutant: a thread that has run a job is not free for another.
TakenForGood(j) ==
  /\ stage[j] = "queued" /\ \A i \in 1..(j - 1) : stage[i] # "queued"
  /\ Cardinality({i \in Targets : stage[i] # "queued"}) < args.parallelism

\* The pool takes the jobs in the order they were submitted.
Taken(j) ==
  /\ stage[j] = "queued" /\ \A i \in 1..(j - 1) : stage[i] # "queued"
  /\ Cardinality({i \in Job : stage[i] \in Busy}) < args.parallelism

\* The job's future is done; its process, waited for, is forgotten.
Completes(j, how) ==
  /\ drop(j)
  /\ stage' = [stage EXCEPT ![j] = "over"]
  /\ outcome' = [outcome EXCEPT ![j] = how]
  /\ finished' = Append(finished, j)

\* west flash, if it was asked for; TeePopen may raise.
StartFlash(j) ==
  \/ stage' = [stage EXCEPT ![j] = "flashing"] /\ start(j) /\ UNCHANGED <<outcome, finished>>
  \/ Completes(j, "exception")

FlashOr(j, how) ==
  IF args.flash THEN StartFlash(j) ELSE Completes(j, how)

\* --skip-build: straight on to the flashing.
SkipBuild(j) ==
  /\ args.skip_build /\ Taken(j)
  /\ FlashOr(j, "success")
  /\ UNCHANGED <<firmware, saved, mainVars>>

\* west build is started in the target's directory, which it may empty and with
\* -p always does; a target without a shield raises, and so may making the
\* directory or Popen.
StartBuild(j) ==
  /\ ~args.skip_build /\ Taken(j)
  /\ \/ /\ matrix[j].shield # NoWord
        /\ stage' = [stage EXCEPT ![j] = "building"] /\ start(j)
        /\ \E kept \in {"none"} \cup IF args.pristine THEN {} ELSE {firmware[NameOf(j)]} :
             firmware' = [firmware EXCEPT ![NameOf(j)] = kept]
        /\ UNCHANGED <<outcome, finished>>
     \/ Completes(j, "exception") /\ UNCHANGED firmware
  /\ UNCHANGED <<saved, mainVars>>

\* Mutant: the exit status is not looked at.
FirmwareOnly(j) == firmware[NameOf(j)] # "none"

\* The build succeeded: it exited with 0 and the firmware is there.
Succeeded(j) == returncode[j] = 0 /\ firmware[NameOf(j)] # "none"

\* The process is waited for and its log moved to the directory, which may raise.
FinishBuild(j) ==
  /\ stage[j] = "building" /\ wait(j)
  /\ \/ /\ saved' = [saved EXCEPT ![j] = LogIsWhole(j)]
        /\ IF Succeeded(j) THEN FlashOr(j, "success")
           ELSE Completes(j, "failure")
     \/ Completes(j, "exception") /\ UNCHANGED saved
  /\ UNCHANGED <<firmware, mainVars>>

FinishFlash(j) ==
  /\ stage[j] = "flashing" /\ wait(j)
  /\ \/ Completes(j, IF returncode[j] = 0 THEN "success" ELSE "failure")
     \/ Completes(j, "exception")
  /\ UNCHANGED <<firmware, saved, mainVars>>

-----------------------------------------------------------------------------
(* The processes.                                                          *)

\* west build leaves a firmware file or not, whatever its exit status.
WestExits(j) ==
  /\ \E code \in {0, 1} : Exit(j, code)
  /\ IF stage[j] = "building"
     THEN \E file \in {"new", firmware[NameOf(j)]} :
            firmware' = [firmware EXCEPT ![NameOf(j)] = file]
     ELSE UNCHANGED firmware
  /\ UNCHANGED <<stage, outcome, saved, finished, mainVars>>

Chatter(j) ==
  /\ \E s \in Stream : PrintLine(j, s)
  /\ UNCHANGED <<jobVars, finished, mainVars>>

TeeStep(j) ==
  /\ PipesClose(j) \/ _reader(j)
  /\ UNCHANGED <<jobVars, finished, mainVars>>

-----------------------------------------------------------------------------
(* Collecting.                                                             *)

as_completed ==
  /\ main = "submitted" /\ main' = "collecting"
  /\ early' = Len(finished)
  /\ UNCHANGED <<jobVars, scenario, matrix, finished, results, exit, settings, teeVars>>

\* Mutant: the failed job's own number is not known, so nothing is reported.
CollectedQuietly(j) ==
  results' = IF outcome[j] = "exception" THEN results
             ELSE Append(results, [id |-> j, job |-> j, success |-> outcome[j] = "success"])

\* A job reports its own number; an exception is reported under the number of
\* jobs collected before it.
Collected(j) ==
  results' = Append(results,
    [id      |-> IF outcome[j] = "exception" THEN Len(results) + 1 ELSE j,
     job     |-> j,
     success |-> outcome[j] = "success"])

\* What had completed before comes in any order, the rest as it completes.
Collect ==
  /\ main = "collecting"
  /\ \E k \in 1..Max({early, 1}) :
       /\ k \in DOMAIN finished
       /\ Collected(finished[k])
       /\ finished' = RemoveAt(finished, k)
  /\ early' = IF early > 0 THEN early - 1 ELSE 0
  /\ UNCHANGED <<jobVars, scenario, matrix, main, exit, settings, teeVars>>

Report ==
  /\ main = "collecting" /\ \A j \in Targets : stage[j] = "over"
  /\ finished = << >>
  /\ Exits(IF \E k \in DOMAIN results : ~results[k].success THEN 1 ELSE 0)
  /\ UNCHANGED <<jobVars, scenario, matrix, finished, results, early, settings, teeVars>>

-----------------------------------------------------------------------------
JobStep(j) == SkipBuild(j) \/ StartBuild(j) \/ FinishBuild(j) \/ FinishFlash(j)
MainStep == do_run \/ as_completed \/ Collect \/ Report

BuildNext ==
  \/ MainStep
  \/ \E j \in Job : JobStep(j) \/ WestExits(j) \/ TeeStep(j) \/ Chatter(j)

\* west and its descendants end some day; threads that can run do.
BuildFairness ==
  /\ WF_buildVars(MainStep)
  /\ \A j \in Job :
       WF_buildVars(JobStep(j)) /\ WF_buildVars(WestExits(j)) /\ WF_buildVars(TeeStep(j))

BuildSpec == BuildInit /\ [][BuildNext]_buildVars /\ BuildFairness
-----------------------------------------------------------------------------
\* No two jobs work in one directory: the names differ after all that is done
\* to them, the replaced characters, the prefix and the suffixes.
OwnBuildDir == \A i, j \in Targets : i # j => NameOf(i) # NameOf(j)

\* The log beside a build that has a verdict holds every line the build's
\* processes printed, each stream in its order, however the threads took turns;
\* of a stream whose thread failed, every line before the one it failed on.
LogsAreWhole ==
  \A j \in Targets :
    outcome[j] \in {"success", "failure"} /\ ~args.skip_build => saved[j]

\* A job is a success only if the last process it ran exited with 0 and, if it was
\* built, its directory holds a firmware -- with -p always the one of this run, not
\* an older one -- and only such a firmware was flashed.  With --skip-build nobody
\* looks: the directory is as an earlier run left it, without a firmware even.
SuccessIsEarned ==
  \A j \in Targets : outcome[j] = "success" =>
    /\ args.flash \/ ~args.skip_build => returncode[j] = 0
    /\ firmware[NameOf(j)] \in IF args.skip_build THEN {Leftover(NameOf(j))}
                              ELSE IF args.pristine THEN {"new"} ELSE {"old", "new"}

\* The exit status is 0 exactly if every job was a success, an exception or a
\* failed flash included, in whatever order they complete.
BuildExitIsHonest ==
  exit # NotExited /\ Targets # {} =>
    (exit = 0 <=> \A j \in Targets : outcome[j] = "success")

\* What the user has configured survives in c_cpp_properties.json, of entries of one
\* name the last: under every name the file has an entry for when it has been
\* rewritten, also if launch.json then ends the program, and for every target built.
EntriesSurvive ==
  scenario.files.cpp # Unreadable =>
    \A k \in DOMAIN scenario.files.cpp :
      LET name == scenario.files.cpp[k].name IN
      /\ \A l \in DOMAIN scenario.files.cpp : scenario.files.cpp[l].name = name => l <= k
      /\ \/ \E l \in DOMAIN settings.cpp : settings.cpp[l].name = name
         \/ \E j \in Targets : NameOf(j) = name
      => scenario.files.cpp[k] \in ToSet(settings.cpp)

BuildInvariant == BuildTypeOK /\ EntriesSurvive

\* Every run ends, whatever fails or raises.
BuildEnds == <>(exit # NotExited)

\* The outcome of a job is reported under the number the list of targets gave it
\* ("[*] - [{i}] {inc['artifact']}"): an exception is not, see the findings.
ResultsNameTheirJob == \A k \in DOMAIN results : results[k].id = results[k].job
=============================================================================
