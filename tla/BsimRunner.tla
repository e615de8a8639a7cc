----------------------------- MODULE BsimRunner ------------------------------
(***************************************************************************)
(* BleRunner (scripts/lib/ble/runner.py) and its west command: the bsim    *)
(* BLE cases are built, simulated and compared with their snapshots, by    *)
(* one thread or by a pool.  A simulation is a set of processes -- the     *)
(* keyboard (device 0), the handbrake (1), the case's siblings and the     *)
(* phy, which waits for all the others -- and one thread per device that   *)
(* copies its output into the case's log.                                  *)
(*                                                                         *)
(* Cases share nothing but the results (their sim ids are assumed to       *)
(* differ), so one of them, the focus, is simulated process by process and *)
(* the others only begin and end.  events.patterns keeps every line here,  *)
(* and which device it is of.                                              *)
(*                                                                         *)
(* External: the processes, which may crash or hang at any point, and the  *)
(* clocks behind the timeouts.                                             *)
(***************************************************************************)
EXTENDS Naturals, Sequences, FiniteSets, SequencesExt

CONSTANTS NCases,     (* the cases discovered                              *)
          NDevices,   (* the focus's devices, keyboard and handbrake included *)
          Text,       (* what a device may print                           *)
          Expected,   (* Expected[d]: the snapshot's lines of device d     *)
          MaxLines    (* bound: MaxLines[d], the lines device d prints     *)

Cases == 1..NCases
Devices == 0..(NDevices - 1)
Teed == Devices \ {1}           \* the handbrake's output is not logged

ASSUME BsimAssumption ==
  /\ NCases \in Nat \ {0} /\ NDevices \in Nat \ {0, 1}
  /\ Expected \in [Teed -> Seq(Text)] /\ MaxLines \in [Teed -> Nat]

VARIABLES
  parallel, focus,
  runner,      (* "host_apps", "cases", "raising" or "done"                *)
  stage,       (* case -> where its run_case is                            *)
  status,      (* case -> its CaseResult, or "none"                        *)
  pass_fail,   (* pass-fail.log: "stale" or "written" by this run          *)
  exit,        (* "none", "ok", or "die" (log.die)                         *)
  procs,       (* the devices spawned so far: 0..procs-1                   *)
  device,      (* device -> "absent", "starting", "on" or "gone"           *)
  written,     (* device -> the lines it has printed                       *)
  tee,         (* device -> how many of them its thread has read           *)
  reader,      (* device -> its thread is "none", "reading" or "over"      *)
  phy,         (* "none", "waiting", "running" or "ended"                  *)
  next,        (* the device the runner waits for or joins                 *)
  log,         (* output.log: <<device, line>> in the order written        *)
  closed,      (* the log's handle is closed                               *)
  late,        (* history: a join timed out                                *)
  accepted     (* history: the snapshot was regenerated                    *)

configVars == <<parallel, focus>>
resultVars == <<runner, status, pass_fail, exit, accepted>>
deviceVars == <<device, written>>
threadVars == <<tee, reader, log>>
simVars == <<procs, phy, next, closed, late>>
bsimVars == <<configVars, resultVars, stage, deviceVars, threadVars, simVars>>

Simulating == {"spawning", "phy", "reaping", "joining", "evaluating"}
Running == Simulating \cup {"building", "working"}

BsimTypeOK ==
  /\ parallel \in 1..2 /\ focus \in Cases
  /\ runner \in {"host_apps", "cases", "raising", "done"}
  /\ stage \in [Cases -> Running \cup {"queued", "ended", "raised", "cancelled"}]
  /\ status \in [Cases -> {"none", "PASS", "FAILED", "PENDING"}]
  /\ pass_fail \in {"stale", "written"} /\ exit \in {"none", "ok", "die"}
  /\ procs \in 0..NDevices /\ next \in 0..NDevices
  /\ device \in [Devices -> {"absent", "starting", "on", "gone"}]
  /\ written \in [Teed -> Seq(Text)]
  /\ tee \in [Teed -> Nat] /\ \A d \in Teed : tee[d] <= Len(written[d])
  /\ reader \in [Devices -> {"none", "reading", "over"}]
  /\ phy \in {"none", "waiting", "running", "ended"}
  /\ log \in Seq(Teed \X Text)
  /\ closed \in BOOLEAN /\ late \in BOOLEAN /\ accepted \in BOOLEAN
  /\ Cardinality({c \in Cases : stage[c] \in Running}) <= parallel

BsimInit ==
  /\ parallel \in 1..2 /\ focus \in Cases
  /\ runner = "host_apps"
  /\ stage = [c \in Cases |-> "queued"] /\ status = [c \in Cases |-> "none"]
  /\ pass_fail = "stale" /\ exit = "none"
  /\ procs = 0 /\ next = 0
  /\ device = [d \in Devices |-> "absent"] /\ written = [d \in Teed |-> << >>]
  /\ tee = [d \in Teed |-> 0] /\ reader = [d \in Devices |-> "none"]
  /\ phy = "none" /\ log = << >> /\ closed = FALSE /\ late = FALSE
  /\ accepted = FALSE

At(s) == stage[focus] = s
Goto(s) == stage' = [stage EXCEPT ![focus] = s]

-----------------------------------------------------------------------------
(* The processes.                                                          *)

Connect(d) ==
  /\ device[d] = "starting" /\ phy # "ended"
  /\ device' = [device EXCEPT ![d] = "on"]
  /\ UNCHANGED <<configVars, resultVars, stage, written, threadVars, simVars>>

\* The phy waits for as many devices as it was told.
PhyRuns ==
  /\ phy = "waiting" /\ \A d \in Devices : device[d] = "on"
  /\ phy' = "running"
  /\ UNCHANGED <<configVars, resultVars, stage, deviceVars, threadVars, procs, next,
                 closed, late>>

PrintLine(d) ==
  /\ device[d] = "on" /\ phy = "running" /\ Len(written[d]) < MaxLines[d]
  /\ \E line \in Text : written' = [written EXCEPT ![d] = Append(@, line)]
  /\ UNCHANGED <<configVars, resultVars, stage, device, threadVars, simVars>>

\* It crashes, or it exits because the phy is gone.
Leave(d) ==
  /\ device[d] \in {"starting", "on"}
  /\ device' = [device EXCEPT ![d] = "gone"]
  /\ UNCHANGED <<configVars, resultVars, stage, written, threadVars, simVars>>

ProcessStep ==
  \/ \E d \in Devices : Connect(d) \/ Leave(d)
  \/ \E d \in Teed : PrintLine(d)
  \/ PhyRuns

-----------------------------------------------------------------------------
(* The reader threads.  A write to the closed log ends the thread.         *)

ReadLine(d) ==
  /\ reader[d] = "reading" /\ tee[d] < Len(written[d])
  /\ tee' = [tee EXCEPT ![d] = @ + 1]
  /\ IF closed
     THEN reader' = [reader EXCEPT ![d] = "over"] /\ UNCHANGED log
     ELSE log' = Append(log, <<d, written[d][tee'[d]]>>) /\ UNCHANGED reader
  /\ UNCHANGED <<configVars, resultVars, stage, deviceVars, simVars>>

EndOfOutput(d) ==
  /\ reader[d] = "reading" /\ device[d] = "gone"
  /\ d \in Teed => tee[d] = Len(written[d])
  /\ reader' = [reader EXCEPT ![d] = "over"]
  /\ UNCHANGED <<configVars, resultVars, stage, deviceVars, tee, log, simVars>>

ReaderStep ==
  \/ \E d \in Teed : ReadLine(d)
  \/ \E d \in Devices : EndOfOutput(d)

-----------------------------------------------------------------------------
(* run_case of the focus.                                                  *)

BuildAndStage ==
  /\ At("building")
  /\ Goto("spawning") \/ Goto("raised")
  /\ UNCHANGED <<configVars, resultVars, deviceVars, threadVars, simVars>>

\* A process that cannot be started leaves the ones before it behind.
Spawn ==
  /\ At("spawning") /\ procs < NDevices
  /\ \/ /\ procs' = procs + 1
        /\ device' = [device EXCEPT ![procs] = "starting"]
        /\ reader' = [reader EXCEPT ![procs] = "reading"]
        /\ UNCHANGED <<stage, closed>>
     \/ Goto("raised") /\ closed' = TRUE /\ UNCHANGED <<procs, device, reader>>
  /\ UNCHANGED <<configVars, resultVars, written, tee, log, phy, next, late>>

\* The same of a phy that cannot be started.
StartPhy ==
  /\ At("spawning") /\ procs = NDevices
  /\ \/ Goto("phy") /\ phy' = "waiting" /\ UNCHANGED closed
     \/ Goto("raised") /\ closed' = TRUE /\ UNCHANGED phy
  /\ UNCHANGED <<configVars, resultVars, deviceVars, threadVars, procs, next, late>>

\* The phy ends the simulation, or it is killed after its timeout.
PhyEnds ==
  /\ At("phy") /\ phy \in {"waiting", "running"}
  /\ Goto("reaping") /\ phy' = "ended" /\ next' = 0
  /\ UNCHANGED <<configVars, resultVars, deviceVars, threadVars, procs, closed, late>>

\* Mutant: a device that does not exit in time is left alone.
ReapGently ==
  /\ At("reaping") /\ next < NDevices
  /\ next' = next + 1
  /\ UNCHANGED <<configVars, resultVars, stage, deviceVars, threadVars, procs, phy, closed,
                 late>>

\* Mutant: the wait for a device has no timeout.
ReapPatiently ==
  /\ At("reaping") /\ next < NDevices
  /\ device[next] = "gone" /\ next' = next + 1
  /\ UNCHANGED <<configVars, resultVars, stage, deviceVars, threadVars, procs, phy, closed,
                 late>>

\* A device that does not exit in time is killed.
Reap ==
  /\ At("reaping") /\ next < NDevices
  /\ device' = [device EXCEPT ![next] = "gone"] /\ next' = next + 1
  /\ UNCHANGED <<configVars, resultVars, stage, written, threadVars, procs, phy, closed, late>>

StartJoining ==
  /\ At("reaping") /\ next = NDevices
  /\ Goto("joining") /\ next' = 0
  /\ UNCHANGED <<configVars, resultVars, deviceVars, threadVars, procs, phy, closed, late>>

\* A join that times out is not noticed.
Join ==
  /\ At("joining") /\ next < NDevices
  /\ next' = next + 1 /\ late' = (late \/ reader[next] # "over")
  /\ UNCHANGED <<configVars, resultVars, stage, deviceVars, threadVars, procs, phy, closed>>

CloseLog ==
  /\ At("joining") /\ next = NDevices
  /\ Goto("evaluating") /\ closed' = TRUE
  /\ UNCHANGED <<configVars, resultVars, deviceVars, threadVars, procs, phy, next, late>>

\* Device by device, whatever order the devices come in.
DeviceByDevice(parts) ==
  FlattenSeq([k \in 1..NDevices |-> IF k - 1 \in Teed THEN parts[k - 1] ELSE << >>])

\* A device's lines as the log has them: each begins with the device.
Labelled(d, lines) == [i \in DOMAIN lines |-> <<d, lines[i]>>]

\* The snapshot.
Snapshot == DeviceByDevice([d \in Teed |-> Labelled(d, Expected[d])])

\* The lines of one device, in the order of the log.
LinesOf(d, output) ==
  FlattenSeq([i \in DOMAIN output |-> IF output[i][1] = d THEN <<output[i]>> ELSE << >>])

\* Mutant: the log is compared as it was written.
Unsorted(output) == output

\* sort -s -t: -k1,1
Sorted(output) == DeviceByDevice([d \in Teed |-> LinesOf(d, output)])

\* Without a difference PASS, even if the case is pending.  Auto-accept makes
\* the filtered output the new snapshot.
Evaluate ==
  /\ At("evaluating") /\ Goto("ended")
  /\ \/ /\ Sorted(log) = Snapshot
        /\ status' = [status EXCEPT ![focus] = "PASS"] /\ UNCHANGED accepted
     \/ /\ Sorted(log) # Snapshot
        /\ \E pending, auto_accept \in BOOLEAN :
             /\ accepted' = (auto_accept /\ ~pending)
             /\ status' = [status EXCEPT ![focus] =
                  IF pending THEN "PENDING" ELSE IF auto_accept THEN "PASS" ELSE "FAILED"]
  /\ UNCHANGED <<configVars, runner, pass_fail, exit, deviceVars, threadVars, simVars>>

-----------------------------------------------------------------------------
(* The other cases, and the driver.                                        *)

OtherCase ==
  /\ \E c \in Cases : stage[c] = "working" /\
       \/ /\ stage' = [stage EXCEPT ![c] = "ended"]
          /\ \E verdict \in {"PASS", "FAILED", "PENDING"} :
               status' = [status EXCEPT ![c] = verdict]
       \/ stage' = [stage EXCEPT ![c] = "raised"] /\ UNCHANGED status
  /\ UNCHANGED <<configVars, runner, pass_fail, exit, accepted, deviceVars, threadVars, simVars>>

build_host_apps ==
  /\ runner = "host_apps"
  /\ \/ runner' = "cases" /\ UNCHANGED exit
     \/ runner' = "done" /\ exit' = "die"
  /\ UNCHANGED <<configVars, stage, status, pass_fail, accepted, deviceVars, threadVars, simVars>>

\* In order, `parallel' at a time.  One thread stops at the first exception;
\* the pool's threads go on until the main thread has met it.
StartCase ==
  /\ runner = "cases"
  /\ \E c \in Cases :
       /\ stage[c] = "queued" /\ \A i \in 1..(c - 1) : stage[i] # "queued"
       /\ Cardinality({i \in Cases : stage[i] \in Running}) < parallel
       /\ parallel = 1 => \A i \in Cases : stage[i] # "raised"
       /\ stage' = [stage EXCEPT ![c] = IF c = focus THEN "building" ELSE "working"]
  /\ UNCHANGED <<configVars, resultVars, deviceVars, threadVars, simVars>>

\* The main thread takes the results in order; the first exception cancels what
\* is queued, and the pool is left when what is running has ended.
MeetException ==
  /\ runner = "cases" /\ runner' = "raising"
  /\ \E c \in Cases : stage[c] = "raised" /\ \A i \in 1..(c - 1) : stage[i] = "ended"
  /\ stage' = [c \in Cases |-> IF stage[c] = "queued" THEN "cancelled" ELSE stage[c]]
  /\ UNCHANGED <<configVars, status, pass_fail, exit, accepted, deviceVars, threadVars, simVars>>

Die ==
  /\ runner = "raising" /\ \A c \in Cases : stage[c] \notin Running
  /\ runner' = "done" /\ exit' = "die"
  /\ UNCHANGED <<configVars, stage, status, pass_fail, accepted, deviceVars, threadVars, simVars>>

\* Mutant: a case that raised has no result and is passed over.
SummariseTheRest ==
  /\ runner = "cases" /\ \A c \in Cases : stage[c] \in {"ended", "raised"}
  /\ pass_fail' = "written" /\ runner' = "done"
  /\ exit' = IF \E c \in Cases : status[c] = "FAILED" THEN "die" ELSE "ok"
  /\ UNCHANGED <<configVars, stage, status, accepted, deviceVars, threadVars, simVars>>

\* pass-fail.log and the exit status.
Summarise ==
  /\ runner = "cases" /\ \A c \in Cases : stage[c] = "ended"
  /\ pass_fail' = "written" /\ runner' = "done"
  /\ exit' = IF \E c \in Cases : status[c] = "FAILED" THEN "die" ELSE "ok"
  /\ UNCHANGED <<configVars, stage, status, accepted, deviceVars, threadVars, simVars>>

RunnerStep ==
  \/ BuildAndStage \/ Spawn \/ StartPhy \/ PhyEnds \/ Reap \/ StartJoining \/ Join
  \/ CloseLog \/ Evaluate
DriverStep ==
  \/ OtherCase \/ build_host_apps \/ StartCase \/ MeetException \/ Die \/ Summarise

BsimNext == ProcessStep \/ ReaderStep \/ RunnerStep \/ DriverStep

\* Every wait of a simulation has a timeout, and the builds, which have none, are
\* taken to end, so that the runner's threads always get on; the devices and the
\* reader threads may stop for good at any point.
BsimSpec ==
  BsimInit /\ [][BsimNext]_bsimVars /\ WF_bsimVars(RunnerStep) /\ WF_bsimVars(DriverStep)

-----------------------------------------------------------------------------
\* The verdict is a matter of what each device printed, not of how the threads'
\* writes to the one log were interleaved: unless the snapshot was regenerated, a
\* case passes exactly if every device printed what the snapshot has of it, and
\* where a join timed out and a thread was left behind, only if what the snapshot
\* has is what every device printed first.
VerdictIsTheDevices ==
  stage[focus] = "ended" /\ ~accepted =>
    /\ ~late => (status[focus] = "PASS" <=> \A d \in Teed : written[d] = Expected[d])
    /\ status[focus] = "PASS" => \A d \in Teed : IsPrefix(Expected[d], written[d])

\* A run that has ended has no case still running in a pool thread, and a case
\* that was simulated to its end has no device still running: hung, waiting for
\* a phy that is gone, or never joined by a phy that waited for another.
NoOrphans ==
  runner = "done" =>
    /\ stage[focus] \notin Running
    /\ stage[focus] = "ended" => \A d \in Devices : device[d] = "gone"

\* What the run checks of the processes: no more cases run at a time than the
\* runner was told, none after its end, and no device outlives a simulation that
\* was carried through (those of a case that raised may).
BsimInvariant == BsimTypeOK /\ NoOrphans

\* "All BLE cases passed" is only printed if every case was evaluated and none
\* failed, and a pass-fail.log of this run has every case in it.
ExitIsHonest ==
  /\ exit = "ok" => \A c \in Cases : status[c] \in {"PASS", "PENDING"}
  /\ pass_fail = "written" => \A c \in Cases : status[c] # "none"

\* Every run ends, though devices hang and phys wait for what never comes.
RunnerEnds == <>(runner = "done")
=============================================================================
