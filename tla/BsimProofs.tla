----------------------------- MODULE BsimProofs ------------------------------
(***************************************************************************)
(* The bsim BLE tests.  The runner, for every number of cases and devices: *)
(* no process outlives the run, never more cases run than were asked for,  *)
(* and what the exit status and pass-fail.log say of the cases is so.      *)
(*                                                                         *)
(* The host of the Studio cases, ble-studio-host, for every case's         *)
(* requests, every payload and every cut of the frames into indications,   *)
(* whatever the stack refuses and however often the link drops: requests   *)
(* are in order and earned, frames are read as sent, and the announcement  *)
(* is true where nothing disturbs.                                         *)
(***************************************************************************)
EXTENDS BsimRunner, StudioHost, FramingLemmas, FiniteSetTheorems, TLAPS

-----------------------------------------------------------------------------
(* The runner: what its states have in common.                             *)

Stages == Running \cup {"queued", "ended", "raised", "cancelled"}
Statuses == {"none", "PASS", "FAILED", "PENDING"}

\* The focus is simulated step by step, the other cases are not.
FocusIsSimulated ==
  /\ stage[focus] # "working"
  /\ \A c \in Cases \ {focus} : stage[c] \notin Simulating \cup {"building"}

\* Before the host applications are built no case has begun, and when the runner
\* is done none is under way.
NoneBeforeNoneAfter ==
  /\ runner = "host_apps" => \A c \in Cases : stage[c] = "queued"
  /\ runner = "done" => \A c \in Cases : stage[c] \notin Running

\* The devices are gone as far as they have been reaped.
ReapedAreGone ==
  /\ At("reaping") => \A d \in Devices : d < next => device[d] = "gone"
  /\ stage[focus] \in {"joining", "evaluating", "ended"}
       => \A d \in Devices : device[d] = "gone"

\* A case that has ended has a verdict, and the summary comes after all of them.
SummaryIsLast ==
  /\ \A c \in Cases : stage[c] = "ended" => status[c] # "none"
  /\ exit = "ok" \/ pass_fail = "written"
       => runner = "done" /\ \A c \in Cases : stage[c] = "ended"
  /\ exit = "ok" => \A c \in Cases : status[c] # "FAILED"

RunnerInvariant ==
  BsimTypeOK /\ FocusIsSimulated /\ NoneBeforeNoneAfter /\ ReapedAreGone /\ SummaryIsLast

-----------------------------------------------------------------------------
RunningCases == {c \in Cases : stage[c] \in Running}

LEMMA CasesAreFinite == \A S \in SUBSET Cases : IsFiniteSet(S) /\ Cardinality(S) \in Nat
<1>1. NCases \in Int
  BY BsimAssumption DEF BsimAssumption
<1>2. IsFiniteSet(Cases)
  BY <1>1, FS_Interval DEF Cases
<1>3. ASSUME NEW S \in SUBSET Cases PROVE IsFiniteSet(S) /\ Cardinality(S) \in Nat
  <2>1. IsFiniteSet(S)
    BY <1>2, FS_Subset
  <2> QED
    BY <2>1, FS_CardinalityType
<1> QED
  BY <1>3

\* A step that starts no case leaves the pool within its bound.
LEMMA PoolStaysBounded ==
  ASSUME BsimTypeOK, UNCHANGED parallel,
         \A c \in Cases : stage'[c] \in Running => stage[c] \in Running
  PROVE  Cardinality(RunningCases') <= parallel'
<1>1. RunningCases' \subseteq RunningCases /\ RunningCases \subseteq Cases
  BY DEF RunningCases
<1>2. /\ IsFiniteSet(RunningCases) /\ Cardinality(RunningCases) \in Nat
      /\ IsFiniteSet(RunningCases') /\ Cardinality(RunningCases') \in Nat
  BY <1>1, CasesAreFinite
<1>3. Cardinality(RunningCases') <= Cardinality(RunningCases)
  BY <1>1, <1>2, FS_Subset
<1>4. Cardinality(RunningCases) <= parallel /\ parallel \in Nat
  BY DEF BsimTypeOK, RunningCases
<1> QED
  BY <1>2, <1>3, <1>4

\* A case is started only when there is room for it.
LEMMA StartKeepsBound ==
  ASSUME BsimTypeOK, UNCHANGED parallel, NEW c \in Cases, NEW s,
         stage' = [stage EXCEPT ![c] = s], Cardinality(RunningCases) < parallel
  PROVE  Cardinality(RunningCases') <= parallel'
<1>1. RunningCases' \subseteq RunningCases \cup {c} /\ RunningCases \subseteq Cases
  BY DEF RunningCases, BsimTypeOK
<1>2. IsFiniteSet(RunningCases) /\ Cardinality(RunningCases) \in Nat
  BY <1>1, CasesAreFinite
<1>3. /\ IsFiniteSet(RunningCases \cup {c})
      /\ Cardinality(RunningCases \cup {c}) <= Cardinality(RunningCases) + 1
  <2>1. Cardinality(RunningCases \cup {c})
          = IF c \in RunningCases THEN Cardinality(RunningCases)
                                  ELSE Cardinality(RunningCases) + 1
    BY <1>2, FS_AddElement
  <2>2. IsFiniteSet(RunningCases \cup {c})
    BY <1>2, FS_AddElement
  <2> QED
    BY <1>2, <2>1, <2>2
<1>4. /\ Cardinality(RunningCases') <= Cardinality(RunningCases \cup {c})
      /\ Cardinality(RunningCases') \in Nat /\ Cardinality(RunningCases \cup {c}) \in Nat
  <2>1. Cardinality(RunningCases') <= Cardinality(RunningCases \cup {c})
    BY <1>1, <1>3, FS_Subset
  <2>2. IsFiniteSet(RunningCases')
    BY <1>1, <1>3, FS_Subset
  <2> QED
    BY <1>3, <2>1, <2>2, FS_CardinalityType
<1>5. parallel \in Nat
  BY DEF BsimTypeOK
<1> QED
  BY <1>2, <1>3, <1>4, <1>5

-----------------------------------------------------------------------------
LEMMA RunnerInit == BsimInit => RunnerInvariant
<1> SUFFICES ASSUME BsimInit PROVE RunnerInvariant
  OBVIOUS
<1>1. {c \in Cases : stage[c] \in Running} = {}
  BY DEF BsimInit, Running, Simulating
<1>2. Cardinality({c \in Cases : stage[c] \in Running}) = 0
  BY <1>1, FS_EmptySet
<1>3. /\ procs \in 0..NDevices /\ next \in 0..NDevices
      /\ written \in [Teed -> Seq(Text)] /\ tee \in [Teed -> Nat]
      /\ \A d \in Teed : tee[d] <= Len(written[d])
      /\ log \in Seq(Teed \X Text)
  BY BsimAssumption DEF BsimInit, BsimAssumption
<1>4. stage \in [Cases -> Stages] /\ status \in [Cases -> Statuses]
      /\ device \in [Devices -> {"absent", "starting", "on", "gone"}]
      /\ reader \in [Devices -> {"none", "reading", "over"}]
  BY DEF BsimInit, Stages, Statuses, Teed
<1>5. BsimTypeOK
  <2>1. Cardinality({c \in Cases : stage[c] \in Running}) <= parallel
    BY <1>2 DEF BsimInit
  <2> QED
    BY <1>3, <1>4, <2>1 DEF BsimInit, BsimTypeOK, Stages, Statuses
<1> QED
  BY <1>5 DEF BsimInit, RunnerInvariant, FocusIsSimulated, NoneBeforeNoneAfter, ReapedAreGone,
    SummaryIsLast, Running, Simulating, At

-----------------------------------------------------------------------------
(* The processes and the threads.                                          *)

\* What touches neither the runner nor the cases, and revives no device.
LEMMA BystandersKeepInvariant ==
  ASSUME RunnerInvariant, UNCHANGED <<configVars, resultVars, stage, next>>, BsimTypeOK',
         \A d \in Devices : device[d] = "gone" => device'[d] = "gone"
  PROVE  RunnerInvariant'
<1>1. UNCHANGED <<focus, parallel, runner, status, pass_fail, exit, stage, next>>
  BY DEF configVars, resultVars
<1> QED
  BY <1>1 DEF RunnerInvariant, FocusIsSimulated, NoneBeforeNoneAfter, ReapedAreGone,
    SummaryIsLast, At

LEMMA ProcessKeepsInvariant ==
  ASSUME RunnerInvariant, ProcessStep
  PROVE  RunnerInvariant'
<1>1. /\ BsimTypeOK
      /\ UNCHANGED <<configVars, resultVars, stage, threadVars, procs, next, closed, late>>
  BY DEF RunnerInvariant, ProcessStep, Connect, PhyRuns, PrintLine, Leave, simVars, deviceVars
<1>2. device \in [Devices -> {"absent", "starting", "on", "gone"}]
  BY <1>1 DEF BsimTypeOK
<1>3. /\ device' \in [Devices -> {"absent", "starting", "on", "gone"}]
      /\ \A d \in Devices : device[d] = "gone" => device'[d] = "gone"
  BY <1>2 DEF ProcessStep, Connect, PhyRuns, PrintLine, Leave, deviceVars
<1>4. phy' \in {"none", "waiting", "running", "ended"}
  BY <1>1 DEF ProcessStep, Connect, PhyRuns, PrintLine, Leave, simVars, BsimTypeOK
<1>5. /\ written' \in [Teed -> Seq(Text)]
      /\ \A d \in Teed : Len(written[d]) <= Len(written'[d])
  <2>1. written \in [Teed -> Seq(Text)]
    BY <1>1 DEF BsimTypeOK
  <2>2. CASE UNCHANGED written
    BY <2>1, <2>2
  <2>3. ASSUME NEW d \in Teed, NEW line \in Text, written' = [written EXCEPT ![d] = Append(@, line)]
        PROVE  /\ written' \in [Teed -> Seq(Text)]
               /\ \A e \in Teed : Len(written[e]) <= Len(written'[e])
    <3>1. written[d] \in Seq(Text)
      BY <2>1
    <3>2. /\ Append(written[d], line) \in Seq(Text)
          /\ Len(Append(written[d], line)) = Len(written[d]) + 1
      BY <3>1
    <3>3. \A e \in Teed : written[e] \in Seq(Text) /\ Len(written[e]) \in Nat
      BY <2>1
    <3> QED
      BY <2>1, <2>3, <3>2, <3>3
  <2>4. \/ UNCHANGED written
        \/ \E d \in Teed, line \in Text : written' = [written EXCEPT ![d] = Append(@, line)]
    BY DEF ProcessStep, Connect, PhyRuns, PrintLine, Leave, deviceVars
  <2> QED
    BY <2>2, <2>3, <2>4
<1>6. tee' \in [Teed -> Nat] /\ \A d \in Teed : tee'[d] <= Len(written'[d])
  <2> SUFFICES ASSUME NEW d \in Teed PROVE tee[d] <= Len(written'[d])
    BY <1>1 DEF threadVars, BsimTypeOK
  <2>1. /\ tee[d] \in Nat /\ tee[d] <= Len(written[d])
        /\ written[d] \in Seq(Text) /\ written'[d] \in Seq(Text)
    BY <1>1, <1>5 DEF BsimTypeOK
  <2>2. Len(written[d]) \in Nat /\ Len(written'[d]) \in Nat /\ Len(written[d]) <= Len(written'[d])
    BY <1>5, <2>1
  <2> QED
    BY <2>1, <2>2
<1>7. BsimTypeOK'
  BY <1>1, <1>3, <1>4, <1>5, <1>6 DEF BsimTypeOK, configVars, resultVars, threadVars
<1> QED
  BY <1>1, <1>3, <1>7, BystandersKeepInvariant

LEMMA ReaderKeepsInvariant ==
  ASSUME RunnerInvariant, ReaderStep
  PROVE  RunnerInvariant'
<1>1. BsimTypeOK /\ UNCHANGED <<configVars, resultVars, stage, deviceVars, simVars>>
  BY DEF RunnerInvariant, ReaderStep, ReadLine, EndOfOutput
<1>2. reader' \in [Devices -> {"none", "reading", "over"}]
  BY <1>1 DEF BsimTypeOK, ReaderStep, ReadLine, EndOfOutput, Teed
<1>3. /\ tee' \in [Teed -> Nat] /\ \A d \in Teed : tee'[d] <= Len(written[d])
      /\ log' \in Seq(Teed \X Text)
  <2>1. CASE UNCHANGED <<tee, log>>
    BY <1>1, <2>1 DEF BsimTypeOK
  <2>2. ASSUME NEW d \in Teed, ReadLine(d)
        PROVE  /\ tee' \in [Teed -> Nat] /\ \A e \in Teed : tee'[e] <= Len(written[e])
               /\ log' \in Seq(Teed \X Text)
    <3>1. /\ written[d] \in Seq(Text) /\ Len(written[d]) \in Nat /\ tee \in [Teed -> Nat]
          /\ tee[d] < Len(written[d]) /\ tee' = [tee EXCEPT ![d] = @ + 1]
          /\ log \in Seq(Teed \X Text)
      BY <1>1, <2>2 DEF BsimTypeOK, ReadLine
    <3>2. /\ tee' \in [Teed -> Nat] /\ tee'[d] = tee[d] + 1
          /\ \A e \in Teed : e # d => tee'[e] = tee[e]
      BY <3>1
    <3>3. \A e \in Teed : tee'[e] <= Len(written[e])
      BY <1>1, <3>1, <3>2 DEF BsimTypeOK
    <3>4. UNCHANGED log \/ log' = Append(log, <<d, written[d][tee'[d]]>>)
      BY <2>2 DEF ReadLine
    <3>5. written[d][tee'[d]] \in Text
      BY <3>1, <3>2
    <3>6. <<d, written[d][tee'[d]]>> \in Teed \X Text
      BY <3>5
    <3>7. log' \in Seq(Teed \X Text)
      <4> DEFINE entry == <<d, written[d][tee'[d]]>>
                 Entry == Teed \X Text
      <4>1. entry \in Entry /\ log \in Seq(Entry)
        BY <3>1, <3>6
      <4>2. UNCHANGED log \/ log' = Append(log, entry)
        BY <3>4
      <4> HIDE DEF entry, Entry
      <4>3. log' \in Seq(Entry)
        BY <4>1, <4>2
      <4> QED
        BY <4>3 DEF Entry
    <3> QED
      BY <3>2, <3>3, <3>7
  <2> QED
    BY <2>1, <2>2 DEF ReaderStep, EndOfOutput
<1>4. BsimTypeOK'
  BY <1>1, <1>2, <1>3 DEF BsimTypeOK, configVars, resultVars, deviceVars, simVars
<1> QED
  BY <1>1, <1>4, BystandersKeepInvariant DEF deviceVars, simVars

-----------------------------------------------------------------------------
(* The runner, simulating the focus.                                       *)

\* The focus goes from one of its steps to another: no case starts or is lost.
LEMMA FocusStep ==
  ASSUME RunnerInvariant, UNCHANGED <<configVars, resultVars>>,
         NEW s \in Simulating \cup {"raised"}, Goto(s), stage[focus] \in Running
  PROVE  /\ stage' \in [Cases -> Stages] /\ stage'[focus] = s
         /\ FocusIsSimulated' /\ NoneBeforeNoneAfter' /\ SummaryIsLast'
         /\ Cardinality(RunningCases') <= parallel'
<1>1. /\ BsimTypeOK /\ focus \in Cases /\ stage \in [Cases -> Stages]
      /\ UNCHANGED <<focus, parallel, runner, status, pass_fail, exit>>
  BY DEF RunnerInvariant, BsimTypeOK, Stages, configVars, resultVars
<1>2. /\ stage' \in [Cases -> Stages] /\ stage'[focus] = s
      /\ \A c \in Cases : c # focus => stage'[c] = stage[c]
  BY <1>1 DEF Goto, Stages, Running
<1>3. runner # "host_apps" /\ runner # "done"
  BY <1>1 DEF RunnerInvariant, NoneBeforeNoneAfter, Running, Simulating
<1>4. NoneBeforeNoneAfter'
  BY <1>1, <1>3 DEF NoneBeforeNoneAfter
<1>5. FocusIsSimulated'
  BY <1>1, <1>2 DEF RunnerInvariant, FocusIsSimulated, Simulating
<1>6. SummaryIsLast'
  BY <1>1, <1>2, <1>3 DEF RunnerInvariant, SummaryIsLast, Simulating
<1>7. \A c \in Cases : stage'[c] \in Running => stage[c] \in Running
  BY <1>2
<1>8. Cardinality(RunningCases') <= parallel'
  BY <1>1, <1>7, PoolStaysBounded
<1> QED
  BY <1>2, <1>4, <1>5, <1>6, <1>8

\* The steps before anything is reaped.
LEMMA SpawningKeepsInvariant ==
  ASSUME RunnerInvariant, BuildAndStage \/ Spawn \/ StartPhy \/ PhyEnds
  PROVE  RunnerInvariant'
<1>1. /\ BsimTypeOK /\ focus \in Cases /\ stage \in [Cases -> Stages]
      /\ device \in [Devices -> {"absent", "starting", "on", "gone"}]
      /\ reader \in [Devices -> {"none", "reading", "over"}]
      /\ procs \in 0..NDevices /\ next \in 0..NDevices /\ NDevices \in Nat
  BY BsimAssumption DEF RunnerInvariant, BsimTypeOK, Stages, BsimAssumption
<1>2. /\ stage[focus] \in {"building", "spawning", "phy"} /\ stage[focus] \in Running
      /\ UNCHANGED <<configVars, resultVars, written, tee, log, late>>
      /\ UNCHANGED <<focus, parallel, runner, status, pass_fail, exit, accepted>>
  BY DEF BuildAndStage, Spawn, StartPhy, PhyEnds, At, deviceVars, threadVars, simVars, Running,
    Simulating, configVars, resultVars
<1>3. /\ device' \in [Devices -> {"absent", "starting", "on", "gone"}]
      /\ reader' \in [Devices -> {"none", "reading", "over"}]
      /\ phy' \in {"none", "waiting", "running", "ended"} /\ closed' \in BOOLEAN
  <2>1. CASE Spawn
    BY <1>1, <2>1 DEF Spawn, BsimTypeOK
  <2>2. CASE BuildAndStage \/ StartPhy \/ PhyEnds
    BY <2>2, <1>1 DEF BuildAndStage, StartPhy, PhyEnds, deviceVars, threadVars, simVars, BsimTypeOK
  <2> QED
    BY <2>1, <2>2
<1>4. procs' \in 0..NDevices /\ next' \in 0..NDevices
  <2>1. /\ \/ procs' = procs
           \/ procs < NDevices /\ procs' = procs + 1
        /\ next' = next \/ next' = 0
    <3>1. CASE Spawn
      BY <3>1 DEF Spawn
    <3>2. CASE BuildAndStage \/ StartPhy \/ PhyEnds
      BY <3>2 DEF BuildAndStage, StartPhy, PhyEnds, simVars
    <3> QED
      BY <3>1, <3>2
  <2> QED
    BY <1>1, <2>1
<1>5. CASE UNCHANGED stage
  <2>1. FocusIsSimulated' /\ NoneBeforeNoneAfter' /\ SummaryIsLast'
    BY <1>2, <1>5 DEF RunnerInvariant, FocusIsSimulated, NoneBeforeNoneAfter, SummaryIsLast
  <2>2. ReapedAreGone'
    BY <1>2, <1>5 DEF ReapedAreGone, At
  <2>3. BsimTypeOK'
    BY <1>1, <1>2, <1>3, <1>4, <1>5 DEF BsimTypeOK
  <2> QED
    BY <2>1, <2>2, <2>3 DEF RunnerInvariant
<1>6. ASSUME NEW s \in Simulating \cup {"raised"}, Goto(s),
             \/ s \in {"spawning", "raised", "phy"}
             \/ s = "reaping" /\ next' = 0
      PROVE  RunnerInvariant'
  <2>1. /\ stage' \in [Cases -> Stages] /\ stage'[focus] = s
        /\ FocusIsSimulated' /\ NoneBeforeNoneAfter' /\ SummaryIsLast'
        /\ Cardinality(RunningCases') <= parallel'
    BY <1>2, <1>6, FocusStep
  <2>2. ReapedAreGone'
    BY <1>2, <1>6, <2>1 DEF ReapedAreGone, At, Devices
  <2>3. BsimTypeOK'
    BY <1>1, <1>2, <1>3, <1>4, <2>1 DEF BsimTypeOK, RunningCases, Stages
  <2> QED
    BY <2>1, <2>2, <2>3 DEF RunnerInvariant
<1>7. \/ UNCHANGED stage
      \/ \E s \in Simulating \cup {"raised"} :
           /\ Goto(s)
           /\ \/ s \in {"spawning", "raised", "phy"}
              \/ s = "reaping" /\ next' = 0
  <2>1. CASE Spawn
    BY <2>1 DEF Spawn
  <2>2. CASE BuildAndStage \/ StartPhy \/ PhyEnds
    BY <2>2 DEF BuildAndStage, StartPhy, PhyEnds, Simulating
  <2> QED
    BY <2>1, <2>2
<1> QED
  BY <1>5, <1>6, <1>7

\* The devices are reaped one after the other, and then the threads are joined.
LEMMA ReapingKeepsInvariant ==
  ASSUME RunnerInvariant, Reap \/ StartJoining \/ Join \/ CloseLog
  PROVE  RunnerInvariant'
<1>1. /\ BsimTypeOK /\ focus \in Cases /\ stage \in [Cases -> Stages]
      /\ device \in [Devices -> {"absent", "starting", "on", "gone"}]
      /\ next \in 0..NDevices /\ NDevices \in Nat
  BY BsimAssumption DEF RunnerInvariant, BsimTypeOK, Stages, BsimAssumption
<1>2. /\ stage[focus] \in {"reaping", "joining"} /\ stage[focus] \in Running
      /\ UNCHANGED <<configVars, resultVars, written, threadVars, procs, phy>>
      /\ UNCHANGED <<focus, parallel, runner, status, pass_fail, exit, accepted, tee, reader, log>>
  BY DEF Reap, StartJoining, Join, CloseLog, At, deviceVars, threadVars, Running, Simulating,
    configVars, resultVars
<1>3. next' \in 0..NDevices
  <2>1. \/ next < NDevices /\ next' = next + 1
        \/ next' \in {0, next}
    BY DEF Reap, StartJoining, Join, CloseLog
  <2> QED
    BY <1>1, <2>1
<1>4. closed' \in BOOLEAN /\ late' \in BOOLEAN
  BY <1>1 DEF Reap, StartJoining, Join, CloseLog, BsimTypeOK
<1>5. CASE Reap
  <2>1. /\ UNCHANGED stage /\ stage[focus] = "reaping" /\ next < NDevices /\ next' = next + 1
        /\ device' = [device EXCEPT ![next] = "gone"]
    BY <1>5 DEF Reap, At
  <2>2. /\ device' \in [Devices -> {"absent", "starting", "on", "gone"}]
        /\ \A d \in Devices : device'[d] = IF d = next THEN "gone" ELSE device[d]
    BY <1>1, <2>1
  <2>3. ASSUME NEW d \in Devices, d < next + 1 PROVE device'[d] = "gone"
    <3>1. d = next \/ d < next
      BY <1>1, <2>3 DEF Devices
    <3> QED
      BY <2>1, <2>2, <3>1 DEF RunnerInvariant, ReapedAreGone, At
  <2>4. ReapedAreGone'
    BY <1>2, <2>1, <2>3 DEF ReapedAreGone, At
  <2>5. FocusIsSimulated' /\ NoneBeforeNoneAfter' /\ SummaryIsLast'
    BY <1>2, <2>1 DEF RunnerInvariant, FocusIsSimulated, NoneBeforeNoneAfter, SummaryIsLast
  <2>6. BsimTypeOK'
    BY <1>1, <1>2, <1>3, <1>4, <2>1, <2>2 DEF BsimTypeOK
  <2> QED
    BY <2>4, <2>5, <2>6 DEF RunnerInvariant
<1>6. CASE StartJoining \/ Join \/ CloseLog
  <2>1. \A d \in Devices : device[d] = "gone"
    <3>1. CASE StartJoining
      BY <1>1, <3>1 DEF StartJoining, RunnerInvariant, ReapedAreGone, At, Devices
    <3>2. CASE Join \/ CloseLog
      BY <3>2 DEF Join, CloseLog, RunnerInvariant, ReapedAreGone, At
    <3> QED
      BY <1>6, <3>1, <3>2
  <2>2. UNCHANGED device
    BY <1>6 DEF StartJoining, Join, CloseLog, deviceVars
  <2>3. ReapedAreGone'
    BY <2>1, <2>2 DEF ReapedAreGone
  <2>4. CASE UNCHANGED stage
    <3>1. FocusIsSimulated' /\ NoneBeforeNoneAfter' /\ SummaryIsLast'
      BY <1>2, <2>4 DEF RunnerInvariant, FocusIsSimulated, NoneBeforeNoneAfter, SummaryIsLast
    <3>2. BsimTypeOK'
      BY <1>1, <1>2, <1>3, <1>4, <2>2, <2>4 DEF BsimTypeOK
    <3> QED
      BY <2>3, <3>1, <3>2 DEF RunnerInvariant
  <2>5. ASSUME NEW s \in {"joining", "evaluating"}, Goto(s) PROVE RunnerInvariant'
    <3>1. /\ stage' \in [Cases -> Stages]
          /\ FocusIsSimulated' /\ NoneBeforeNoneAfter' /\ SummaryIsLast'
          /\ Cardinality(RunningCases') <= parallel'
      BY <1>2, <2>5, FocusStep DEF Simulating
    <3>2. BsimTypeOK'
      BY <1>1, <1>2, <1>3, <1>4, <2>2, <3>1 DEF BsimTypeOK, RunningCases, Stages
    <3> QED
      BY <2>3, <3>1, <3>2 DEF RunnerInvariant
  <2> QED
    BY <1>6, <2>4, <2>5 DEF StartJoining, Join, CloseLog
<1> QED
  BY <1>5, <1>6

\* A verdict of a case that was running.
LEMMA VerdictKeepsInvariant ==
  ASSUME RunnerInvariant, NEW c \in Cases, stage[c] \in {"evaluating", "working"},
         NEW s \in {"ended", "raised"}, stage' = [stage EXCEPT ![c] = s],
         \/ \E verdict \in {"PASS", "FAILED", "PENDING"} : status' = [status EXCEPT ![c] = verdict]
         \/ s = "raised" /\ UNCHANGED status,
         accepted' \in BOOLEAN,
         UNCHANGED <<configVars, runner, pass_fail, exit, deviceVars, threadVars, simVars>>
  PROVE  RunnerInvariant'
<1>1. /\ BsimTypeOK /\ focus \in Cases /\ stage \in [Cases -> Stages]
      /\ status \in [Cases -> Statuses]
      /\ UNCHANGED <<focus, parallel, runner, pass_fail, exit, next, device>>
  BY DEF RunnerInvariant, BsimTypeOK, Stages, Statuses, configVars, deviceVars, simVars
<1>2. /\ stage' \in [Cases -> Stages] /\ stage'[c] = s
      /\ \A i \in Cases : i # c => stage'[i] = stage[i]
  BY <1>1 DEF Stages
<1>3. /\ status' \in [Cases -> Statuses] /\ (s = "ended" => status'[c] # "none")
      /\ \A i \in Cases : i # c => status'[i] = status[i]
  BY <1>1 DEF Statuses
<1>4. runner # "host_apps" /\ runner # "done" /\ exit # "ok" /\ pass_fail # "written"
  BY DEF RunnerInvariant, NoneBeforeNoneAfter, SummaryIsLast, Running, Simulating
<1>5. \A i \in Cases : stage'[i] \in Running => stage[i] \in Running
  BY <1>2 DEF Running, Simulating
<1>6. Cardinality(RunningCases') <= parallel'
  BY <1>1, <1>5, PoolStaysBounded
<1>7. BsimTypeOK'
  <2>1. Cardinality({i \in Cases : stage'[i] \in Running}) <= parallel'
    BY <1>6 DEF RunningCases
  <2>2. /\ stage' \in [Cases -> Running \cup {"queued", "ended", "raised", "cancelled"}]
        /\ status' \in [Cases -> {"none", "PASS", "FAILED", "PENDING"}]
    BY <1>2, <1>3 DEF Stages, Statuses
  <2> QED
    BY <1>1, <2>1, <2>2 DEF BsimTypeOK, configVars, deviceVars, threadVars, simVars
<1>8. FocusIsSimulated' /\ NoneBeforeNoneAfter' /\ SummaryIsLast'
  BY <1>1, <1>2, <1>3, <1>4 DEF RunnerInvariant, FocusIsSimulated, NoneBeforeNoneAfter,
    SummaryIsLast, Simulating
<1>9. ReapedAreGone'
  <2>1. CASE c = focus
    <3>1. stage[focus] = "evaluating"
      BY <2>1 DEF RunnerInvariant, FocusIsSimulated
    <3> QED
      BY <1>1, <1>2, <2>1, <3>1 DEF RunnerInvariant, ReapedAreGone, At
  <2>2. CASE c # focus
    BY <1>1, <1>2, <2>2 DEF RunnerInvariant, ReapedAreGone, At
  <2> QED
    BY <2>1, <2>2
<1> QED
  BY <1>7, <1>8, <1>9 DEF RunnerInvariant

LEMMA EvaluateKeepsInvariant ==
  ASSUME RunnerInvariant, Evaluate
  PROVE  RunnerInvariant'
<1>1. /\ focus \in Cases /\ stage[focus] = "evaluating" /\ accepted \in BOOLEAN
      /\ stage' = [stage EXCEPT ![focus] = "ended"]
      /\ UNCHANGED <<configVars, runner, pass_fail, exit, deviceVars, threadVars, simVars>>
  BY DEF Evaluate, At, Goto, RunnerInvariant, BsimTypeOK
<1>2. /\ accepted' \in BOOLEAN
      /\ \E verdict \in {"PASS", "FAILED", "PENDING"} : status' = [status EXCEPT ![focus] = verdict]
  <2>1. CASE status' = [status EXCEPT ![focus] = "PASS"] /\ UNCHANGED accepted
    BY <1>1, <2>1
  <2>2. ASSUME NEW pending \in BOOLEAN, NEW auto_accept \in BOOLEAN,
               accepted' = (auto_accept /\ ~pending),
               status' = [status EXCEPT ![focus] =
                 IF pending THEN "PENDING" ELSE IF auto_accept THEN "PASS" ELSE "FAILED"]
        PROVE  /\ accepted' \in BOOLEAN
               /\ \E verdict \in {"PASS", "FAILED", "PENDING"} :
                    status' = [status EXCEPT ![focus] = verdict]
    BY <2>2
  <2> QED
    BY <2>1, <2>2 DEF Evaluate
<1> QED
  BY <1>1, <1>2, VerdictKeepsInvariant

-----------------------------------------------------------------------------
(* The driver.                                                             *)

\* Nothing of the simulation changes.
LEMMA DriverKeepsTypes ==
  ASSUME BsimTypeOK, UNCHANGED <<configVars, deviceVars, threadVars, simVars, accepted>>,
         stage' \in [Cases -> Stages], status' \in [Cases -> Statuses],
         runner' \in {"host_apps", "cases", "raising", "done"},
         pass_fail' \in {"stale", "written"}, exit' \in {"none", "ok", "die"},
         Cardinality(RunningCases') <= parallel'
  PROVE  BsimTypeOK'
BY DEF BsimTypeOK, configVars, deviceVars, threadVars, simVars, Stages, Statuses, RunningCases

LEMMA DriverKeepsInvariant ==
  ASSUME RunnerInvariant, DriverStep
  PROVE  RunnerInvariant'
<1>1. /\ BsimTypeOK /\ focus \in Cases /\ stage \in [Cases -> Stages]
      /\ status \in [Cases -> Statuses] /\ accepted \in BOOLEAN
      /\ runner \in {"host_apps", "cases", "raising", "done"}
      /\ pass_fail \in {"stale", "written"} /\ exit \in {"none", "ok", "die"}
  BY DEF RunnerInvariant, BsimTypeOK, Stages, Statuses
<1>2. /\ UNCHANGED <<configVars, deviceVars, threadVars, simVars>>
      /\ UNCHANGED <<focus, parallel, next, device>>
  BY DEF DriverStep, OtherCase, build_host_apps, StartCase, MeetException, Die, Summarise,
    configVars, deviceVars, simVars
<1>3. CASE OtherCase
  <2>1. PICK c \in Cases : /\ stage[c] = "working"
                           /\ \/ /\ stage' = [stage EXCEPT ![c] = "ended"]
                                 /\ \E verdict \in {"PASS", "FAILED", "PENDING"} :
                                      status' = [status EXCEPT ![c] = verdict]
                              \/ stage' = [stage EXCEPT ![c] = "raised"] /\ UNCHANGED status
    BY <1>3 DEF OtherCase
  <2>2. UNCHANGED <<configVars, runner, pass_fail, exit, accepted, deviceVars, threadVars, simVars>>
    BY <1>3 DEF OtherCase
  <2> QED
    BY <1>1, <2>1, <2>2, VerdictKeepsInvariant
<1>4. CASE UNCHANGED <<stage, status, accepted>>
  <2>1. Cardinality(RunningCases') <= parallel'
    BY <1>1, <1>2, <1>4, PoolStaysBounded
  <2>2. FocusIsSimulated' /\ ReapedAreGone'
    BY <1>2, <1>4 DEF RunnerInvariant, FocusIsSimulated, ReapedAreGone, At
  <2>3. CASE build_host_apps
    <3>1. /\ runner = "host_apps" /\ UNCHANGED pass_fail
          /\ \/ runner' = "cases" /\ UNCHANGED exit
             \/ runner' = "done" /\ exit' = "die"
      BY <2>3 DEF build_host_apps
    <3>2. BsimTypeOK'
      BY <1>1, <1>2, <1>4, <2>1, <3>1, DriverKeepsTypes
    <3>3. NoneBeforeNoneAfter' /\ SummaryIsLast'
      BY <1>4, <3>1 DEF RunnerInvariant, NoneBeforeNoneAfter, SummaryIsLast, Running, Simulating
    <3> QED
      BY <2>2, <3>2, <3>3 DEF RunnerInvariant
  <2>4. CASE Die
    <3>1. /\ runner = "raising" /\ runner' = "done" /\ exit' = "die" /\ UNCHANGED pass_fail
          /\ \A c \in Cases : stage[c] \notin Running
      BY <2>4 DEF Die
    <3>2. BsimTypeOK'
      BY <1>1, <1>2, <1>4, <2>1, <3>1, DriverKeepsTypes
    <3>3. NoneBeforeNoneAfter' /\ SummaryIsLast'
      BY <1>4, <3>1 DEF RunnerInvariant, NoneBeforeNoneAfter, SummaryIsLast
    <3> QED
      BY <2>2, <3>2, <3>3 DEF RunnerInvariant
  <2>5. CASE Summarise
    <3>1. /\ runner' = "done" /\ pass_fail' = "written" /\ exit' \in {"ok", "die"}
          /\ \A c \in Cases : stage[c] = "ended"
          /\ exit' = "ok" => \A c \in Cases : status[c] # "FAILED"
      BY <2>5 DEF Summarise
    <3>2. BsimTypeOK'
      BY <1>1, <1>2, <1>4, <2>1, <3>1, DriverKeepsTypes
    <3>3. NoneBeforeNoneAfter' /\ SummaryIsLast'
      BY <1>4, <3>1 DEF RunnerInvariant, NoneBeforeNoneAfter, SummaryIsLast, Running, Simulating
    <3> QED
      BY <2>2, <3>2, <3>3 DEF RunnerInvariant
  <2>6. CASE OtherCase \/ StartCase \/ MeetException
    <3>1. StartCase => ~UNCHANGED stage
      BY <1>1 DEF StartCase
    <3>2. OtherCase => ~UNCHANGED stage
      BY <1>1 DEF OtherCase
    <3>3. MeetException => /\ runner' = "raising" /\ runner = "cases"
                           /\ UNCHANGED <<pass_fail, exit>>
      BY DEF MeetException
    <3>4. MeetException => BsimTypeOK'
      BY <1>1, <1>2, <1>4, <2>1, <3>3, DriverKeepsTypes
    <3>5. MeetException => NoneBeforeNoneAfter' /\ SummaryIsLast'
      BY <1>4, <3>3 DEF RunnerInvariant, NoneBeforeNoneAfter, SummaryIsLast
    <3> QED
      BY <1>4, <2>2, <2>6, <3>1, <3>2, <3>4, <3>5 DEF RunnerInvariant
  <2> QED
    BY <2>3, <2>4, <2>5, <2>6 DEF DriverStep
<1>5. CASE StartCase
  <2>1. PICK c \in Cases :
          /\ stage[c] = "queued" /\ Cardinality(RunningCases) < parallel
          /\ stage' = [stage EXCEPT ![c] = IF c = focus THEN "building" ELSE "working"]
    BY <1>5 DEF StartCase, RunningCases
  <2>2. runner = "cases" /\ UNCHANGED <<runner, status, pass_fail, exit, accepted>>
    BY <1>5 DEF StartCase, resultVars
  <2>3. /\ stage' \in [Cases -> Stages]
        /\ stage'[c] = IF c = focus THEN "building" ELSE "working"
        /\ \A i \in Cases : i # c => stage'[i] = stage[i]
    BY <1>1, <2>1 DEF Stages, Running
  <2>4. Cardinality(RunningCases') <= parallel'
    BY <1>1, <1>2, <2>1, StartKeepsBound
  <2>5. BsimTypeOK'
    BY <1>1, <1>2, <2>2, <2>3, <2>4, DriverKeepsTypes
  <2>6. FocusIsSimulated'
    BY <1>1, <1>2, <2>3 DEF RunnerInvariant, FocusIsSimulated, Simulating
  <2>7. NoneBeforeNoneAfter' /\ SummaryIsLast'
    BY <2>2, <2>3 DEF RunnerInvariant, NoneBeforeNoneAfter, SummaryIsLast
  <2>8. ReapedAreGone'
    BY <1>1, <1>2, <2>3 DEF RunnerInvariant, ReapedAreGone, At
  <2> QED
    BY <2>5, <2>6, <2>7, <2>8 DEF RunnerInvariant
<1>6. CASE MeetException
  <2>1. /\ runner = "cases" /\ runner' = "raising"
        /\ UNCHANGED <<status, pass_fail, exit, accepted>>
        /\ stage' = [c \in Cases |-> IF stage[c] = "queued" THEN "cancelled" ELSE stage[c]]
    BY <1>6 DEF MeetException
  <2>2. /\ stage' \in [Cases -> Stages]
        /\ \A c \in Cases : stage'[c] = stage[c] \/ stage'[c] = "cancelled"
    BY <1>1, <2>1 DEF Stages
  <2>3. Cardinality(RunningCases') <= parallel'
    <3>1. \A c \in Cases : stage'[c] \in Running => stage[c] \in Running
      BY <2>2 DEF Running, Simulating
    <3> QED
      BY <1>1, <1>2, <3>1, PoolStaysBounded
  <2>4. BsimTypeOK'
    BY <1>1, <1>2, <2>1, <2>2, <2>3, DriverKeepsTypes
  <2>5. FocusIsSimulated'
    BY <1>1, <1>2, <2>2 DEF RunnerInvariant, FocusIsSimulated, Simulating
  <2>6. NoneBeforeNoneAfter' /\ SummaryIsLast'
    BY <2>1, <2>2 DEF RunnerInvariant, NoneBeforeNoneAfter, SummaryIsLast
  <2>7. ReapedAreGone'
    BY <1>1, <1>2, <2>2 DEF RunnerInvariant, ReapedAreGone, At
  <2> QED
    BY <2>4, <2>5, <2>6, <2>7 DEF RunnerInvariant
<1>7. CASE build_host_apps \/ Die \/ Summarise
  BY <1>4, <1>7 DEF build_host_apps, Die, Summarise
<1> QED
  BY <1>3, <1>5, <1>6, <1>7 DEF DriverStep

-----------------------------------------------------------------------------
LEMMA StepKeepsInvariant ==
  RunnerInvariant /\ [BsimNext]_bsimVars => RunnerInvariant'
<1> SUFFICES ASSUME RunnerInvariant, [BsimNext]_bsimVars PROVE RunnerInvariant'
  OBVIOUS
<1>1. CASE ProcessStep
  BY <1>1, ProcessKeepsInvariant
<1>2. CASE ReaderStep
  BY <1>2, ReaderKeepsInvariant
<1>3. CASE RunnerStep
  BY <1>3, SpawningKeepsInvariant, ReapingKeepsInvariant, EvaluateKeepsInvariant DEF RunnerStep
<1>4. CASE DriverStep
  BY <1>4, DriverKeepsInvariant
<1>5. CASE UNCHANGED bsimVars
  <2>1. BsimTypeOK'
    BY <1>5 DEF RunnerInvariant, BsimTypeOK, bsimVars, configVars, resultVars, deviceVars,
      threadVars, simVars
  <2> QED
    BY <1>5, <2>1, BystandersKeepInvariant DEF bsimVars, deviceVars, simVars
<1> QED
  BY <1>1, <1>2, <1>3, <1>4, <1>5 DEF BsimNext

LEMMA RunnerInvariantHolds == BsimSpec => []RunnerInvariant
BY RunnerInit, StepKeepsInvariant, PTL DEF BsimSpec

\* When the runner is done no case is still being simulated and no device of a
\* case simulated to its end still runs; at no time do more cases run than the
\* pool has threads.
THEOREM NothingOutlivesTheRun == BsimSpec => []BsimInvariant
<1>1. RunnerInvariant => BsimInvariant
  <2> SUFFICES ASSUME RunnerInvariant PROVE BsimInvariant
    OBVIOUS
  <2>1. BsimTypeOK /\ focus \in Cases
    BY DEF RunnerInvariant, BsimTypeOK
  <2>2. NoOrphans
    BY <2>1 DEF RunnerInvariant, NoneBeforeNoneAfter, ReapedAreGone, NoOrphans
  <2> QED
    BY <2>1, <2>2 DEF BsimInvariant
<1> QED
  BY <1>1, RunnerInvariantHolds, PTL

\* "All BLE cases passed" is said only of cases that were all evaluated, none of
\* them a failure, and a pass-fail.log of this run has every case in it, however
\* the pool's threads end and whatever they raise.
THEOREM BsimExitIsHonest == BsimSpec => []ExitIsHonest
<1>1. RunnerInvariant => ExitIsHonest
  <2> SUFFICES ASSUME RunnerInvariant PROVE ExitIsHonest
    OBVIOUS
  <2>1. status \in [Cases -> Statuses]
    BY DEF RunnerInvariant, BsimTypeOK, Statuses
  <2> QED
    BY <2>1 DEF RunnerInvariant, SummaryIsLast, ExitIsHonest, Statuses
<1> QED
  BY <1>1, RunnerInvariantHolds, PTL

-----------------------------------------------------------------------------
(* Sorting the log by device.                                              *)

Entry == Teed \X Text

\* Selecting the lines of a device is mapping each line to itself or to nothing.
LEMMA LinesOfIs ==
  ASSUME NEW d
  PROVE  /\ LinesOf(d, << >>) = << >>
         /\ \A x \in Entry : LinesOf(d, <<x>>) = IF x[1] = d THEN <<x>> ELSE << >>
         /\ \A s \in Seq(Entry) : LinesOf(d, s) \in Seq(Entry)
         /\ \A s, t \in Seq(Entry) : LinesOf(d, s \o t) = LinesOf(d, s) \o LinesOf(d, t)
<1> DEFINE g == [x \in Entry |-> IF x[1] = d THEN <<x>> ELSE << >>]
<1>1. g \in [Entry -> Seq(Entry)]
  OBVIOUS
<1>2. ASSUME NEW s \in Seq(Entry) PROVE LinesOf(d, s) = FlatMap(g, s)
  <2>1. \A i \in DOMAIN s : s[i] \in Entry
    OBVIOUS
  <2>2. [i \in DOMAIN s |-> IF s[i][1] = d THEN <<s[i]>> ELSE << >>]
          = [i \in DOMAIN s |-> g[s[i]]]
    BY <2>1
  <2> QED
    BY <2>2 DEF LinesOf, FlatMap
<1>3. \A x \in Entry : g[x] = IF x[1] = d THEN <<x>> ELSE << >>
  OBVIOUS
<1> HIDE DEF g
<1>4. /\ FlatMap(g, << >>) = << >>
      /\ \A x \in Entry : FlatMap(g, <<x>>) = g[x]
      /\ \A s \in Seq(Entry) : FlatMap(g, s) \in Seq(Entry)
      /\ \A s, t \in Seq(Entry) : FlatMap(g, s \o t) = FlatMap(g, s) \o FlatMap(g, t)
  <2>1. FlatMap(g, << >>) = << >> /\ \A x \in Entry : FlatMap(g, <<x>>) = g[x]
    BY <1>1, FlatMapJoins
  <2>2. \A s \in Seq(Entry) : FlatMap(g, s) \in Seq(Entry)
    BY <1>1, FlatMapJoins
  <2>3. \A s, t \in Seq(Entry) : FlatMap(g, s \o t) = FlatMap(g, s) \o FlatMap(g, t)
    <3> SUFFICES ASSUME NEW s \in Seq(Entry), NEW t \in Seq(Entry)
                 PROVE  FlatMap(g, s \o t) = FlatMap(g, s) \o FlatMap(g, t)
      OBVIOUS
    <3>1. MapsTo(g, Entry, Entry)
      BY <1>1 DEF MapsTo
    <3>2. MapsJoined(g, s, t)
      BY <3>1, FlatMapOfConcat
    <3> QED
      BY <3>2 DEF MapsJoined
  <2> QED
    BY <2>1, <2>2, <2>3
<1>5. LinesOf(d, << >>) = << >>
  <2>1. << >> \in Seq(Entry)
    OBVIOUS
  <2> QED
    BY <1>2, <1>4, <2>1
<1>6. ASSUME NEW x \in Entry PROVE LinesOf(d, <<x>>) = IF x[1] = d THEN <<x>> ELSE << >>
  <2>1. <<x>> \in Seq(Entry)
    OBVIOUS
  <2>2. LinesOf(d, <<x>>) = FlatMap(g, <<x>>)
    BY <1>2, <2>1
  <2>3. FlatMap(g, <<x>>) = g[x]
    BY <1>4
  <2> QED
    BY <1>3, <2>2, <2>3
<1>7. ASSUME NEW s \in Seq(Entry), NEW t \in Seq(Entry)
      PROVE  LinesOf(d, s \o t) = LinesOf(d, s) \o LinesOf(d, t)
  <2>1. s \o t \in Seq(Entry)
    OBVIOUS
  <2> QED
    BY <1>2, <1>4, <2>1
<1>8. ASSUME NEW s \in Seq(Entry) PROVE LinesOf(d, s) \in Seq(Entry)
  BY <1>2, <1>4
<1> QED
  BY <1>5, <1>6, <1>7, <1>8

\* A labelled line more.
LEMMA LabelMore ==
  ASSUME NEW e \in Teed, NEW lines \in Seq(Text), NEW line \in Text
  PROVE  /\ Labelled(e, lines) \in Seq(Entry) /\ Len(Labelled(e, lines)) = Len(lines)
         /\ \A i \in 1..Len(lines) : Labelled(e, lines)[i] = <<e, lines[i]>>
         /\ Labelled(e, Append(lines, line)) = Labelled(e, lines) \o <<<<e, line>>>>
         /\ <<e, line>> \in Entry
<1>1. ASSUME NEW ls \in Seq(Text)
      PROVE  /\ Labelled(e, ls) \in Seq(Entry) /\ Len(Labelled(e, ls)) = Len(ls)
             /\ Len(ls) \in Nat
             /\ \A i \in 1..Len(ls) : Labelled(e, ls)[i] = <<e, ls[i]>>
  <2>1. DOMAIN ls = 1..Len(ls) /\ Len(ls) \in Nat /\ \A i \in 1..Len(ls) : ls[i] \in Text
    OBVIOUS
  <2>2. \A i \in 1..Len(ls) : <<e, ls[i]>> \in Entry
    BY <2>1 DEF Entry
  <2> QED
    BY <2>1, <2>2 DEF Labelled
<1>2. <<e, line>> \in Entry
  BY DEF Entry
<1>3. Labelled(e, Append(lines, line)) = Labelled(e, lines) \o <<<<e, line>>>>
  <2> DEFINE x == Labelled(e, Append(lines, line))
             y == Labelled(e, lines)
             z == <<<<e, line>>>>
             yz == y \o z
             n == Len(lines)
  <2>1. /\ n \in Nat /\ Append(lines, line) \in Seq(Text) /\ Len(Append(lines, line)) = n + 1
        /\ \A i \in 1..n : Append(lines, line)[i] = lines[i]
        /\ Append(lines, line)[n + 1] = line
    OBVIOUS
  <2>2. /\ x \in Seq(Entry) /\ Len(x) = n + 1
        /\ \A i \in 1..(n + 1) : x[i] = <<e, Append(lines, line)[i]>>
    BY <1>1, <2>1
  <2>3. y \in Seq(Entry) /\ Len(y) = n /\ \A i \in 1..n : y[i] = <<e, lines[i]>>
    BY <1>1
  <2>4. z \in Seq(Entry) /\ Len(z) = 1 /\ z[1] = <<e, line>>
    BY <1>2
  <2> HIDE DEF x, y, z
  <2>5. Concatenates(Entry, y, z, yz)
    BY <2>3, <2>4, PartsOfConcat
  <2> HIDE DEF yz, n
  <2>6. /\ yz \in Seq(Entry) /\ Len(yz) = n + 1
        /\ \A i \in 1..n : yz[i] = y[i]
        /\ \A i \in 1..1 : yz[n + i] = z[i]
    BY <2>3, <2>4, <2>5 DEF Concatenates
  <2>7. ASSUME NEW i \in 1..(n + 1) PROVE x[i] = yz[i]
    <3>1. CASE i \in 1..n
      <4>1. x[i] = <<e, lines[i]>>
        BY <2>1, <2>2, <3>1
      <4>2. yz[i] = <<e, lines[i]>>
        BY <2>3, <2>6, <3>1
      <4> QED
        BY <4>1, <4>2
    <3>2. CASE i = n + 1
      <4>1. x[i] = <<e, line>>
        BY <2>1, <2>2, <3>2
      <4>2. yz[n + 1] = z[1]
        BY <2>6, 1 \in 1..1
      <4> QED
        BY <2>4, <3>2, <4>1, <4>2
    <3>3. n \in Nat
      BY <2>1
    <3> QED
      BY <3>1, <3>2, <3>3
  <2>8. x = yz
    BY <2>2, <2>6, <2>7, SeqEqual
  <2> QED
    BY <2>8 DEF x, yz, y, z
<1> QED
  BY <1>1, <1>2, <1>3

\* Labels tell devices apart, and lines of one device.
LEMMA LabelsTell ==
  /\ \A e \in Teed : \A s \in Seq(Text) : Labelled(e, s) \in Seq(Entry)
  /\ \A e \in Teed : \A s, t \in Seq(Text) : Labelled(e, s) = Labelled(e, t) => s = t
  /\ \A d : \A e \in Teed : \A s \in Seq(Text) :
       LinesOf(d, Labelled(e, s)) = IF d = e THEN Labelled(e, s) ELSE << >>
<1>1. ASSUME NEW e \in Teed, NEW s \in Seq(Text)
      PROVE  /\ Labelled(e, s) \in Seq(Entry) /\ Len(Labelled(e, s)) = Len(s)
             /\ Len(s) \in Nat
             /\ \A i \in 1..Len(s) : Labelled(e, s)[i] = <<e, s[i]>>
  <2>1. DOMAIN s = 1..Len(s) /\ Len(s) \in Nat /\ \A i \in 1..Len(s) : s[i] \in Text
    OBVIOUS
  <2>2. \A i \in 1..Len(s) : <<e, s[i]>> \in Entry
    BY <2>1 DEF Entry
  <2> QED
    BY <2>1, <2>2 DEF Labelled
<1>2. ASSUME NEW e \in Teed, NEW s \in Seq(Text), NEW t \in Seq(Text),
             Labelled(e, s) = Labelled(e, t)
      PROVE  s = t
  <2>1. Len(s) = Len(t)
    <3>1. Len(Labelled(e, s)) = Len(s) /\ Len(Labelled(e, t)) = Len(t)
      BY <1>1
    <3> QED
      BY <1>2, <3>1
  <2>2. ASSUME NEW i \in 1..Len(s) PROVE s[i] = t[i]
    <3>1. Labelled(e, s)[i] = <<e, s[i]>> /\ Labelled(e, t)[i] = <<e, t[i]>>
      BY <1>1, <2>1
    <3> QED
      BY <1>2, <3>1
  <2> QED
    BY <2>1, <2>2, SeqEqual
<1>3. ASSUME NEW d, NEW e \in Teed, NEW s \in Seq(Text)
      PROVE  LinesOf(d, Labelled(e, s)) = IF d = e THEN Labelled(e, s) ELSE << >>
  <2> DEFINE want(u) == IF d = e THEN Labelled(e, u) ELSE << >>
             S == {n \in Nat : \A u \in Seq(Text) :
                                 Len(u) = n => LinesOf(d, Labelled(e, u)) = want(u)}
  <2>1. 0 \in S
    <3>1. ASSUME NEW u \in Seq(Text), Len(u) = 0 PROVE LinesOf(d, Labelled(e, u)) = want(u)
      <4>1. Labelled(e, u) \in Seq(Entry) /\ Len(Labelled(e, u)) = 0
        BY <1>1, <3>1
      <4>2. Labelled(e, u) = << >>
        BY <4>1, EmptySeq
      <4> QED
        BY <4>2, LinesOfIs
    <3> QED
      BY <3>1
  <2>2. ASSUME NEW n \in Nat, n \in S PROVE n + 1 \in S
    <3>1. ASSUME NEW u \in Seq(Text), Len(u) = n + 1
          PROVE  LinesOf(d, Labelled(e, u)) = want(u)
      <4> DEFINE v == SubSeq(u, 1, n)
                 x == u[n + 1]
                 l == Labelled(e, v)
                 b == <<<<e, x>>>>
      <4>1. v \in Seq(Text) /\ Len(v) = n /\ x \in Text /\ u = Append(v, x)
        <5>1. v \in Seq(Text) /\ Len(v) = n /\ \A i \in 1..n : v[i] = u[i]
          BY <3>1
        <5>2. x \in Text
          BY <3>1
        <5> HIDE DEF v, x
        <5>3. /\ Append(v, x) \in Seq(Text) /\ Len(Append(v, x)) = n + 1
              /\ \A i \in 1..n : Append(v, x)[i] = v[i]
              /\ Append(v, x)[n + 1] = x
          BY <5>1, <5>2
        <5>4. ASSUME NEW i \in 1..(n + 1) PROVE u[i] = Append(v, x)[i]
          <6>1. CASE i \in 1..n
            BY <5>1, <5>3, <6>1
          <6>2. CASE i = n + 1
            BY <5>3, <6>2 DEF x
          <6>3. i \in 1..n \/ i = n + 1
            OBVIOUS
          <6> QED
            BY <6>1, <6>2, <6>3
        <5>5. u = Append(v, x)
          BY <3>1, <5>3, <5>4, SeqEqual
        <5> QED
          BY <5>1, <5>2, <5>5
      <4> HIDE DEF v, x
      <4>2. LinesOf(d, l) = want(v)
        BY <2>2, <4>1
      <4>3. Labelled(e, u) = l \o b /\ l \in Seq(Entry) /\ <<e, x>> \in Entry
        BY <4>1, LabelMore
      <4>4. LinesOf(d, b) = IF d = e THEN b ELSE << >>
        <5>1. <<e, x>>[1] = e
          OBVIOUS
        <5>2. LinesOf(d, b) = IF <<e, x>>[1] = d THEN b ELSE << >>
          BY <4>3, LinesOfIs
        <5> QED
          BY <5>1, <5>2
      <4>5. b \in Seq(Entry)
        BY <4>3
      <4> HIDE DEF l, b
      <4>6. LinesOf(d, l \o b) = LinesOf(d, l) \o LinesOf(d, b)
        BY <4>3, <4>5, LinesOfIs
      <4>7. CASE d = e
        <5>1. LinesOf(d, l) = l /\ LinesOf(d, b) = b
          BY <4>2, <4>4, <4>7 DEF l
        <5> QED
          BY <4>3, <4>6, <4>7, <5>1
      <4>8. CASE d # e
        <5>1. LinesOf(d, l) = << >> /\ LinesOf(d, b) = << >>
          BY <4>2, <4>4, <4>8
        <5>2. << >> \o << >> = << >>
          OBVIOUS
        <5> QED
          BY <4>3, <4>6, <4>8, <5>1, <5>2
      <4> QED
        BY <4>7, <4>8
    <3> QED
      BY <3>1
  <2> HIDE DEF S
  <2>3. Nat \subseteq S
    BY <2>1, <2>2, Induction
  <2>4. Len(s) \in Nat
    OBVIOUS
  <2> QED
    BY <2>3, <2>4 DEF S
<1>4. \A e \in Teed : \A s \in Seq(Text) : Labelled(e, s) \in Seq(Entry)
  BY <1>1
<1>5. \A e \in Teed : \A s, t \in Seq(Text) : Labelled(e, s) = Labelled(e, t) => s = t
  BY <1>2
<1> QED
  BY <1>3, <1>4, <1>5

ByDevice(lines) == DeviceByDevice([d \in Teed |-> Labelled(d, lines[d])])

\* Device by device, every device's lines are there.
LEMMA LinesOfDevices ==
  ASSUME NEW lines \in [Teed -> Seq(Text)], NEW d \in Teed
  PROVE  LinesOf(d, ByDevice(lines)) = Labelled(d, lines[d])
<1> DEFINE lab == [e \in Teed |-> Labelled(e, lines[e])]
           ss == [k \in 1..NDevices |-> IF k - 1 \in Teed THEN lab[k - 1] ELSE << >>]
           want(k) == IF d < k THEN Labelled(d, lines[d]) ELSE << >>
<1>1. NDevices \in Nat /\ d \in Nat /\ d < NDevices /\ Teed \subseteq Nat
  BY BsimAssumption DEF BsimAssumption, Teed, Devices
<1>2. \A e \in Teed : lab[e] = Labelled(e, lines[e]) /\ lab[e] \in Seq(Entry)
  BY LabelsTell
<1> HIDE DEF lab
<1>3. /\ ss \in Seq(Seq(Entry)) /\ Len(ss) = NDevices
      /\ \A k \in 1..NDevices : ss[k] = IF k - 1 \in Teed THEN lab[k - 1] ELSE << >>
  <2>1. \A k \in 1..NDevices : (IF k - 1 \in Teed THEN lab[k - 1] ELSE << >>) \in Seq(Entry)
    BY <1>2
  <2> QED
    BY <1>1, <2>1
<1>4. ByDevice(lines) = FlattenSeq(ss)
  BY DEF ByDevice, DeviceByDevice, lab
<1> HIDE DEF ss
<1>5. PICK f : Joined(ss, Entry, f) /\ FlattenSeq(ss) = f[Len(ss)]
  BY <1>3, FlattenJoins
<1>6. /\ f \in [0..NDevices -> Seq(Entry)] /\ f[0] = << >>
      /\ \A k \in 1..NDevices : f[k] = f[k - 1] \o ss[k]
  BY <1>3, <1>5 DEF Joined
<1> DEFINE S == {k \in Nat : k <= NDevices => LinesOf(d, f[k]) = want(k)}
<1>7. 0 \in S
  BY <1>1, <1>6, LinesOfIs
<1>8. ASSUME NEW k \in Nat, k \in S PROVE k + 1 \in S
  <2> SUFFICES ASSUME k + 1 <= NDevices PROVE LinesOf(d, f[k + 1]) = want(k + 1)
    OBVIOUS
  <2>1. k \in 0..NDevices /\ k + 1 \in 1..NDevices /\ (k + 1) - 1 = k
    BY <1>1
  <2>2. LinesOf(d, f[k]) = want(k)
    BY <1>1, <1>8, <2>1
  <2> DEFINE a == f[k]
             b == ss[k + 1]
  <2>3. f[k + 1] = a \o b /\ a \in Seq(Entry) /\ b \in Seq(Entry)
    <3>1. f[k + 1] = a \o b /\ a \in Seq(Entry)
      BY <1>6, <2>1
    <3>2. b \in Seq(Entry)
      BY <1>3, <2>1
    <3> QED
      BY <3>1, <3>2
  <2>4. b = IF k \in Teed THEN Labelled(k, lines[k]) ELSE << >>
    BY <1>2, <1>3, <2>1
  <2>5. LinesOf(d, b) = IF d = k THEN Labelled(d, lines[d]) ELSE << >>
    <3>1. CASE k \in Teed
      <4>1. lines[k] \in Seq(Text)
        BY <3>1
      <4>2. LinesOf(d, Labelled(k, lines[k])) = IF d = k THEN Labelled(k, lines[k]) ELSE << >>
        BY <3>1, <4>1, LabelsTell
      <4> QED
        BY <2>4, <3>1, <4>2
    <3>2. CASE k \notin Teed
      <4>1. d # k /\ b = << >>
        BY <2>4, <3>2
      <4> QED
        BY <4>1, LinesOfIs
    <3> QED
      BY <3>1, <3>2
  <2> HIDE DEF a, b
  <2>6. LinesOf(d, f[k + 1]) = LinesOf(d, a) \o LinesOf(d, b)
    <3>1. LinesOf(d, a \o b) = LinesOf(d, a) \o LinesOf(d, b)
      BY <2>3, LinesOfIs
    <3> QED
      BY <2>3, <3>1
  <2> DEFINE l == Labelled(d, lines[d])
  <2>7. /\ LinesOf(d, a) = IF d < k THEN l ELSE << >>
        /\ LinesOf(d, b) = IF d = k THEN l ELSE << >>
        /\ l \in Seq(Entry)
    BY <2>2, <2>5, LabelsTell DEF a
  <2> HIDE DEF l
  <2>8. LinesOf(d, f[k + 1]) = IF d < k + 1 THEN l ELSE << >>
    <3>1. l \o << >> = l /\ << >> \o l = l /\ << >> \o << >> = << >>
      BY <2>7
    <3>2. CASE d < k
      BY <1>1, <2>6, <2>7, <3>1, <3>2
    <3>3. CASE d = k
      BY <1>1, <2>6, <2>7, <3>1, <3>3
    <3>4. CASE d > k
      <4>1. LinesOf(d, a) = << >> /\ LinesOf(d, b) = << >> /\ ~(d < k + 1)
        BY <1>1, <2>7, <3>4
      <4> QED
        BY <2>6, <3>1, <4>1
    <3> QED
      BY <1>1, <3>2, <3>3, <3>4
  <2> QED
    BY <2>8 DEF l
<1> HIDE DEF S
<1>9. Nat \subseteq S
  BY <1>7, <1>8, Induction
<1>10. LinesOf(d, f[NDevices]) = want(NDevices)
  <2>1. NDevices \in S
    BY <1>1, <1>9
  <2> QED
    BY <1>1, <2>1 DEF S
<1> QED
  BY <1>1, <1>3, <1>4, <1>5, <1>10

\* The sorted log tells what each device printed.
LEMMA SortedTells ==
  ASSUME NEW output, NEW lines \in [Teed -> Seq(Text)],
         \A d \in Teed : LinesOf(d, output) = Labelled(d, lines[d])
  PROVE  Sorted(output) = Snapshot <=> \A d \in Teed : lines[d] = Expected[d]
<1>1. Expected \in [Teed -> Seq(Text)]
  BY BsimAssumption DEF BsimAssumption
<1>2. Sorted(output) = ByDevice(lines)
  <2>1. [d \in Teed |-> LinesOf(d, output)] = [d \in Teed |-> Labelled(d, lines[d])]
    OBVIOUS
  <2> QED
    BY <2>1 DEF Sorted, ByDevice
<1>3. Snapshot = ByDevice(Expected)
  BY DEF Snapshot, ByDevice
<1>4. ASSUME ByDevice(lines) = ByDevice(Expected), NEW d \in Teed PROVE lines[d] = Expected[d]
  <2>1. Labelled(d, lines[d]) = Labelled(d, Expected[d])
    <3>1. LinesOf(d, ByDevice(lines)) = Labelled(d, lines[d])
      BY LinesOfDevices
    <3>2. LinesOf(d, ByDevice(Expected)) = Labelled(d, Expected[d])
      BY <1>1, LinesOfDevices
    <3> QED
      BY <1>4, <3>1, <3>2
  <2>2. lines[d] \in Seq(Text) /\ Expected[d] \in Seq(Text)
    BY <1>1
  <2> QED
    BY <2>1, <2>2, LabelsTell
<1>5. ASSUME \A d \in Teed : lines[d] = Expected[d] PROVE ByDevice(lines) = ByDevice(Expected)
  <2>1. [d \in Teed |-> Labelled(d, lines[d])] = [d \in Teed |-> Labelled(d, Expected[d])]
    BY <1>5
  <2> QED
    BY <2>1 DEF ByDevice
<1> QED
  BY <1>2, <1>3, <1>4, <1>5

-----------------------------------------------------------------------------
(* The verdict: what the log has of every device.                          *)

\* The log has what the threads have read, and a thread is over when there is
\* nothing left to read.
ReadIsLogged ==
  ~closed => \A d \in Teed :
    /\ LinesOf(d, log) = Labelled(d, SubSeq(written[d], 1, tee[d]))
    /\ reader[d] = "over" => device[d] = "gone" /\ tee[d] = Len(written[d])

JoinedAreOver ==
  At("joining") /\ ~late => \A d \in Devices : d < next => reader[d] = "over"

\* The log is closed before it is looked at, and has the lines every device printed
\* first; unless a join timed out, it has all of them.
LogIsComplete ==
  /\ closed => stage[focus] \in {"evaluating", "ended", "raised"}
  /\ stage[focus] \in {"evaluating", "ended"} =>
       /\ closed
       /\ \A d \in Teed : \E n \in 0..Len(written[d]) :
            LinesOf(d, log) = Labelled(d, SubSeq(written[d], 1, n))
       /\ ~late => \A d \in Teed : LinesOf(d, log) = Labelled(d, written[d])

Logged == ReadIsLogged /\ JoinedAreOver /\ LogIsComplete /\ VerdictIsTheDevices

\* Reading on, line by line, and printing on.
LEMMA ReadOn ==
  ASSUME NEW w \in Seq(Text), NEW n \in Nat, n <= Len(w)
  PROVE  /\ SubSeq(w, 1, n) \in Seq(Text)
         /\ SubSeq(w, 1, Len(w)) = w
         /\ n < Len(w) => /\ w[n + 1] \in Text
                          /\ SubSeq(w, 1, n + 1) = Append(SubSeq(w, 1, n), w[n + 1])
         /\ \A x \in Text : SubSeq(Append(w, x), 1, n) = SubSeq(w, 1, n)
<1>1. SubSeq(w, 1, n) \in Seq(Text) /\ Len(SubSeq(w, 1, n)) = n
      /\ \A i \in 1..n : SubSeq(w, 1, n)[i] = w[i]
  OBVIOUS
<1>2. SubSeq(w, 1, Len(w)) = w
  OBVIOUS
<1>3. ASSUME n < Len(w)
      PROVE  w[n + 1] \in Text /\ SubSeq(w, 1, n + 1) = Append(SubSeq(w, 1, n), w[n + 1])
  BY <1>3
<1>4. ASSUME NEW x \in Text PROVE SubSeq(Append(w, x), 1, n) = SubSeq(w, 1, n)
  <2> DEFINE a == SubSeq(Append(w, x), 1, n)
             b == SubSeq(w, 1, n)
  <2>1. /\ Append(w, x) \in Seq(Text) /\ Len(Append(w, x)) = Len(w) + 1
        /\ \A i \in 1..Len(w) : Append(w, x)[i] = w[i]
    OBVIOUS
  <2>2. a \in Seq(Text) /\ Len(a) = n /\ \A i \in 1..n : a[i] = Append(w, x)[i]
    BY <2>1
  <2>3. b \in Seq(Text) /\ Len(b) = n /\ \A i \in 1..n : b[i] = w[i]
    BY <1>1
  <2> HIDE DEF a, b
  <2>4. ASSUME NEW i \in 1..n PROVE a[i] = b[i]
    <3>1. i \in 1..Len(w)
      OBVIOUS
    <3> QED
      BY <2>1, <2>2, <2>3, <3>1
  <2>5. a = b
    BY <2>2, <2>3, <2>4, SeqEqual
  <2> QED
    BY <2>5 DEF a, b
<1> QED
  BY <1>1, <1>2, <1>3, <1>4

LEMMA LoggedInit == BsimInit => Logged
<1> SUFFICES ASSUME BsimInit PROVE Logged
  OBVIOUS
<1>1. /\ log = << >> /\ stage[focus] = "queued" /\ ~closed
      /\ \A d \in Teed : d \in Devices /\ reader[d] = "none" /\ tee[d] = 0 /\ written[d] = << >>
  BY DEF BsimInit, Teed
<1>2. ReadIsLogged
  <2> SUFFICES ASSUME NEW d \in Teed
               PROVE  LinesOf(d, << >>) = Labelled(d, SubSeq(<< >>, 1, 0))
    BY <1>1 DEF ReadIsLogged
  <2>1. SubSeq(<< >>, 1, 0) = << >> /\ DOMAIN << >> = {}
    OBVIOUS
  <2>2. Labelled(d, << >>) = << >>
    BY DEF Labelled
  <2> QED
    BY <2>1, <2>2, LinesOfIs
<1> QED
  BY <1>1, <1>2 DEF Logged, JoinedAreOver, LogIsComplete, VerdictIsTheDevices, At

\* What neither prints, reads nor writes, and leaves the focus where it is or
\* takes it on to a stage before the log is looked at.
LEMMA AsideKeepsLogged ==
  ASSUME RunnerInvariant, Logged,
         UNCHANGED <<focus, written, tee, log, reader, closed, late, accepted>>,
         status'[focus] = status[focus],
         \A d \in Devices : device[d] = "gone" => device'[d] = "gone",
         \/ UNCHANGED next /\ stage'[focus] = stage[focus]
         \/ /\ stage[focus] \in {"queued", "building", "spawning", "phy", "reaping"}
            /\ stage'[focus] \notin {"evaluating", "ended"}
            /\ stage'[focus] = "joining" => next' = 0
  PROVE  Logged'
<1>1. ReadIsLogged'
  <2>1. Teed \subseteq Devices
    BY DEF Teed
  <2> QED
    BY <2>1 DEF Logged, ReadIsLogged
<1>2. JoinedAreOver'
  <2>1. \A d \in Devices : ~(d < 0)
    BY DEF Devices
  <2> QED
    BY <2>1 DEF Logged, JoinedAreOver, At
<1>3. LogIsComplete'
  BY DEF Logged, LogIsComplete
<1>4. VerdictIsTheDevices'
  BY DEF Logged, VerdictIsTheDevices
<1> QED
  BY <1>1, <1>2, <1>3, <1>4 DEF Logged

LEMMA ProcessKeepsLogged ==
  ASSUME RunnerInvariant, Logged, ProcessStep
  PROVE  Logged'
<1>1. /\ BsimTypeOK /\ ReapedAreGone
      /\ UNCHANGED <<configVars, resultVars, stage, threadVars, procs, next, closed, late>>
  BY DEF RunnerInvariant, ProcessStep, Connect, PhyRuns, PrintLine, Leave, simVars, deviceVars
<1>2. UNCHANGED <<focus, tee, log, reader, closed, late, accepted, status, next, stage>>
  BY <1>1 DEF configVars, resultVars, threadVars
<1>3. CASE UNCHANGED written
  <2>1. \A d \in Devices : device[d] = "gone" => device'[d] = "gone"
    BY <1>1 DEF ProcessStep, Connect, PhyRuns, PrintLine, Leave, deviceVars, BsimTypeOK
  <2> QED
    BY <1>2, <1>3, <2>1, AsideKeepsLogged
<1>4. ASSUME NEW d \in Teed, PrintLine(d) PROVE Logged'
  <2>1. PICK line \in Text : written' = [written EXCEPT ![d] = Append(@, line)]
    BY <1>4 DEF PrintLine
  <2>2. UNCHANGED device /\ device[d] = "on" /\ d \in Devices
    BY <1>4 DEF PrintLine, Teed
  <2>3. stage[focus] \notin {"joining", "evaluating", "ended"}
    BY <1>1, <2>2 DEF ReapedAreGone
  <2>4. ReadIsLogged'
    <3> SUFFICES ASSUME ~closed, NEW e \in Teed
                 PROVE  /\ LinesOf(e, log) = Labelled(e, SubSeq(written'[e], 1, tee[e]))
                        /\ reader[e] = "over" => device[e] = "gone" /\ tee[e] = Len(written'[e])
      BY <1>2, <2>2 DEF ReadIsLogged
    <3>1. /\ LinesOf(e, log) = Labelled(e, SubSeq(written[e], 1, tee[e]))
          /\ reader[e] = "over" => device[e] = "gone" /\ tee[e] = Len(written[e])
      BY DEF Logged, ReadIsLogged
    <3>2. CASE e # d
      <4>1. written'[e] = written[e]
        BY <1>1, <2>1, <3>2 DEF BsimTypeOK
      <4> QED
        BY <3>1, <4>1
    <3>3. CASE e = d
      <4>1. /\ written[d] \in Seq(Text) /\ written'[d] = Append(written[d], line)
            /\ tee[d] \in Nat /\ tee[d] <= Len(written[d])
        BY <1>1, <2>1 DEF BsimTypeOK
      <4>2. SubSeq(Append(written[d], line), 1, tee[d]) = SubSeq(written[d], 1, tee[d])
        BY <4>1, ReadOn
      <4> QED
        BY <2>2, <3>1, <3>3, <4>1, <4>2
    <3> QED
      BY <3>2, <3>3
  <2>5. JoinedAreOver' /\ LogIsComplete' /\ VerdictIsTheDevices'
    BY <1>2, <2>3 DEF Logged, JoinedAreOver, LogIsComplete, VerdictIsTheDevices, At
  <2> QED
    BY <2>4, <2>5 DEF Logged
<1> QED
  BY <1>3, <1>4 DEF ProcessStep, Connect, PhyRuns, Leave, deviceVars

LEMMA ReaderKeepsLogged ==
  ASSUME RunnerInvariant, Logged, ReaderStep
  PROVE  Logged'
<1>1. /\ BsimTypeOK /\ Teed \subseteq Devices
      /\ UNCHANGED <<focus, stage, status, accepted, device, written, procs, phy, next, closed,
                     late>>
  BY DEF RunnerInvariant, ReaderStep, ReadLine, EndOfOutput, configVars, resultVars, deviceVars,
    simVars, Teed
<1>2. ASSUME NEW d \in Devices, EndOfOutput(d) PROVE Logged'
  <2>1. /\ UNCHANGED <<tee, log>> /\ device[d] = "gone"
        /\ d \in Teed => tee[d] = Len(written[d])
        /\ reader'[d] = "over" /\ \A e \in Devices : e # d => reader'[e] = reader[e]
    BY <1>1, <1>2 DEF EndOfOutput, BsimTypeOK
  <2>2. ReadIsLogged' /\ JoinedAreOver'
    BY <1>1, <2>1 DEF Logged, ReadIsLogged, JoinedAreOver, At
  <2>3. LogIsComplete' /\ VerdictIsTheDevices'
    BY <1>1, <2>1 DEF Logged, LogIsComplete, VerdictIsTheDevices
  <2> QED
    BY <2>2, <2>3 DEF Logged
<1>3. ASSUME NEW d \in Teed, ReadLine(d), closed PROVE Logged'
  <2>1. UNCHANGED log /\ stage[focus] # "joining"
    BY <1>3 DEF ReadLine, Logged, LogIsComplete
  <2> QED
    BY <1>1, <1>3, <2>1 DEF Logged, ReadIsLogged, JoinedAreOver, LogIsComplete,
      VerdictIsTheDevices, At
<1>4. ASSUME NEW d \in Teed, ReadLine(d), ~closed PROVE Logged'
  <2> DEFINE n == tee[d]
             w == written[d]
             x == w[n + 1]
  <2>1. /\ n \in Nat /\ w \in Seq(Text) /\ n < Len(w) /\ log \in Seq(Entry)
        /\ tee' = [tee EXCEPT ![d] = n + 1] /\ tee'[d] = n + 1
        /\ UNCHANGED reader /\ reader[d] = "reading"
        /\ log' = Append(log, <<d, written[d][tee'[d]]>>)
    BY <1>1, <1>4 DEF ReadLine, BsimTypeOK, Entry
  <2>2. /\ x \in Text /\ SubSeq(w, 1, n) \in Seq(Text)
        /\ SubSeq(w, 1, n + 1) = Append(SubSeq(w, 1, n), x)
    <3> HIDE DEF w, n
    <3>1. n <= Len(w)
      BY <2>1
    <3> QED
      BY <2>1, <3>1, ReadOn
  <2> DEFINE b == <<<<d, x>>>>
  <2>3. <<d, x>> \in Entry /\ b \in Seq(Entry)
    BY <2>2 DEF Entry
  <2>4. log' = log \o b
    <3> DEFINE entry == <<d, x>>
    <3>1. log' = Append(log, entry) /\ entry \in Entry
      BY <2>1, <2>3
    <3> HIDE DEF entry
    <3>2. Append(log, entry) = log \o <<entry>>
      BY <2>1, <3>1, AppendIsConcat
    <3> QED
      BY <3>1, <3>2 DEF entry
  <2>5. ASSUME NEW e PROVE LinesOf(e, b) = IF d = e THEN b ELSE << >>
    <3>1. <<d, x>>[1] = d
      OBVIOUS
    <3>2. LinesOf(e, b) = IF <<d, x>>[1] = e THEN b ELSE << >>
      BY <2>3, LinesOfIs
    <3> QED
      BY <3>1, <3>2
  <2>6. Labelled(d, SubSeq(w, 1, n + 1)) = Labelled(d, SubSeq(w, 1, n)) \o b
    <3> DEFINE p == SubSeq(w, 1, n)
               q == SubSeq(w, 1, n + 1)
    <3>1. p \in Seq(Text) /\ q = Append(p, x) /\ x \in Text
      BY <2>2
    <3> HIDE DEF p, q, x
    <3>2. Labelled(d, Append(p, x)) = Labelled(d, p) \o <<<<d, x>>>>
      BY <3>1, LabelMore
    <3> QED
      BY <3>1, <3>2 DEF p, q
  <2>7. ASSUME NEW e \in Teed
        PROVE  /\ LinesOf(e, log') = LinesOf(e, log) \o LinesOf(e, b)
               /\ LinesOf(e, log) \in Seq(Entry)
    <3> HIDE DEF b
    <3>1. LinesOf(e, log \o b) = LinesOf(e, log) \o LinesOf(e, b)
      BY <2>1, <2>3, LinesOfIs
    <3>2. LinesOf(e, log) \in Seq(Entry)
      BY <2>1, LinesOfIs
    <3> QED
      BY <2>4, <3>1, <3>2
  <2>8. ReadIsLogged'
    <3> SUFFICES ASSUME NEW e \in Teed
                 PROVE  /\ LinesOf(e, log') = Labelled(e, SubSeq(written[e], 1, tee'[e]))
                        /\ reader[e] = "over" => device[e] = "gone" /\ tee'[e] = Len(written[e])
      BY <1>1, <2>1 DEF ReadIsLogged
    <3>1. /\ LinesOf(e, log) = Labelled(e, SubSeq(written[e], 1, tee[e]))
          /\ reader[e] = "over" => device[e] = "gone" /\ tee[e] = Len(written[e])
      BY <1>4 DEF Logged, ReadIsLogged
    <3>2. CASE e = d
      <4>1. LinesOf(e, b) = b
        BY <2>5, <3>2
      <4>2. LinesOf(d, log') = Labelled(d, SubSeq(w, 1, n)) \o b
        <5> HIDE DEF b
        <5> QED
          BY <2>7, <3>1, <3>2, <4>1
      <4>3. LinesOf(d, log') = Labelled(d, SubSeq(written[d], 1, tee'[d]))
        BY <2>1, <2>6, <4>2
      <4> QED
        BY <2>1, <3>2, <4>3
    <3>3. CASE e # d
      <4>1. LinesOf(e, b) = << >> /\ tee'[e] = tee[e]
        BY <1>1, <2>1, <2>5, <3>3 DEF BsimTypeOK
      <4>2. LinesOf(e, log') = LinesOf(e, log)
        BY <2>7, <4>1
      <4> QED
        BY <3>1, <4>1, <4>2
    <3> QED
      BY <3>2, <3>3
  <2>9. stage[focus] \notin {"evaluating", "ended"}
    BY <1>4 DEF Logged, LogIsComplete
  <2>10. JoinedAreOver' /\ LogIsComplete' /\ VerdictIsTheDevices'
    BY <1>1, <2>1, <2>9 DEF Logged, JoinedAreOver, LogIsComplete, VerdictIsTheDevices, At
  <2> QED
    BY <2>8, <2>10 DEF Logged
<1> QED
  BY <1>2, <1>3, <1>4 DEF ReaderStep

\* The steps of the focus in which nothing is read.
LEMMA AsideRunnerSteps ==
  ASSUME RunnerInvariant, Logged, UNCHANGED closed,
         BuildAndStage \/ StartPhy \/ PhyEnds \/ Reap \/ StartJoining
  PROVE  Logged'
<1>1. /\ BsimTypeOK /\ focus \in Cases /\ stage \in [Cases -> Stages]
      /\ UNCHANGED <<configVars, resultVars, written, threadVars, closed, late>>
      /\ UNCHANGED <<focus, status, accepted, tee, log, reader>>
  BY DEF RunnerInvariant, BsimTypeOK, Stages, BuildAndStage, StartPhy, PhyEnds, Reap,
    StartJoining, configVars, resultVars, deviceVars, threadVars, simVars
<1>2. \A d \in Devices : device[d] = "gone" => device'[d] = "gone"
  BY <1>1 DEF BsimTypeOK, BuildAndStage, StartPhy, PhyEnds, Reap, StartJoining, deviceVars
<1>3. \A s : Goto(s) => stage'[focus] = s
  BY <1>1 DEF Goto
<1>4. /\ stage[focus] \in {"queued", "building", "spawning", "phy", "reaping"}
      /\ stage'[focus] \notin {"evaluating", "ended"}
      /\ stage'[focus] = "joining" => next' = 0
  BY <1>1, <1>3 DEF BuildAndStage, StartPhy, PhyEnds, Reap, StartJoining, At
<1> QED
  BY <1>1, <1>2, <1>4, AsideKeepsLogged

\* A process that cannot be started, the phy included.
LEMMA RaiseKeepsLogged ==
  ASSUME RunnerInvariant, Logged, At("spawning"), Goto("raised"), closed',
         UNCHANGED <<focus, status, accepted, written, tee, log, reader, device, next, late>>
  PROVE  Logged'
<1>1. stage[focus] = "spawning" /\ stage'[focus] = "raised"
  BY DEF At, Goto, RunnerInvariant, BsimTypeOK
<1> QED
  BY <1>1 DEF Logged, ReadIsLogged, JoinedAreOver, LogIsComplete, VerdictIsTheDevices, At

LEMMA StartPhyKeepsLogged ==
  ASSUME RunnerInvariant, Logged, StartPhy
  PROVE  Logged'
<1>1. CASE UNCHANGED closed
  BY <1>1, AsideRunnerSteps
<1>2. CASE Goto("raised") /\ closed' = TRUE
  <2>1. /\ At("spawning")
        /\ UNCHANGED <<focus, status, accepted, written, tee, log, reader, device, next, late>>
    BY DEF StartPhy, configVars, resultVars, deviceVars, threadVars
  <2> QED
    BY <1>2, <2>1, RaiseKeepsLogged
<1> QED
  BY <1>1, <1>2 DEF StartPhy

LEMMA SpawnKeepsLogged ==
  ASSUME RunnerInvariant, Logged, Spawn
  PROVE  Logged'
<1>1. /\ BsimTypeOK /\ focus \in Cases /\ stage \in [Cases -> Stages] /\ Teed \subseteq Devices
      /\ UNCHANGED <<focus, status, accepted, written, tee, log, next, late>>
      /\ stage[focus] = "spawning" /\ ~closed
  BY DEF RunnerInvariant, BsimTypeOK, Stages, Spawn, configVars, resultVars, Logged,
    LogIsComplete, At, Teed
<1>2. CASE /\ device' = [device EXCEPT ![procs] = "starting"]
           /\ reader' = [reader EXCEPT ![procs] = "reading"]
           /\ UNCHANGED <<stage, closed>>
  <2>1. ASSUME NEW d \in Devices, reader'[d] = "over"
        PROVE  reader[d] = "over" /\ device'[d] = device[d]
    BY <1>1, <1>2, <2>1 DEF BsimTypeOK
  <2>2. ReadIsLogged'
    BY <1>1, <1>2, <2>1 DEF Logged, ReadIsLogged
  <2>3. JoinedAreOver' /\ LogIsComplete' /\ VerdictIsTheDevices'
    BY <1>1, <1>2 DEF JoinedAreOver, LogIsComplete, VerdictIsTheDevices, At
  <2> QED
    BY <2>2, <2>3 DEF Logged
<1>3. CASE Goto("raised") /\ closed' = TRUE /\ UNCHANGED <<procs, device, reader>>
  BY <1>1, <1>3, RaiseKeepsLogged DEF At
<1> QED
  BY <1>2, <1>3 DEF Spawn

LEMMA JoinKeepsLogged ==
  ASSUME RunnerInvariant, Logged, Join
  PROVE  Logged'
<1>1. /\ BsimTypeOK /\ next \in Nat
      /\ UNCHANGED <<focus, stage, status, accepted, device, written, tee, reader, log, closed>>
      /\ stage[focus] = "joining" /\ next' = next + 1 /\ late' = (late \/ reader[next] # "over")
  BY DEF RunnerInvariant, BsimTypeOK, Join, configVars, resultVars, deviceVars, threadVars, At
<1>2. JoinedAreOver'
  <2> SUFFICES ASSUME ~late', NEW d \in Devices, d < next + 1 PROVE reader[d] = "over"
    BY <1>1 DEF JoinedAreOver
  <2>1. ~late /\ reader[next] = "over" /\ d \in Nat
    <3>1. late' = (late \/ reader[next] # "over")
      BY <1>1
    <3>2. ~late /\ reader[next] = "over"
      BY <3>1, Zenon
    <3>3. d \in Nat
      BY DEF Devices
    <3> QED
      BY <3>2, <3>3
  <2>2. d < next \/ d = next
    BY <1>1, <2>1
  <2> QED
    BY <1>1, <2>1, <2>2 DEF Logged, JoinedAreOver, At
<1>3. ReadIsLogged' /\ LogIsComplete' /\ VerdictIsTheDevices'
  BY <1>1 DEF Logged, ReadIsLogged, LogIsComplete, VerdictIsTheDevices
<1> QED
  BY <1>2, <1>3 DEF Logged

\* Every thread joined in time has read all its device printed.
LEMMA CloseLogKeepsLogged ==
  ASSUME RunnerInvariant, Logged, CloseLog
  PROVE  Logged'
<1>1. /\ BsimTypeOK /\ focus \in Cases /\ stage \in [Cases -> Stages]
      /\ UNCHANGED <<focus, status, accepted, device, written, tee, reader, log, next, late>>
      /\ stage[focus] = "joining" /\ next = NDevices /\ closed' = TRUE /\ Goto("evaluating")
  BY DEF RunnerInvariant, BsimTypeOK, Stages, CloseLog, configVars, resultVars, deviceVars,
    threadVars, At
<1>2. stage'[focus] = "evaluating"
  BY <1>1 DEF Goto
<1>3. ~closed
  BY <1>1 DEF Logged, LogIsComplete
<1>4. ASSUME ~late, NEW d \in Teed PROVE LinesOf(d, log) = Labelled(d, written[d])
  <2>1. d \in Devices /\ d < NDevices
    BY BsimAssumption DEF BsimAssumption, Teed, Devices
  <2>2. reader[d] = "over"
    BY <1>1, <1>4, <2>1 DEF Logged, JoinedAreOver, At
  <2>3. /\ LinesOf(d, log) = Labelled(d, SubSeq(written[d], 1, tee[d]))
        /\ tee[d] = Len(written[d])
    BY <1>3, <2>2 DEF Logged, ReadIsLogged
  <2>4. SubSeq(written[d], 1, Len(written[d])) = written[d]
    <3>1. written[d] \in Seq(Text)
      BY <1>1 DEF BsimTypeOK
    <3> QED
      BY <3>1
  <2> QED
    BY <2>3, <2>4
<1>5. ASSUME NEW d \in Teed
      PROVE  \E n \in 0..Len(written[d]) :
               LinesOf(d, log) = Labelled(d, SubSeq(written[d], 1, n))
  <2>1. tee[d] \in 0..Len(written[d])
    BY <1>1 DEF BsimTypeOK
  <2> QED
    BY <1>3, <2>1 DEF Logged, ReadIsLogged
<1> QED
  BY <1>1, <1>2, <1>4, <1>5 DEF Logged, ReadIsLogged, JoinedAreOver, LogIsComplete,
    VerdictIsTheDevices, At

LEMMA CutIsPrefix ==
  ASSUME NEW w \in Seq(Text), NEW n \in 0..Len(w)
  PROVE  IsPrefix(SubSeq(w, 1, n), w)
<1>1. SubSeq(w, 1, n) \in Seq(Text) /\ Len(SubSeq(w, 1, n)) = n
  OBVIOUS
<1> DEFINE c == SubSeq(w, 1, n)
<1>2. SubSeq(c, 1, Len(c)) = c
  BY <1>1
<1> QED
  BY <1>1, <1>2 DEF IsPrefix

\* What is evaluated tells what each device printed.
LEMMA EvaluateKeepsLogged ==
  ASSUME RunnerInvariant, Logged, Evaluate
  PROVE  Logged'
<1>1. /\ BsimTypeOK /\ focus \in Cases /\ stage \in [Cases -> Stages]
      /\ status \in [Cases -> Statuses]
      /\ UNCHANGED <<focus, device, written, tee, reader, log, next, late, closed>>
      /\ stage[focus] = "evaluating" /\ Goto("ended")
  BY DEF RunnerInvariant, BsimTypeOK, Stages, Statuses, Evaluate, configVars, deviceVars,
    threadVars, simVars, At
<1>2. stage'[focus] = "ended"
  BY <1>1 DEF Goto
<1>3. /\ closed /\ (~late => \A d \in Teed : LinesOf(d, log) = Labelled(d, written[d]))
      /\ \A d \in Teed : \E n \in 0..Len(written[d]) :
           LinesOf(d, log) = Labelled(d, SubSeq(written[d], 1, n))
  BY <1>1 DEF Logged, LogIsComplete
<1>4. ReadIsLogged' /\ JoinedAreOver' /\ LogIsComplete'
  BY <1>1, <1>2, <1>3 DEF ReadIsLogged, JoinedAreOver, LogIsComplete, At
<1>5. written \in [Teed -> Seq(Text)] /\ Expected \in [Teed -> Seq(Text)]
  BY <1>1, BsimAssumption DEF BsimTypeOK, BsimAssumption
<1>6. ~accepted' => (status'[focus] = "PASS" <=> Sorted(log) = Snapshot)
  <2> SUFFICES ASSUME ~accepted' PROVE status'[focus] = "PASS" <=> Sorted(log) = Snapshot
    OBVIOUS
  <2>1. CASE Sorted(log) = Snapshot
    <3>1. status' = [status EXCEPT ![focus] = "PASS"]
      BY <2>1 DEF Evaluate
    <3>2. status'[focus] = "PASS"
      BY <1>1, <3>1
    <3> QED
      BY <2>1, <3>2
  <2>2. CASE Sorted(log) # Snapshot
    <3>1. PICK pending \in BOOLEAN, auto_accept \in BOOLEAN :
             /\ accepted' = (auto_accept /\ ~pending)
             /\ status' = [status EXCEPT ![focus] =
                  IF pending THEN "PENDING" ELSE IF auto_accept THEN "PASS" ELSE "FAILED"]
      BY <2>2 DEF Evaluate
    <3>2. pending \/ ~auto_accept
      BY <3>1
    <3>3. status'[focus] # "PASS"
      <4>1. CASE pending
        BY <1>1, <3>1, <4>1
      <4>2. CASE ~pending /\ ~auto_accept
        BY <1>1, <3>1, <4>2
      <4> QED
        BY <3>2, <4>1, <4>2
    <3> QED
      BY <2>2, <3>3
  <2> QED
    BY <2>1, <2>2
<1>7. ~late => (Sorted(log) = Snapshot <=> \A d \in Teed : written[d] = Expected[d])
  BY <1>3, <1>5, SortedTells
<1>8. ASSUME Sorted(log) = Snapshot, NEW d \in Teed PROVE IsPrefix(Expected[d], written[d])
  <2> DEFINE Read(e, n) == LinesOf(e, log) = Labelled(e, SubSeq(written[e], 1, n))
             n(e) == CHOOSE k \in 0..Len(written[e]) : Read(e, k)
             lines == [e \in Teed |-> SubSeq(written[e], 1, n(e))]
  <2>1. ASSUME NEW e \in Teed PROVE n(e) \in 0..Len(written[e]) /\ Read(e, n(e))
    <3>1. \E k \in 0..Len(written[e]) : Read(e, k)
      BY <1>3
    <3> HIDE DEF Read
    <3> QED
      BY <3>1
  <2> HIDE DEF n
  <2>2. lines \in [Teed -> Seq(Text)]
    <3> SUFFICES ASSUME NEW e \in Teed PROVE SubSeq(written[e], 1, n(e)) \in Seq(Text)
      OBVIOUS
    <3>1. n(e) \in Nat /\ n(e) <= Len(written[e]) /\ written[e] \in Seq(Text)
      BY <1>5, <2>1
    <3> QED
      BY <3>1, ReadOn
  <2>3. \A e \in Teed : LinesOf(e, log) = Labelled(e, lines[e])
    BY <2>1
  <2>4. lines[d] = Expected[d]
    <3> HIDE DEF lines
    <3> QED
      BY <1>8, <2>2, <2>3, SortedTells
  <2>5. Expected[d] = SubSeq(written[d], 1, n(d)) /\ n(d) \in 0..Len(written[d])
    BY <2>1, <2>4
  <2> QED
    BY <1>5, <2>5, CutIsPrefix
<1>9. VerdictIsTheDevices'
  BY <1>1, <1>6, <1>7, <1>8 DEF VerdictIsTheDevices
<1> QED
  BY <1>4, <1>9 DEF Logged

LEMMA DriverKeepsLogged ==
  ASSUME RunnerInvariant, Logged, DriverStep
  PROVE  Logged'
<1>1. /\ BsimTypeOK /\ FocusIsSimulated /\ focus \in Cases /\ stage \in [Cases -> Stages]
      /\ UNCHANGED <<configVars, accepted, deviceVars, threadVars, simVars>>
  BY DEF RunnerInvariant, BsimTypeOK, Stages, DriverStep, OtherCase, build_host_apps,
    StartCase, MeetException, Die, Summarise, resultVars
<1>2. UNCHANGED <<focus, written, tee, log, reader, closed, late, accepted, next, device>>
  BY <1>1 DEF configVars, deviceVars, threadVars, simVars
<1>3. /\ status'[focus] = status[focus]
      /\ \/ stage'[focus] = stage[focus]
         \/ stage[focus] = "queued" /\ stage'[focus] \in {"building", "cancelled"}
  <2>1. CASE OtherCase
    <3>1. PICK c \in Cases : /\ stage[c] = "working"
            /\ \/ /\ stage' = [stage EXCEPT ![c] = "ended"]
                  /\ \E verdict \in {"PASS", "FAILED", "PENDING"} :
                       status' = [status EXCEPT ![c] = verdict]
               \/ stage' = [stage EXCEPT ![c] = "raised"] /\ UNCHANGED status
      BY <2>1 DEF OtherCase
    <3>2. c # focus
      BY <1>1, <3>1 DEF FocusIsSimulated
    <3>3. status \in [Cases -> Statuses]
      BY <1>1 DEF BsimTypeOK, Statuses
    <3> QED
      BY <1>1, <3>1, <3>2, <3>3
  <2>2. CASE StartCase
    <3>1. PICK c \in Cases : /\ stage[c] = "queued"
                             /\ stage' = [stage EXCEPT ![c] =
                                            IF c = focus THEN "building" ELSE "working"]
      BY <2>2 DEF StartCase
    <3>2. UNCHANGED status
      BY <2>2 DEF StartCase, resultVars
    <3> QED
      BY <1>1, <3>1, <3>2
  <2>3. CASE MeetException
    BY <1>1, <2>3 DEF MeetException
  <2>4. CASE build_host_apps \/ Die \/ Summarise
    BY <2>4 DEF build_host_apps, Die, Summarise
  <2> QED
    BY <2>1, <2>2, <2>3, <2>4 DEF DriverStep
<1> QED
  BY <1>2, <1>3, AsideKeepsLogged

LEMMA StepKeepsLogged ==
  RunnerInvariant /\ Logged /\ [BsimNext]_bsimVars => Logged'
<1> SUFFICES ASSUME RunnerInvariant, Logged, [BsimNext]_bsimVars PROVE Logged'
  OBVIOUS
<1>1. CASE RunnerStep
  <2>1. CASE BuildAndStage \/ PhyEnds \/ Reap \/ StartJoining
    <3>1. UNCHANGED closed
      BY <2>1 DEF BuildAndStage, PhyEnds, Reap, StartJoining, simVars
    <3> QED
      BY <2>1, <3>1, AsideRunnerSteps
  <2> QED
    BY <1>1, <2>1, StartPhyKeepsLogged, SpawnKeepsLogged, JoinKeepsLogged, CloseLogKeepsLogged,
      EvaluateKeepsLogged DEF RunnerStep
<1>2. CASE UNCHANGED bsimVars
  <2>1. UNCHANGED <<focus, written, tee, log, reader, closed, late, accepted, status, device,
                    next, stage>>
    BY <1>2 DEF bsimVars, configVars, resultVars, deviceVars, threadVars, simVars
  <2> QED
    BY <2>1, AsideKeepsLogged
<1> QED
  BY <1>1, <1>2, ProcessKeepsLogged, ReaderKeepsLogged, DriverKeepsLogged DEF BsimNext

\* A case passes exactly if every device printed what the snapshot has of it,
\* however the threads' writes to the one log were interleaved and whatever died
\* or was killed, unless the snapshot was regenerated; where a join timed out, a
\* pass still means that every device printed what the snapshot has of it first.
THEOREM VerdictIsDecidedByDevices == BsimSpec => []VerdictIsTheDevices
<1>1. RunnerInvariant /\ Logged /\ [BsimNext]_bsimVars => (RunnerInvariant /\ Logged)'
  BY StepKeepsInvariant, StepKeepsLogged
<1>2. BsimInit => RunnerInvariant /\ Logged
  BY RunnerInit, LoggedInit
<1>3. Logged => VerdictIsTheDevices
  BY DEF Logged
<1> QED
  BY <1>1, <1>2, <1>3, PTL DEF BsimSpec

-----------------------------------------------------------------------------
(* The host: an indication, byte by byte.                                  *)

\* What the callbacks share.
RpcState ==
  [sent : 0..STUDIO_REQUESTS_COUNT, received : Nat, decoder : Decoder,
   announced : BOOLEAN, att : Seq({0} \cup Request), due : Seq(Seq(Byte)),
   answered : Nat, misread : BOOLEAN]

\* The states after each of the bytes.
AfterBytes(h, bytes, takes, f) ==
  /\ f \in [0..Len(bytes) -> RpcState]
  /\ f[0] = h
  /\ \A k \in 1..Len(bytes) : f[k] = frame_rx_byte(f[k - 1], bytes[k], takes)

LEMMA CountIsNat == STUDIO_REQUESTS_COUNT \in Nat
BY StudioAssumption DEF StudioAssumption, STUDIO_REQUESTS_COUNT

LEMMA RxStaysState ==
  ASSUME NEW h \in RpcState, NEW byte \in Byte, NEW takes \in BOOLEAN
  PROVE  frame_rx_byte(h, byte, takes) \in RpcState
<1> DEFINE d == DecodeByte(h.decoder, byte, FrameBuf)
           after == [h EXCEPT !.decoder = d]
<1>1. d \in Decoder
  BY DecodeByteIsDecoder DEF RpcState
<1>2. after = [h EXCEPT !.decoder = DecodeByte(h.decoder, byte, FrameBuf)] /\ after \in RpcState
  BY <1>1 DEF RpcState
<1>3. ASSUME NEW g \in RpcState
      PROVE  send_next_request(g, takes) \in RpcState
  <2>1. CASE g.sent >= STUDIO_REQUESTS_COUNT
    BY <2>1 DEF send_next_request
  <2>2. CASE ~(g.sent >= STUDIO_REQUESTS_COUNT)
    <3>1. g.sent + 1 \in 0..STUDIO_REQUESTS_COUNT /\ g.sent + 1 \in Request
      BY <2>2, CountIsNat DEF RpcState, Request
    <3>2. Append(g.att, g.sent + 1) \in Seq({0} \cup Request)
      BY <3>1 DEF RpcState
    <3> QED
      BY <2>2, <3>1, <3>2 DEF send_next_request, RpcState
  <2> QED
    BY <2>1, <2>2
<1>4. ASSUME NEW payload PROVE handle_frame(after, payload, takes) \in RpcState
  <2> HIDE DEF after
  <2> DEFINE fits == SubSeq(Head(after.due), 1, Min({FrameBuf, Len(Head(after.due))}))
             due1 == IF after.due = << >> THEN after.due ELSE Tail(after.due)
             answered1 == IF after.due # << >> /\ Head(after.due) = Notification
                          THEN after.answered ELSE after.answered + 1
             misread1 == (after.misread \/ after.due = << >> \/ payload # fits)
             seen == [after EXCEPT !.received = @ + 1, !.due = due1,
                                   !.answered = answered1, !.misread = misread1]
  <2>1. due1 \in Seq(Seq(Byte)) /\ answered1 \in Nat /\ misread1 \in BOOLEAN
        /\ after.received + 1 \in Nat
    BY <1>2 DEF RpcState
  <2>2. seen \in RpcState
    <3> HIDE DEF due1, answered1, misread1
    <3> QED
      BY <1>2, <2>1 DEF RpcState
  <2>3. [seen EXCEPT !.announced = TRUE] \in RpcState
    <3> HIDE DEF seen
    <3> QED
      BY <2>2 DEF RpcState
  <2>4. handle_frame(after, payload, takes) =
          IF seen.sent < STUDIO_REQUESTS_COUNT
          THEN send_next_request(seen, takes) ELSE [seen EXCEPT !.announced = TRUE]
    BY DEF handle_frame
  <2> HIDE DEF seen
  <2> QED
    BY <1>3, <2>2, <2>3, <2>4
<1> QED
  BY <1>2, <1>4 DEF frame_rx_byte

\* What FoldLeft makes of them.
LEMMA IndicationByteByByte ==
  ASSUME NEW h \in RpcState, NEW bytes \in Seq(Byte), NEW takes \in BOOLEAN
  PROVE  LET rx(g, byte) == frame_rx_byte(g, byte, takes)
         IN  \E f : AfterBytes(h, bytes, takes, f) /\ FoldLeft(rx, h, bytes) = f[Len(bytes)]
<1> DEFINE n == Len(bytes)
           step == [k \in 1..n |-> [g \in RpcState |-> frame_rx_byte(g, bytes[k], takes)]]
           Folded(it) == [s \in SUBSET (1..n) |->
                          IF s = {} THEN h
                          ELSE frame_rx_byte(it[s \ {Max(s)}], bytes[Max(s)], takes)]
<1>1. n \in Nat /\ DOMAIN bytes = 1..n /\ \A k \in 1..n : bytes[k] \in Byte
  OBVIOUS
<1> HIDE DEF n
<1>2. step \in [1..n -> [RpcState -> RpcState]]
  BY <1>1, RxStaysState
<1>3. PICK g : IsFold(RpcState, h, n, step, g)
  <2> HIDE DEF step
  <2> QED
    BY <1>1, <1>2, FoldExists
<1>4. g = Folded(g)
  <2>1. /\ g \in [SUBSET (1..n) -> RpcState]
        /\ g = [s \in SUBSET (1..n) |->
                  IF s = {} THEN h ELSE step[Max(s)][g[s \ {Max(s)}]]]
    <3> HIDE DEF step
    <3> QED
      BY <1>3 DEF IsFold
  <2>2. ASSUME NEW s \in SUBSET (1..n), s # {}
        PROVE  step[Max(s)][g[s \ {Max(s)}]]
                 = frame_rx_byte(g[s \ {Max(s)}], bytes[Max(s)], takes)
    <3>1. Max(s) \in s
      BY <1>1, <2>2, MaxOfPart
    <3> HIDE DEF n
    <3>2. Max(s) \in 1..n /\ s \ {Max(s)} \in SUBSET (1..n)
      BY <3>1
    <3>3. g[s \ {Max(s)}] \in RpcState
      BY <2>1, <3>2
    <3> QED
      BY <3>2, <3>3
  <2> HIDE DEF step
  <2>3. \A s \in SUBSET (1..n) :
          g[s] = IF s = {} THEN h
                 ELSE frame_rx_byte(g[s \ {Max(s)}], bytes[Max(s)], takes)
    BY <2>1, <2>2
  <2> QED
    BY <2>1, <2>3
<1> DEFINE it == CHOOSE i : i = Folded(i)
<1>5. it = Folded(it)
  <2> HIDE DEF Folded
  <2> QED
    BY <1>4
<1> HIDE DEF it
<1> DEFINE f == [k \in 0..n |-> it[1..k]]
<1>6. FoldLeft(LAMBDA q, byte : frame_rx_byte(q, byte, takes), h, bytes) = it[1..n]
  BY <1>1 DEF FoldLeft, MapThenFoldSet, it
<1>7. f[0] = h
  <2>1. 1..0 = {} /\ {} \in SUBSET (1..n) /\ 0 \in 0..n
    BY <1>1
  <2>2. it[{}] = h
    BY <1>5, <2>1
  <2> QED
    BY <2>1, <2>2
<1>8. ASSUME NEW k \in 1..n PROVE f[k] = frame_rx_byte(f[k - 1], bytes[k], takes)
  <2>1. /\ 1..k \in SUBSET (1..n) /\ 1..k # {}
        /\ k \in 0..n /\ k - 1 \in 0..n /\ (1..k) \ {k} = 1..(k - 1)
    BY <1>1
  <2>2. Max(1..k) = k
    BY <1>1, MaxOfInterval
  <2>3. it[1..k] = frame_rx_byte(it[(1..k) \ {Max(1..k)}], bytes[Max(1..k)], takes)
    <3>1. \A s \in SUBSET (1..n) : s # {} =>
            it[s] = frame_rx_byte(it[s \ {Max(s)}], bytes[Max(s)], takes)
      BY <1>5
    <3> HIDE DEF Folded
    <3> QED
      BY <2>1, <3>1
  <2> QED
    BY <2>1, <2>2, <2>3
<1>9. \A k \in 0..n : f[k] \in RpcState
  <2> HIDE DEF f
  <2> DEFINE S == {k \in Nat : k \in 0..n => f[k] \in RpcState}
  <2>1. 0 \in S
    BY <1>7
  <2>2. ASSUME NEW k \in Nat, k \in S PROVE k + 1 \in S
    <3> SUFFICES ASSUME k + 1 \in 0..n PROVE f[k + 1] \in RpcState
      OBVIOUS
    <3>1. k \in 0..n /\ k + 1 \in 1..n /\ (k + 1) - 1 = k
      BY <1>1
    <3>2. f[k] \in RpcState /\ bytes[k + 1] \in Byte
      BY <1>1, <2>2, <3>1
    <3>3. f[k + 1] = frame_rx_byte(f[k], bytes[k + 1], takes)
      BY <1>8, <3>1
    <3> QED
      BY <3>2, <3>3, RxStaysState
  <2> HIDE DEF S
  <2>3. Nat \subseteq S
    BY <2>1, <2>2, Induction
  <2> QED
    BY <1>1, <2>3 DEF S
<1>10. f \in [0..n -> RpcState]
  BY <1>9
<1>11. AfterBytes(h, bytes, takes, f)
  <2> HIDE DEF f
  <2> QED
    BY <1>7, <1>8, <1>10 DEF AfterBytes, n
<1>12. f[n] = it[1..n]
  BY <1>1
<1> QED
  <2> HIDE DEF f
  <2> QED
    BY <1>6, <1>11, <1>12 DEF n

-----------------------------------------------------------------------------
(* What the bytes do to the requests and to the frames.                    *)

\* Requests in their order, up to the n-th.
UpTo(s, n) == Increasing(s) /\ \A i \in DOMAIN s : s[i] <= n

\* What holds at every byte: h is what the callbacks share, w what is left.
RpcGood(h, w) ==
  /\ UpTo(taken \o Queued(h.att), h.sent)
  /\ h.sent <= subscriptions + h.received
  /\ ~cutInEscape => ~h.misread /\ InSync(h.decoder, w, h.due, FrameBuf)

\* Where nothing disturbs, there is at most one request not yet answered.
RpcQuiet(h) ==
  /\ h.sent = h.answered + Len(Queued(h.att)) + Len(asked) + Len(h.due)
  /\ h.sent <= h.answered + 1
  /\ \A i \in DOMAIN h.due : h.due[i] # Notification
  /\ h.announced => h.answered = STUDIO_REQUESTS_COUNT

\* What a sequence's items contribute, one after the other.
Parts(s, part) == FlattenSeq([i \in DOMAIN s |-> part[s[i]]])

InParts(S, T, part, s) ==
  /\ Parts(<< >>, part) = << >>
  /\ Parts(s, part) \in Seq(T)
  /\ \A r \in S : Parts(Append(s, r), part) = Parts(s, part) \o part[r]
  /\ s # << >> => Parts(s, part) = part[Head(s)] \o Parts(Tail(s), part)

LEMMA PartsAre ==
  ASSUME NEW S, NEW T, NEW part \in [S -> Seq(T)], NEW writes \in Seq(S)
  PROVE  InParts(S, T, part, writes)
<1> DEFINE parts(u) == [i \in DOMAIN u |-> part[u[i]]]
<1>1. \A x \in S : part[x] \in Seq(T)
  OBVIOUS
<1>2. ASSUME NEW ws \in Seq(S)
      PROVE  /\ parts(ws) \in Seq(Seq(T)) /\ Len(parts(ws)) = Len(ws)
             /\ DOMAIN parts(ws) = 1..Len(ws)
             /\ \A i \in 1..Len(ws) : parts(ws)[i] = part[ws[i]]
             /\ Parts(ws, part) = FlattenSeq(parts(ws))
  <2>1. DOMAIN ws = 1..Len(ws) /\ \A i \in 1..Len(ws) : ws[i] \in S
    OBVIOUS
  <2>2. Parts(ws, part) = FlattenSeq(parts(ws))
    BY DEF Parts
  <2>3. \A i \in 1..Len(ws) : part[ws[i]] \in Seq(T)
    BY <1>1, <2>1
  <2> QED
    BY <2>1, <2>2, <2>3
<1> HIDE DEF parts
<1>3. Parts(writes, part) \in Seq(T)
  BY <1>2, FlattenIsSeq
<1>4. ASSUME NEW r \in S
      PROVE  Parts(Append(writes, r), part) = Parts(writes, part) \o part[r]
  <2>1. Append(writes, r) \in Seq(S) /\ part[r] \in Seq(T)
    BY <1>1
  <2>2. parts(Append(writes, r)) = Append(parts(writes), part[r])
    <3> DEFINE x == parts(Append(writes, r))
               y == Append(parts(writes), part[r])
               n == Len(writes)
    <3>1. /\ n \in Nat /\ Len(Append(writes, r)) = n + 1
          /\ \A i \in 1..n : Append(writes, r)[i] = writes[i]
          /\ Append(writes, r)[n + 1] = r
      OBVIOUS
    <3>2. /\ x \in Seq(Seq(T)) /\ Len(x) = n + 1
          /\ \A i \in 1..(n + 1) : x[i] = part[Append(writes, r)[i]]
      BY <1>2, <2>1, <3>1
    <3>3. /\ parts(writes) \in Seq(Seq(T)) /\ Len(parts(writes)) = n
          /\ \A i \in 1..n : parts(writes)[i] = part[writes[i]]
      BY <1>2
    <3> DEFINE p == parts(writes)
               q == part[r]
    <3> HIDE DEF p, q, n
    <3>4. /\ Append(p, q) \in Seq(Seq(T)) /\ Len(Append(p, q)) = n + 1
          /\ \A i \in 1..n : Append(p, q)[i] = p[i]
          /\ Append(p, q)[n + 1] = q
      <4>1. p \in Seq(Seq(T)) /\ q \in Seq(T) /\ Len(p) = n /\ n \in Nat
        BY <2>1, <3>1, <3>3 DEF p, q
      <4> QED
        BY <4>1, AppendProperties
    <3>5. ASSUME NEW i \in 1..(n + 1) PROVE x[i] = Append(p, q)[i]
      <4>1. CASE i \in 1..n
        BY <3>1, <3>2, <3>3, <3>4, <4>1 DEF p
      <4>2. CASE i = n + 1
        <5> HIDE DEF x
        <5>1. x[i] = part[Append(writes, r)[i]]
          BY <3>2
        <5>2. Append(writes, r)[i] = r /\ Append(p, q)[i] = q
          BY <3>1, <3>4, <4>2
        <5> QED
          BY <5>1, <5>2 DEF q
      <4>3. n \in Nat
        BY <3>1
      <4>4. i \in 1..n \/ i = n + 1
        BY <4>3
      <4> QED
        BY <4>1, <4>2, <4>4
    <3> HIDE DEF x
    <3>6. x = Append(p, q)
      BY <3>2, <3>4, <3>5, SeqEqual
    <3> QED
      BY <3>6 DEF x, p, q
  <2> DEFINE p == parts(writes)
             q == part[r]
  <2>3. p \in Seq(Seq(T)) /\ q \in Seq(T)
    BY <1>2, <2>1
  <2>4. Parts(Append(writes, r), part) = FlattenSeq(Append(p, q))
    BY <1>2, <2>1, <2>2
  <2>5. Parts(writes, part) = FlattenSeq(p)
    BY <1>2
  <2> HIDE DEF p, q
  <2>6. FlattenSeq(Append(p, q)) = FlattenSeq(p) \o q
    BY <2>3, FlattenAppend
  <2> QED
    BY <2>4, <2>5, <2>6 DEF q
<1>5. writes # << >> => Parts(writes, part) = part[Head(writes)] \o Parts(Tail(writes), part)
  <2> SUFFICES ASSUME writes # << >>
               PROVE  Parts(writes, part) = part[Head(writes)] \o Parts(Tail(writes), part)
    OBVIOUS
  <2>1. /\ Tail(writes) \in Seq(S) /\ Head(writes) \in S
        /\ Head(writes) = writes[1] /\ 1 \in 1..Len(writes) /\ Len(writes) \in Nat
        /\ Len(Tail(writes)) = Len(writes) - 1
        /\ \A i \in 1..(Len(writes) - 1) : Tail(writes)[i] = writes[i + 1]
    OBVIOUS
  <2> DEFINE p == parts(writes)
             t == parts(Tail(writes))
             n == Len(writes)
  <2>2. /\ p \in Seq(Seq(T)) /\ Len(p) = n
        /\ \A i \in 1..n : p[i] = part[writes[i]]
        /\ t \in Seq(Seq(T)) /\ Len(t) = n - 1
        /\ \A i \in 1..(n - 1) : t[i] = part[writes[i + 1]]
    <3> DEFINE v == Tail(writes)
    <3>1. p \in Seq(Seq(T)) /\ Len(p) = n /\ \A i \in 1..n : p[i] = part[writes[i]]
      BY <1>2
    <3>2. v \in Seq(S) /\ Len(v) = n - 1
          /\ \A i \in 1..(n - 1) : v[i] = writes[i + 1]
      BY <2>1
    <3> HIDE DEF v, p, n
    <3>3. /\ parts(v) \in Seq(Seq(T)) /\ Len(parts(v)) = Len(v)
          /\ \A i \in 1..Len(v) : parts(v)[i] = part[v[i]]
      BY <1>2, <3>2
    <3> QED
      BY <3>1, <3>2, <3>3 DEF v
  <2>3. n \in Nat /\ 1 \in 1..n
    BY <2>1
  <2> HIDE DEF p, t, n
  <2>4. p # << >> /\ Head(p) = p[1] /\ Tail(p) \in Seq(Seq(T)) /\ Len(Tail(p)) = n - 1
        /\ \A i \in 1..(n - 1) : Tail(p)[i] = p[i + 1]
    BY <2>2, <2>3
  <2>5. Tail(p) = t
    <3>1. ASSUME NEW i \in 1..(n - 1) PROVE Tail(p)[i] = t[i]
      <4>1. i + 1 \in 1..n
        BY <2>3
      <4> QED
        BY <2>2, <2>4, <4>1
    <3> QED
      BY <2>2, <2>4, <3>1, SeqEqual
  <2>6. FlattenSeq(p) = Head(p) \o FlattenSeq(Tail(p))
    BY <2>2, <2>4, FlattenHead
  <2>7. Head(p) = part[Head(writes)]
    BY <2>1, <2>2, <2>3, <2>4
  <2> QED
    BY <1>2, <2>1, <2>5, <2>6, <2>7 DEF p, t
<1>6. Parts(<< >>, part) = << >>
  BY FlattenNone DEF Parts
<1> QED
  BY <1>3, <1>4, <1>5, <1>6 DEF InParts

\* The requests among the queued writes, and their order.
LEMMA QueuedIs ==
  ASSUME NEW writes \in Seq({0} \cup Request)
  PROVE  /\ Queued(writes) \in Seq(Request)
         /\ Queued(Append(writes, 0)) = Queued(writes)
         /\ \A r \in Request : Queued(Append(writes, r)) = Append(Queued(writes), r)
         /\ writes # << >> =>
              Queued(writes) = (IF Head(writes) = 0 THEN << >> ELSE <<Head(writes)>>)
                                 \o Queued(Tail(writes))
<1> DEFINE part == [r \in {0} \cup Request |-> IF r = 0 THEN << >> ELSE <<r>>]
<1>1. part \in [{0} \cup Request -> Seq(Request)]
  <2>1. \A r \in {0} \cup Request : (IF r = 0 THEN << >> ELSE <<r>>) \in Seq(Request)
    OBVIOUS
  <2> QED
    BY <2>1
<1>2. ASSUME NEW ws \in Seq({0} \cup Request) PROVE Queued(ws) = Parts(ws, part)
  <2>1. [i \in DOMAIN ws |-> IF ws[i] = 0 THEN << >> ELSE <<ws[i]>>]
          = [i \in DOMAIN ws |-> part[ws[i]]]
    OBVIOUS
  <2> QED
    BY <2>1 DEF Queued, Parts
<1>3. \A r \in {0} \cup Request : part[r] = IF r = 0 THEN << >> ELSE <<r>>
  OBVIOUS
<1> HIDE DEF part
<1>4. /\ Queued(writes) \in Seq(Request)
      /\ \A r \in {0} \cup Request : Queued(Append(writes, r)) = Queued(writes) \o part[r]
      /\ writes # << >> => Queued(writes) = part[Head(writes)] \o Queued(Tail(writes))
  <2>1. /\ \A r \in {0} \cup Request : Append(writes, r) \in Seq({0} \cup Request)
        /\ writes # << >> => Tail(writes) \in Seq({0} \cup Request)
    OBVIOUS
  <2>2. /\ Parts(writes, part) \in Seq(Request)
        /\ \A r \in {0} \cup Request :
             Parts(Append(writes, r), part) = Parts(writes, part) \o part[r]
        /\ writes # << >> =>
             Parts(writes, part) = part[Head(writes)] \o Parts(Tail(writes), part)
    <3>1. InParts({0} \cup Request, Request, part, writes)
      BY <1>1, PartsAre
    <3> QED
      BY <3>1 DEF InParts
  <2> QED
    BY <1>2, <2>1, <2>2
<1>5. writes # << >> => Head(writes) \in {0} \cup Request
  OBVIOUS
<1>6. Queued(writes) \o << >> = Queued(writes)
  BY <1>4
<1>7. \A r \in Request : r # 0 /\ Queued(writes) \o <<r>> = Append(Queued(writes), r)
  <2>1. \A r \in Request : r # 0
    BY CountIsNat DEF Request
  <2> QED
    BY <1>4, <2>1
<1> QED
  BY <1>3, <1>4, <1>5, <1>6, <1>7

\* The notifications among the payloads.
Notices(payloads) ==
  Len(Parts(payloads, [p \in Seq(Byte) |-> IF p = Notification THEN <<p>> ELSE << >>]))

LEMMA NoticesAre ==
  ASSUME NEW payloads \in Seq(Seq(Byte))
  PROVE  /\ Notices(<< >>) = 0 /\ Notices(payloads) \in Nat
         /\ \A p \in Seq(Byte) :
              Notices(Append(payloads, p))
                = Notices(payloads) + (IF p = Notification THEN 1 ELSE 0)
         /\ payloads # << >> =>
              Notices(payloads) = (IF Head(payloads) = Notification THEN 1 ELSE 0)
                                    + Notices(Tail(payloads))
<1> DEFINE part == [p \in Seq(Byte) |-> IF p = Notification THEN <<p>> ELSE << >>]
<1>1. part \in [Seq(Byte) -> Seq(Seq(Byte))]
  <2>1. ASSUME NEW p \in Seq(Byte)
        PROVE  (IF p = Notification THEN <<p>> ELSE << >>) \in Seq(Seq(Byte))
    <3>1. <<p>> \in Seq(Seq(Byte)) /\ << >> \in Seq(Seq(Byte))
      <4> DEFINE P == Seq(Byte)
      <4>1. p \in P
        OBVIOUS
      <4> HIDE DEF P
      <4>2. <<p>> \in Seq(P) /\ << >> \in Seq(P)
        BY <4>1
      <4> QED
        BY <4>2 DEF P
    <3> QED
      BY <3>1
  <2> QED
    BY <2>1
<1>2. \A p \in Seq(Byte) : Len(part[p]) = IF p = Notification THEN 1 ELSE 0
  OBVIOUS
<1>3. \A s : Notices(s) = Len(Parts(s, part))
  BY DEF Notices
<1> HIDE DEF part
<1> DEFINE P == Seq(Byte)
<1>4. part \in [P -> Seq(P)] /\ payloads \in Seq(P)
  BY <1>1
<1> HIDE DEF P
<1>5. /\ Parts(<< >>, part) = << >>
      /\ Parts(payloads, part) \in Seq(P)
      /\ \A p \in P : Parts(Append(payloads, p), part) = Parts(payloads, part) \o part[p]
      /\ payloads # << >> =>
           Parts(payloads, part) = part[Head(payloads)] \o Parts(Tail(payloads), part)
  <2>1. InParts(P, P, part, payloads)
    BY <1>4, PartsAre
  <2> QED
    BY <2>1 DEF InParts
<1>6. payloads # << >> =>
        /\ Head(payloads) \in P /\ Tail(payloads) \in Seq(P)
        /\ part[Head(payloads)] \in Seq(P) /\ Parts(Tail(payloads), part) \in Seq(P)
  <2> SUFFICES ASSUME payloads # << >>
               PROVE  /\ Head(payloads) \in P /\ Tail(payloads) \in Seq(P)
                      /\ part[Head(payloads)] \in Seq(P)
                      /\ Parts(Tail(payloads), part) \in Seq(P)
    OBVIOUS
  <2>1. Head(payloads) \in P /\ Tail(payloads) \in Seq(P)
    BY <1>4
  <2>2. Parts(Tail(payloads), part) \in Seq(P)
    <3>1. InParts(P, P, part, Tail(payloads))
      BY <1>4, <2>1, PartsAre
    <3> QED
      BY <3>1 DEF InParts
  <2> QED
    BY <1>4, <2>1, <2>2
<1>7. \A p \in P : Len(Parts(Append(payloads, p), part))
                     = Len(Parts(payloads, part)) + Len(part[p])
  <2>1. \A p \in P : part[p] \in Seq(P)
    BY <1>4
  <2> QED
    BY <1>5, <2>1
<1>8. payloads # << >> => Len(Parts(payloads, part))
                            = Len(part[Head(payloads)]) + Len(Parts(Tail(payloads), part))
  BY <1>5, <1>6
<1>9. Len(Parts(<< >>, part)) = 0 /\ Len(Parts(payloads, part)) \in Nat
  BY <1>5
<1> QED
  BY <1>2, <1>3, <1>6, <1>7, <1>8, <1>9 DEF P

\* What has been handled is counted among the answers or the notifications, and the
\* announcement waits until more has come than requests were to be sent.
RpcCounted(h) ==
  /\ h.received + Notices(h.due) <= h.answered + notifications
  /\ h.announced => h.received + subscriptions > STUDIO_REQUESTS_COUNT

\* One more request, requests that are dropped.
LEMMA UpToMore ==
  ASSUME NEW s \in Seq(Nat), NEW n \in Nat, UpTo(s, n)
  PROVE  UpTo(Append(s, n + 1), n + 1)
<1> DEFINE m == Len(s)
           t == Append(s, n + 1)
<1>1. /\ m \in Nat /\ DOMAIN s = 1..m /\ DOMAIN t = 1..(m + 1)
      /\ \A i \in 1..m : t[i] = s[i] /\ s[i] \in Nat
      /\ t[m + 1] = n + 1
  OBVIOUS
<1> HIDE DEF m, t
<1>2. /\ \A i \in 1..m : s[i] <= n
      /\ \A i, j \in 1..m : i < j => s[i] < s[j]
  BY <1>1 DEF UpTo, Increasing
<1>3. ASSUME NEW i \in 1..(m + 1) PROVE t[i] <= n + 1
  BY <1>1, <1>2
<1>4. ASSUME NEW i \in 1..(m + 1), NEW j \in 1..(m + 1), i < j PROVE t[i] < t[j]
  <2>1. i \in 1..m
    BY <1>1, <1>4
  <2>2. CASE j \in 1..m
    BY <1>1, <1>2, <1>4, <2>1, <2>2
  <2>3. CASE j = m + 1
    BY <1>1, <1>2, <2>1, <2>3
  <2>4. j \in 1..m \/ j = m + 1
    BY <1>1
  <2> QED
    BY <2>2, <2>3, <2>4
<1>5. UpTo(t, n + 1)
  BY <1>1, <1>3, <1>4 DEF UpTo, Increasing
<1> QED
  BY <1>5 DEF t

LEMMA UpToLess ==
  ASSUME NEW s \in Seq(Nat), NEW r \in Nat, NEW t \in Seq(Nat), NEW n \in Nat
  PROVE  /\ UpTo(s \o t, n) => UpTo(s, n)
         /\ UpTo(s \o (<<r>> \o t), n) => UpTo(s \o t, n)
<1> DEFINE k == Len(s)
           m == Len(t)
           st == s \o t
           rt == <<r>> \o t
           srt == s \o rt
<1>1. /\ k \in Nat /\ m \in Nat /\ DOMAIN s = 1..k
  OBVIOUS
<1>2. Concatenates(Nat, s, t, st)
  BY PartsOfConcat
<1>3. rt \in Seq(Nat) /\ Len(rt) = m + 1 /\ \A i \in 1..m : rt[i + 1] = t[i]
  <2>1. <<r>> \in Seq(Nat) /\ Len(<<r>>) = 1
    OBVIOUS
  <2>2. Concatenates(Nat, <<r>>, t, rt)
    BY <2>1, PartsOfConcat
  <2> HIDE DEF rt, m
  <2>3. /\ rt \in Seq(Nat) /\ Len(rt) = Len(<<r>>) + Len(t)
        /\ \A i \in 1..Len(t) : rt[Len(<<r>>) + i] = t[i]
    BY <2>2 DEF Concatenates
  <2>4. \A i \in 1..m : i + 1 = 1 + i
    BY <1>1
  <2> QED
    BY <1>1, <2>1, <2>3, <2>4 DEF m
<1>4. Concatenates(Nat, s, rt, srt)
  <2> HIDE DEF rt
  <2> QED
    BY <1>3, PartsOfConcat
<1> HIDE DEF st, rt, srt
<1>5. /\ st \in Seq(Nat) /\ DOMAIN st = 1..(k + m)
      /\ \A i \in 1..k : st[i] = s[i]
      /\ \A i \in 1..m : st[k + i] = t[i]
  BY <1>1, <1>2 DEF Concatenates
<1>6. /\ srt \in Seq(Nat) /\ DOMAIN srt = 1..(k + (m + 1))
      /\ \A i \in 1..k : srt[i] = s[i]
      /\ \A i \in 1..(m + 1) : srt[k + i] = rt[i]
  BY <1>1, <1>3, <1>4 DEF Concatenates
<1> HIDE DEF k, m
<1>7. UpTo(st, n) => UpTo(s, n)
  <2> SUFFICES ASSUME UpTo(st, n) PROVE UpTo(s, n)
    OBVIOUS
  <2>1. /\ \A i \in 1..(k + m) : st[i] <= n
        /\ \A i, j \in 1..(k + m) : i < j => st[i] < st[j]
    BY <1>5 DEF UpTo, Increasing
  <2>2. \A i \in 1..k : i \in 1..(k + m) /\ st[i] = s[i]
    BY <1>1, <1>5
  <2>3. /\ \A i \in 1..k : s[i] <= n
        /\ \A i, j \in 1..k : i < j => s[i] < s[j]
    BY <2>1, <2>2
  <2> QED
    BY <1>1, <2>3 DEF UpTo, Increasing
\* Where the elements that stay were before.
<1> DEFINE at(i) == IF i <= k THEN i ELSE i + 1
<1>8. ASSUME NEW i \in 1..(k + m) PROVE at(i) \in 1..(k + (m + 1)) /\ st[i] = srt[at(i)]
  <2>1. CASE i <= k
    BY <1>1, <1>5, <1>6, <2>1
  <2>2. CASE i > k
    <3> DEFINE j == i - k
    <3>1. j \in 1..m /\ i = k + j /\ j + 1 \in 1..(m + 1) /\ i + 1 = k + (j + 1)
      BY <1>1, <2>2
    <3>2. at(i) = i + 1
      BY <1>1, <2>2
    <3> HIDE DEF j
    <3>3. st[i] = t[j] /\ srt[i + 1] = rt[j + 1] /\ rt[j + 1] = t[j]
      BY <1>3, <1>5, <1>6, <3>1
    <3> QED
      BY <1>1, <3>2, <3>3
  <2> QED
    BY <1>1, <2>1, <2>2
<1>9. UpTo(srt, n) => UpTo(st, n)
  <2> SUFFICES ASSUME UpTo(srt, n) PROVE UpTo(st, n)
    OBVIOUS
  <2>1. /\ \A i \in 1..(k + (m + 1)) : srt[i] <= n
        /\ \A i, j \in 1..(k + (m + 1)) : i < j => srt[i] < srt[j]
    BY <1>6 DEF UpTo, Increasing
  <2>2. ASSUME NEW i \in 1..(k + m), NEW j \in 1..(k + m), i < j PROVE at(i) < at(j)
    BY <1>1, <2>2
  <2> HIDE DEF at
  <2>3. \A i \in 1..(k + m) : st[i] <= n
    BY <1>8, <2>1
  <2>4. ASSUME NEW i \in 1..(k + m), NEW j \in 1..(k + m), i < j PROVE st[i] < st[j]
    BY <1>8, <2>1, <2>2, <2>4
  <2> QED
    BY <1>5, <2>3, <2>4 DEF UpTo, Increasing
<1> QED
  BY <1>7, <1>9 DEF st, srt, rt

\* A frame that ends, field by field.
LEMMA HandledIs ==
  ASSUME NEW h \in RpcState, NEW byte \in Byte, NEW takes \in BOOLEAN,
         EndsFrame(h.decoder, byte)
  PROVE  LET g == frame_rx_byte(h, byte, takes)
         IN  /\ g.received = h.received + 1
             /\ g.decoder = DecodeByte(h.decoder, byte, FrameBuf)
             /\ g.due = IF h.due = << >> THEN h.due ELSE Tail(h.due)
             /\ g.answered = IF h.due # << >> /\ Head(h.due) = Notification
                             THEN h.answered ELSE h.answered + 1
             /\ g.misread = (h.misread \/ h.due = << >>
                              \/ h.decoder.payload
                                   # SubSeq(Head(h.due), 1, Min({FrameBuf, Len(Head(h.due))})))
             /\ IF h.sent < STUDIO_REQUESTS_COUNT
                THEN /\ g.sent = h.sent + 1 /\ g.announced = h.announced
                     /\ g.att = IF takes THEN Append(h.att, h.sent + 1) ELSE h.att
                ELSE g.sent = h.sent /\ g.announced = TRUE /\ g.att = h.att
<1> DEFINE after == [h EXCEPT !.decoder = DecodeByte(h.decoder, byte, FrameBuf)]
           fits == SubSeq(Head(after.due), 1, Min({FrameBuf, Len(Head(after.due))}))
           seen == [after EXCEPT
                      !.received = @ + 1,
                      !.due      = IF @ = << >> THEN @ ELSE Tail(@),
                      !.answered = IF after.due # << >> /\ Head(after.due) = Notification
                                   THEN @ ELSE @ + 1,
                      !.misread  = @ \/ after.due = << >> \/ h.decoder.payload # fits]
           g == frame_rx_byte(h, byte, takes)
<1>1. h \in RpcState /\ STUDIO_REQUESTS_COUNT \in Nat /\ h.sent \in Nat
  BY CountIsNat DEF RpcState
<1>2. g = IF seen.sent < STUDIO_REQUESTS_COUNT
          THEN send_next_request(seen, takes)
          ELSE [seen EXCEPT !.announced = TRUE]
  BY DEF frame_rx_byte, handle_frame
<1>3. /\ after.due = h.due /\ after.received = h.received /\ after.answered = h.answered
      /\ after.misread = h.misread /\ after.sent = h.sent /\ after.att = h.att
      /\ after.announced = h.announced
      /\ after.decoder = DecodeByte(h.decoder, byte, FrameBuf)
      /\ DOMAIN after = {"sent", "received", "decoder", "announced", "att", "due", "answered",
                         "misread"}
  BY <1>1 DEF RpcState
<1> HIDE DEF after
<1>4. /\ seen.sent = h.sent /\ seen.att = h.att /\ seen.announced = h.announced
      /\ seen.decoder = after.decoder /\ seen.received = h.received + 1
      /\ seen.due = (IF h.due = << >> THEN h.due ELSE Tail(h.due))
      /\ seen.answered = (IF h.due # << >> /\ Head(h.due) = Notification
                          THEN h.answered ELSE h.answered + 1)
      /\ seen.misread = (h.misread \/ h.due = << >> \/ h.decoder.payload # fits)
      /\ DOMAIN seen = DOMAIN after
  BY <1>3
<1>5. fits = SubSeq(Head(h.due), 1, Min({FrameBuf, Len(Head(h.due))}))
  BY <1>3
<1> HIDE DEF seen, fits
<1>6. CASE h.sent < STUDIO_REQUESTS_COUNT
  <2>1. g = [seen EXCEPT !.sent = @ + 1,
                         !.att = IF takes THEN Append(@, seen.sent + 1) ELSE @]
    BY <1>1, <1>2, <1>4, <1>6 DEF send_next_request
  <2> HIDE DEF g
  <2>2. /\ g.sent = h.sent + 1 /\ g.announced = h.announced
        /\ g.att = (IF takes THEN Append(h.att, h.sent + 1) ELSE h.att)
        /\ g.received = seen.received /\ g.decoder = seen.decoder /\ g.due = seen.due
        /\ g.answered = seen.answered /\ g.misread = seen.misread
    BY <1>3, <1>4, <2>1
  <2> QED
    BY <1>3, <1>4, <1>5, <1>6, <2>2 DEF g
<1>7. CASE ~(h.sent < STUDIO_REQUESTS_COUNT)
  <2>1. g = [seen EXCEPT !.announced = TRUE]
    BY <1>2, <1>4, <1>7
  <2> HIDE DEF g
  <2>2. /\ g.sent = h.sent /\ g.announced = TRUE /\ g.att = h.att
        /\ g.received = seen.received /\ g.decoder = seen.decoder /\ g.due = seen.due
        /\ g.answered = seen.answered /\ g.misread = seen.misread
    BY <1>3, <1>4, <2>1
  <2> QED
    BY <1>3, <1>4, <1>5, <1>7, <2>2 DEF g
<1> QED
  BY <1>6, <1>7

\* What fits of a payload, as the handler computes it.
LEMMA FitIsSubSeq ==
  ASSUME NEW p \in Seq(Byte)
  PROVE  SubSeq(p, 1, Min({FrameBuf, Len(p)})) = Fit(p, FrameBuf)
<1> DEFINE S == {FrameBuf, Len(p)}
<1>1. FrameBuf \in Nat /\ Len(p) \in Nat
  BY StudioAssumption DEF StudioAssumption
<1>2. \E x \in S : \A y \in S : x <= y
  <2>1. FrameBuf <= Len(p) \/ Len(p) <= FrameBuf
    BY <1>1
  <2> QED
    BY <1>1, <2>1
<1>3. Min(S) \in S /\ \A y \in S : Min(S) <= y
  <2> HIDE DEF S
  <2> QED
    BY <1>2 DEF Min
<1>4. CASE Len(p) <= FrameBuf
  <2>1. Min(S) = Len(p)
    BY <1>1, <1>3, <1>4
  <2>2. SubSeq(p, 1, Len(p)) = p
    BY SubSeqFull
  <2> QED
    BY <1>4, <2>1, <2>2 DEF Fit
<1>5. CASE ~(Len(p) <= FrameBuf)
  <2>1. Min(S) = FrameBuf
    BY <1>1, <1>3, <1>5
  <2> QED
    BY <1>5, <2>1 DEF Fit
<1> QED
  BY <1>4, <1>5

\* A byte of an indication keeps the requests in order and the decoder in step.
LEMMA ByteKeepsGood ==
  ASSUME TypeOK, NEW h \in RpcState, NEW w \in Seq(Byte), w # << >>, NEW takes \in BOOLEAN,
         RpcGood(h, w)
  PROVE  RpcGood(frame_rx_byte(h, Head(w), takes), Tail(w))
<1> DEFINE byte == Head(w)
           g == frame_rx_byte(h, byte, takes)
           e == DecodeByte(h.decoder, byte, FrameBuf)
<1>1. /\ byte \in Byte /\ Tail(w) \in Seq(Byte) /\ STUDIO_REQUESTS_COUNT \in Nat
      /\ taken \in Seq(Request) /\ subscriptions \in Nat /\ FrameBuf \in Nat
      /\ h.sent \in 0..STUDIO_REQUESTS_COUNT /\ h.received \in Nat /\ h.decoder \in Decoder
      /\ h.att \in Seq({0} \cup Request) /\ h.due \in Seq(Seq(Byte)) /\ h.misread \in BOOLEAN
  BY CountIsNat, StudioAssumption DEF RpcState, TypeOK, StudioAssumption
<1>2. /\ UpTo(taken \o Queued(h.att), h.sent)
      /\ h.sent <= subscriptions + h.received
      /\ ~cutInEscape => ~h.misread /\ InSync(h.decoder, w, h.due, FrameBuf)
  BY DEF RpcGood
<1>3. ASSUME ~cutInEscape
      PROVE  /\ h.due # << >>
             /\ EndsFrame(h.decoder, byte) =>
                  /\ h.decoder.payload = Fit(Head(h.due), FrameBuf)
                  /\ Tail(w) = Frames(Tail(h.due))
             /\ ~EndsFrame(h.decoder, byte) =>
                  InFrame(e, Tail(w), Head(h.due), Frames(Tail(h.due)), FrameBuf)
  BY <1>1, <1>2, <1>3, InSyncStep
<1>4. CASE ~EndsFrame(h.decoder, byte)
  <2>1. /\ g.sent = h.sent /\ g.att = h.att /\ g.received = h.received /\ g.due = h.due
        /\ g.misread = h.misread /\ g.decoder = e
    BY <1>4 DEF frame_rx_byte, RpcState
  <2>2. ASSUME ~cutInEscape PROVE InSync(e, Tail(w), h.due, FrameBuf)
    BY <1>3, <1>4, <2>2 DEF InSync
  <2> HIDE DEF g, e
  <2>3. RpcGood(g, Tail(w))
    BY <1>2, <2>1, <2>2 DEF RpcGood
  <2> QED
    BY <2>3 DEF g
<1>5. CASE EndsFrame(h.decoder, byte)
  <2> DEFINE fits == SubSeq(Head(h.due), 1, Min({FrameBuf, Len(Head(h.due))}))
  <2>1. /\ g.received = h.received + 1 /\ g.decoder = e
        /\ g.due = (IF h.due = << >> THEN h.due ELSE Tail(h.due))
        /\ g.misread = (h.misread \/ h.due = << >> \/ h.decoder.payload # fits)
        /\ IF h.sent < STUDIO_REQUESTS_COUNT
           THEN /\ g.sent = h.sent + 1
                /\ g.att = IF takes THEN Append(h.att, h.sent + 1) ELSE h.att
           ELSE g.sent = h.sent /\ g.att = h.att
    BY <1>1, <1>5, HandledIs
  <2> HIDE DEF g
  <2>2. UpTo(taken \o Queued(g.att), g.sent)
    <3> DEFINE q == Queued(h.att)
    <3>1. q \in Seq(Request) /\ \A r \in Request : Queued(Append(h.att, r)) = Append(q, r)
      BY <1>1, QueuedIs
    <3> HIDE DEF q
    <3>2. Request \subseteq Nat
      BY <1>1 DEF Request
    <3>3. UpTo(taken \o q, h.sent) /\ taken \o q \in Seq(Nat) /\ h.sent \in Nat
      <4>1. taken \o q \in Seq(Request)
        BY <1>1, <3>1
      <4>2. UpTo(taken \o q, h.sent)
        BY <1>2 DEF q
      <4>3. Seq(Request) \subseteq Seq(Nat)
        BY <3>2, SeqMonotonic
      <4> QED
        BY <1>1, <4>1, <4>2, <4>3
    <3>4. CASE h.sent < STUDIO_REQUESTS_COUNT /\ takes
      <4>1. h.sent + 1 \in Request
        BY <1>1, <3>4 DEF Request
      <4>2. Queued(g.att) = Append(q, h.sent + 1)
        BY <2>1, <3>1, <3>4, <4>1
      <4>3. taken \o Append(q, h.sent + 1) = Append(taken \o q, h.sent + 1)
        BY <1>1, <3>1, <4>1
      <4>4. UpTo(Append(taken \o q, h.sent + 1), h.sent + 1)
        BY <3>3, UpToMore
      <4> QED
        BY <2>1, <3>4, <4>2, <4>3, <4>4
    <3>5. CASE h.sent < STUDIO_REQUESTS_COUNT /\ ~takes
      <4>1. Queued(g.att) = q /\ g.sent = h.sent + 1
        BY <2>1, <3>5 DEF q
      <4>2. ASSUME NEW i \in DOMAIN (taken \o q) PROVE (taken \o q)[i] <= h.sent + 1
        <5> DEFINE s == taken \o q
        <5>1. s \in Seq(Nat) /\ s[i] <= h.sent /\ h.sent \in Nat
          BY <3>3 DEF UpTo
        <5>2. i \in DOMAIN s
          OBVIOUS
        <5> HIDE DEF s
        <5>3. s[i] \in Nat
          BY <5>1, <5>2
        <5>4. s[i] <= h.sent + 1
          BY <5>1, <5>3
        <5> QED
          BY <5>4 DEF s
      <4> QED
        BY <3>3, <4>1, <4>2 DEF UpTo
    <3>6. CASE ~(h.sent < STUDIO_REQUESTS_COUNT)
      BY <2>1, <3>3, <3>6 DEF q
    <3> QED
      BY <3>4, <3>5, <3>6
  <2>3. g.sent <= subscriptions + g.received
    BY <1>1, <1>2, <2>1
  <2>4. ASSUME ~cutInEscape
        PROVE  ~g.misread /\ InSync(g.decoder, Tail(w), g.due, FrameBuf)
    <3>1. h.due # << >> /\ Head(h.due) \in Seq(Byte)
      BY <1>1, <1>3, <2>4
    <3>2. h.decoder.payload = fits
      BY <1>3, <1>5, <2>4, <3>1, FitIsSubSeq
    <3>3. ~g.misread
      BY <1>2, <2>1, <2>4, <3>1, <3>2
    <3>4. g.due = Tail(h.due) /\ Tail(w) = Frames(Tail(h.due))
      BY <1>3, <1>5, <2>1, <2>4, <3>1
    <3>5. ~e.escaped
      BY <1>1, <1>5, FramingAssumption DEF EndsFrame, DecodeByte, FramingAssumption
    <3> QED
      BY <2>1, <3>3, <3>4, <3>5 DEF InSync
  <2>5. RpcGood(g, Tail(w))
    BY <2>2, <2>3, <2>4 DEF RpcGood
  <2> QED
    BY <2>5 DEF g
<1> QED
  BY <1>4, <1>5

\* Undisturbed, a frame is the answer to the one request not yet answered.
LEMMA ByteKeepsQuiet ==
  ASSUME TypeOK, NEW h \in RpcState, NEW w \in Seq(Byte), w # << >>,
         RpcGood(h, w), RpcQuiet(h), ~cutInEscape
  PROVE  RpcQuiet(frame_rx_byte(h, Head(w), TRUE))
<1> DEFINE byte == Head(w)
           g == frame_rx_byte(h, byte, TRUE)
           q == Queued(h.att)
<1>1. /\ byte \in Byte /\ STUDIO_REQUESTS_COUNT \in Nat /\ asked \in Seq(Request)
      /\ h.sent \in 0..STUDIO_REQUESTS_COUNT /\ h.decoder \in Decoder /\ FrameBuf \in Nat
      /\ h.att \in Seq({0} \cup Request) /\ h.due \in Seq(Seq(Byte)) /\ h.answered \in Nat
  BY CountIsNat, StudioAssumption DEF RpcState, TypeOK, StudioAssumption
<1>2. CASE ~EndsFrame(h.decoder, byte)
  <2>1. /\ g.sent = h.sent /\ g.att = h.att /\ g.due = h.due /\ g.answered = h.answered
        /\ g.announced = h.announced
    BY <1>2 DEF frame_rx_byte, RpcState
  <2> HIDE DEF g
  <2>2. RpcQuiet(g)
    BY <2>1 DEF RpcQuiet
  <2> QED
    BY <2>2 DEF g
<1>3. CASE EndsFrame(h.decoder, byte)
  <2>1. h.due # << >>
    BY <1>1, InSyncStep DEF RpcGood
  <2>2. /\ h.sent = h.answered + Len(q) + Len(asked) + Len(h.due)
        /\ h.sent <= h.answered + 1
        /\ \A i \in DOMAIN h.due : h.due[i] # Notification
        /\ h.announced => h.answered = STUDIO_REQUESTS_COUNT
    BY DEF RpcQuiet
  <2>3. /\ q \in Seq(Request) /\ \A r \in Request : Queued(Append(h.att, r)) = Append(q, r)
    BY <1>1, QueuedIs
  <2> HIDE DEF q
  <2>4. /\ Head(h.due) # Notification
        /\ Tail(h.due) \in Seq(Seq(Byte)) /\ Len(Tail(h.due)) = Len(h.due) - 1
        /\ Len(h.due) \in Nat \ {0} /\ Len(q) \in Nat /\ Len(asked) \in Nat
    <3>1. Head(h.due) = h.due[1] /\ 1 \in DOMAIN h.due
      BY <1>1, <2>1
    <3>2. Len(h.due) \in Nat \ {0} /\ Len(q) \in Nat /\ Len(asked) \in Nat
      BY <1>1, <2>1, <2>3
    <3> QED
      BY <1>1, <2>1, <2>2, <3>1, <3>2, HeadTailProperties
  <2>5. /\ g.due = Tail(h.due) /\ g.answered = h.answered + 1
        /\ IF h.sent < STUDIO_REQUESTS_COUNT
           THEN /\ g.sent = h.sent + 1 /\ g.att = Append(h.att, h.sent + 1)
                /\ g.announced = h.announced
           ELSE g.sent = h.sent /\ g.announced = TRUE /\ g.att = h.att
    BY <1>1, <1>3, <2>1, <2>4, HandledIs
  <2> HIDE DEF g
  <2> DEFINE nq == Len(q)
             na == Len(asked)
             nd == Len(h.due)
  <2>6. nq = 0 /\ na = 0 /\ nd = 1 /\ h.sent = h.answered + 1
    <3>1. /\ nq \in Nat /\ na \in Nat /\ nd \in Nat \ {0}
          /\ h.sent = h.answered + nq + na + nd
      BY <2>2, <2>4
    <3> HIDE DEF nq, na, nd
    <3> QED
      BY <1>1, <2>2, <3>1
  <2>7. g.due = << >> /\ Len(g.due) = 0
    <3>1. g.due \in Seq(Seq(Byte)) /\ Len(g.due) = 0
      BY <2>4, <2>5, <2>6
    <3> QED
      BY <3>1, EmptySeq
  <2>8. CASE h.sent < STUDIO_REQUESTS_COUNT
    <3>1. h.sent + 1 \in Request
      BY <1>1, <2>8 DEF Request
    <3>2. Queued(g.att) = Append(q, h.sent + 1)
      BY <2>3, <2>5, <2>8, <3>1
    <3>3. Len(Queued(g.att)) = 1
      <4>1. Len(Append(q, h.sent + 1)) = Len(q) + 1
        BY <2>3, <3>1
      <4> QED
        BY <2>6, <3>2, <4>1
    <3>4. ~h.announced
      BY <1>1, <2>2, <2>6, <2>8
    <3>5. /\ g.sent = h.sent + 1 /\ g.answered = h.answered + 1 /\ h.sent = h.answered + 1
          /\ Len(asked) = 0 /\ Len(g.due) = 0 /\ g.announced = h.announced
      BY <2>5, <2>6, <2>7, <2>8
    <3>7. g.sent = g.answered + 1 + 0 + 0 /\ g.sent <= g.answered + 1
      BY <1>1, <3>5
    <3>6. RpcQuiet(g)
      BY <2>7, <3>3, <3>4, <3>5, <3>7 DEF RpcQuiet
    <3> QED
      BY <3>6 DEF g
  <2>9. CASE ~(h.sent < STUDIO_REQUESTS_COUNT)
    <3>1. Len(Queued(g.att)) = 0
      BY <2>5, <2>6, <2>9 DEF q
    <3>2. /\ g.sent = h.sent /\ g.answered = h.answered + 1 /\ h.sent = h.answered + 1
          /\ Len(asked) = 0 /\ Len(g.due) = 0
      BY <2>5, <2>6, <2>7, <2>9
    <3>4. /\ g.sent = g.answered + 0 + 0 + 0 /\ g.sent <= g.answered + 1
          /\ g.answered = STUDIO_REQUESTS_COUNT
      BY <1>1, <2>9, <3>2
    <3>3. RpcQuiet(g)
      BY <2>7, <3>1, <3>2, <3>4 DEF RpcQuiet
    <3> QED
      BY <3>3 DEF g
  <2> QED
    BY <2>8, <2>9
<1> QED
  BY <1>2, <1>3

\* Disturbed or not, a frame that is handled is an answer or a notification.
LEMMA ByteKeepsCounted ==
  ASSUME TypeOK, NEW h \in RpcState, NEW byte \in Byte, NEW takes \in BOOLEAN,
         h.sent <= subscriptions + h.received, RpcCounted(h)
  PROVE  RpcCounted(frame_rx_byte(h, byte, takes))
<1> DEFINE g == frame_rx_byte(h, byte, takes)
<1>1. /\ STUDIO_REQUESTS_COUNT \in Nat /\ subscriptions \in Nat /\ notifications \in Nat
      /\ h.sent \in 0..STUDIO_REQUESTS_COUNT /\ h.received \in Nat /\ h.answered \in Nat
      /\ h.due \in Seq(Seq(Byte))
  BY CountIsNat, StudioAssumption DEF RpcState, TypeOK, StudioAssumption
<1>2. /\ h.received + Notices(h.due) <= h.answered + notifications
      /\ h.announced => h.received + subscriptions > STUDIO_REQUESTS_COUNT
  BY DEF RpcCounted
<1>3. CASE ~EndsFrame(h.decoder, byte)
  <2>1. /\ g.received = h.received /\ g.due = h.due /\ g.answered = h.answered
        /\ g.announced = h.announced
    BY <1>3 DEF frame_rx_byte, RpcState
  <2> HIDE DEF g
  <2>2. RpcCounted(g)
    BY <1>2, <2>1 DEF RpcCounted
  <2> QED
    BY <2>2 DEF g
<1>4. CASE EndsFrame(h.decoder, byte)
  <2>1. /\ g.received = h.received + 1
        /\ g.due = (IF h.due = << >> THEN h.due ELSE Tail(h.due))
        /\ g.answered = (IF h.due # << >> /\ Head(h.due) = Notification
                         THEN h.answered ELSE h.answered + 1)
        /\ IF h.sent < STUDIO_REQUESTS_COUNT THEN g.announced = h.announced
                                             ELSE g.announced = TRUE
    BY <1>4, HandledIs
  <2> HIDE DEF g
  <2>2. g.received + Notices(g.due) <= g.answered + notifications
    <3>1. Notices(h.due) \in Nat
      BY <1>1, NoticesAre
    <3>2. CASE h.due = << >>
      <4>1. g.due = h.due /\ g.answered = h.answered + 1
        BY <2>1, <3>2
      <4> QED
        BY <1>1, <1>2, <2>1, <3>1, <4>1
    <3>3. CASE h.due # << >>
      <4>1. Tail(h.due) \in Seq(Seq(Byte))
        BY <1>1, <3>3
      <4>2. Notices(Tail(h.due)) \in Nat
        BY <4>1, NoticesAre
      <4>3. Notices(h.due) = (IF Head(h.due) = Notification THEN 1 ELSE 0)
                               + Notices(Tail(h.due))
        BY <1>1, <3>3, NoticesAre
      <4>4. g.due = Tail(h.due)
        BY <2>1, <3>3
      <4>5. CASE Head(h.due) = Notification
        <5>1. g.answered = h.answered /\ Notices(h.due) = 1 + Notices(g.due)
          BY <2>1, <3>3, <4>3, <4>4, <4>5
        <5> QED
          BY <1>1, <1>2, <2>1, <4>2, <4>4, <5>1
      <4>6. CASE Head(h.due) # Notification
        <5>1. g.answered = h.answered + 1 /\ Notices(h.due) = 0 + Notices(g.due)
          BY <2>1, <3>3, <4>3, <4>4, <4>6
        <5> QED
          BY <1>1, <1>2, <2>1, <4>2, <4>4, <5>1
      <4> QED
        BY <4>5, <4>6
    <3> QED
      BY <3>2, <3>3
  <2>3. g.announced => g.received + subscriptions > STUDIO_REQUESTS_COUNT
    <3>1. CASE h.sent < STUDIO_REQUESTS_COUNT
      <4> SUFFICES ASSUME g.announced PROVE g.received + subscriptions > STUDIO_REQUESTS_COUNT
        OBVIOUS
      <4>1. g.announced = h.announced
        BY <2>1, <3>1
      <4>2. h.received + subscriptions > STUDIO_REQUESTS_COUNT
        BY <1>2, <4>1
      <4>3. g.received = h.received + 1
        BY <2>1
      <4> QED
        BY <1>1, <4>2, <4>3
    <3>2. CASE ~(h.sent < STUDIO_REQUESTS_COUNT)
      BY <1>1, <2>1, <3>2
    <3> QED
      BY <3>1, <3>2
  <2>4. RpcCounted(g)
    BY <2>2, <2>3 DEF RpcCounted
  <2> QED
    BY <2>4 DEF g
<1> QED
  BY <1>3, <1>4

\* An indication, whatever its size.
LEMMA IndicationKeeps ==
  ASSUME TypeOK, NEW n \in 1..Len(wire), NEW takes \in BOOLEAN, RpcGood(Rpc, wire)
  PROVE  LET rx(g, byte) == frame_rx_byte(g, byte, takes)
             h == FoldLeft(rx, Rpc, SubSeq(wire, 1, n))
         IN  /\ h \in RpcState
             /\ RpcGood(h, SubSeq(wire, n + 1, Len(wire)))
             /\ takes /\ ~cutInEscape /\ RpcQuiet(Rpc) => RpcQuiet(h)
             /\ RpcCounted(Rpc) => RpcCounted(h)
<1> DEFINE bytes == SubSeq(wire, 1, n)
           left(k) == SubSeq(wire, k + 1, Len(wire))
<1>1. /\ wire \in Seq(Byte) /\ Len(wire) \in Nat /\ n \in Nat /\ n <= Len(wire)
      /\ bytes \in Seq(Byte) /\ Len(bytes) = n /\ \A k \in 1..n : bytes[k] = wire[k]
  <2>1. wire \in Seq(Byte) /\ Len(wire) \in Nat
    BY DEF TypeOK
  <2> QED
    BY <2>1
<1>2. Rpc \in RpcState
  BY DEF Rpc, RpcState, TypeOK
<1> HIDE DEF bytes
<1>3. PICK f : /\ AfterBytes(Rpc, bytes, takes, f)
               /\ FoldLeft(LAMBDA g, byte : frame_rx_byte(g, byte, takes), Rpc, bytes) = f[n]
  BY <1>1, <1>2, IndicationByteByByte
<1>4. /\ f[0] = Rpc /\ \A k \in 0..n : f[k] \in RpcState
      /\ \A k \in 1..n : f[k] = frame_rx_byte(f[k - 1], bytes[k], takes)
  BY <1>1, <1>3 DEF AfterBytes
<1>5. ASSUME NEW k \in Nat, k < n
      PROVE  /\ left(k) \in Seq(Byte) /\ left(k) # << >>
             /\ Head(left(k)) = bytes[k + 1] /\ Tail(left(k)) = left(k + 1)
  <2> DEFINE l == left(k)
             m == Len(wire)
  <2>1. /\ l \in Seq(Byte) /\ Len(l) = m - k /\ \A i \in 1..(m - k) : l[i] = wire[k + i]
    BY <1>1, <1>5
  <2>2. /\ left(k + 1) \in Seq(Byte) /\ Len(left(k + 1)) = m - (k + 1)
        /\ \A i \in 1..(m - (k + 1)) : left(k + 1)[i] = wire[(k + 1) + i]
    BY <1>1, <1>5
  <2>3. m \in Nat /\ m - k \in Nat /\ m - k > 0 /\ (m - k) - 1 = m - (k + 1)
    BY <1>1, <1>5
  <2> DEFINE r == left(k + 1)
  <2>6. bytes[k + 1] = wire[k + 1]
    BY <1>1, <1>5
  <2> HIDE DEF l, r, m, left
  <2>4. /\ l # << >> /\ Head(l) = l[1] /\ Tail(l) \in Seq(Byte)
        /\ Len(Tail(l)) = m - (k + 1)
        /\ \A i \in 1..(m - (k + 1)) : Tail(l)[i] = l[i + 1]
    BY <2>1, <2>3
  <2>5. Tail(l) = r
    <3>1. r \in Seq(Byte) /\ Len(r) = m - (k + 1)
      BY <2>2 DEF r
    <3>2. ASSUME NEW i \in 1..(m - (k + 1)) PROVE Tail(l)[i] = r[i]
      <4>1. r[i] = wire[(k + 1) + i]
        BY <2>2 DEF r
      <4>2. i + 1 \in 1..(m - k) /\ k + (i + 1) = (k + 1) + i
        BY <2>3
      <4>3. l[i + 1] = wire[k + (i + 1)]
        BY <2>1, <4>2
      <4> QED
        BY <2>4, <4>1, <4>2, <4>3
    <3> QED
      BY <2>4, <3>1, <3>2, SeqEqual
  <2>7. l[1] = wire[k + 1]
    BY <2>1, <2>3, 1 \in 1..(m - k)
  <2> QED
    BY <2>1, <2>4, <2>5, <2>6, <2>7 DEF l, r
<1>6. left(0) = wire
  BY <1>1, SubSeqFull
<1> HIDE DEF left
<1> DEFINE Good(k) == /\ RpcGood(f[k], left(k))
                      /\ takes /\ ~cutInEscape /\ RpcQuiet(Rpc) => RpcQuiet(f[k])
                      /\ RpcCounted(Rpc) => RpcCounted(f[k])
           S == {k \in Nat : k <= n => Good(k)}
<1>7. 0 \in S
  BY <1>4, <1>6
<1>8. ASSUME NEW k \in Nat, k \in S PROVE k + 1 \in S
  <2> SUFFICES ASSUME k + 1 <= n PROVE Good(k + 1)
    OBVIOUS
  <2>1. k < n /\ k \in 0..n /\ k + 1 \in 1..n /\ (k + 1) - 1 = k
    BY <1>1
  <2>2. Good(k)
    BY <1>8, <2>1
  <2>3. /\ f[k] \in RpcState /\ left(k) \in Seq(Byte) /\ left(k) # << >>
        /\ f[k + 1] = frame_rx_byte(f[k], Head(left(k)), takes)
        /\ left(k + 1) = Tail(left(k))
    BY <1>4, <1>5, <2>1
  <2>4. RpcGood(f[k + 1], left(k + 1))
    BY <2>2, <2>3, ByteKeepsGood
  <2>5. takes /\ ~cutInEscape /\ RpcQuiet(Rpc) => RpcQuiet(f[k + 1])
    <3> SUFFICES ASSUME takes, ~cutInEscape, RpcQuiet(Rpc) PROVE RpcQuiet(f[k + 1])
      OBVIOUS
    <3>1. f[k + 1] = frame_rx_byte(f[k], Head(left(k)), TRUE)
      BY <2>3
    <3> QED
      BY <2>2, <2>3, <3>1, ByteKeepsQuiet
  <2>6. RpcCounted(Rpc) => RpcCounted(f[k + 1])
    <3> SUFFICES ASSUME RpcCounted(Rpc) PROVE RpcCounted(f[k + 1])
      OBVIOUS
    <3>1. RpcCounted(f[k]) /\ f[k].sent <= subscriptions + f[k].received
      BY <2>2 DEF RpcGood
    <3>2. Head(left(k)) \in Byte
      BY <2>3
    <3>3. RpcCounted(frame_rx_byte(f[k], Head(left(k)), takes))
      BY <2>3, <3>1, <3>2, ByteKeepsCounted
    <3> QED
      BY <2>3, <3>3
  <2> QED
    BY <2>4, <2>5, <2>6
<1> HIDE DEF S
<1>9. Nat \subseteq S
  BY <1>7, <1>8, Induction
<1>10. Good(n)
  BY <1>1, <1>9 DEF S
<1>11. f[n] \in RpcState
  BY <1>1, <1>4
<1> QED
  BY <1>3, <1>10, <1>11 DEF bytes, left

-----------------------------------------------------------------------------
(* The invariant of the host.                                              *)

\* The host scans only without a connection, writes only on an encrypted one, and
\* subscribes to a handle it knows.
LinkInOrder ==
  /\ scanning => default_conn = "none"
  /\ att # << >> => default_conn = "secured"
  /\ subscribed \/ awaiting = "ccc" => value_handle
  /\ awaiting = "boot" => default_conn = "none" /\ ~scanning

\* Where nothing disturbs there is one subscription, whose CCC the keyboard gets
\* before the first request.
Undisturbed ==
  faults = 0 /\ notifications = 0 /\ disconnects = 0 =>
    /\ ~cutInEscape
    /\ RpcQuiet(Rpc)
    /\ subscriptions = 0 =>
         ~subscribed /\ ~kb_subscribed /\ att = << >> /\ requests_sent = 0
    /\ subscriptions > 0 =>
         /\ default_conn = "secured" /\ awaiting = "nothing"
         /\ kb_subscribed \/ (att # << >> /\ Head(att) = 0 /\ asked = << >>)

HostInvariant ==
  /\ TypeOK
  /\ RequestsOnlyWhenReady
  /\ LinkInOrder
  /\ RpcGood(Rpc, wire)
  /\ Undisturbed

\* At the start.
LEMMA HostInvariantInit == Init => HostInvariant
<1> SUFFICES ASSUME Init PROVE HostInvariant
  OBVIOUS
<1> USE DEF Init
<1>1. FreshDecoder \in Decoder /\ ~FreshDecoder.escaped
  BY DEF FreshDecoder, Decoder
<1>2. Queued(<< >>) = << >>
  BY FlattenNone DEF Queued
<1>3. STUDIO_REQUESTS_COUNT \in Nat /\ MaxFaults \in Nat /\ MaxNotifications \in Nat
      /\ MaxDisconnects \in Nat
  BY CountIsNat, StudioAssumption DEF StudioAssumption
<1>4. TypeOK
  <2>1. /\ 0 \in 0..STUDIO_REQUESTS_COUNT /\ 0 \in 0..MaxFaults /\ 0 \in 0..MaxNotifications
        /\ 0 \in 0..MaxDisconnects /\ 0 \in Nat
    BY <1>3
  <2>2. /\ << >> \in Seq({0} \cup Request) /\ << >> \in Seq(Request) /\ << >> \in Seq(Byte)
        /\ << >> \in Seq(Seq(Byte))
    OBVIOUS
  <2> QED
    BY <1>1, <2>1, <2>2 DEF TypeOK
<1>5. RequestsOnlyWhenReady /\ LinkInOrder
  BY DEF RequestsOnlyWhenReady, LinkInOrder
<1>6. /\ Rpc.sent = 0 /\ Rpc.received = 0 /\ Rpc.answered = 0 /\ Rpc.att = << >>
      /\ Rpc.due = << >> /\ ~Rpc.misread /\ ~Rpc.announced /\ Rpc.decoder = FreshDecoder
  BY DEF Rpc
<1>7. RpcGood(Rpc, wire)
  <2>1. UpTo(<< >> \o << >>, 0)
    BY DEF UpTo, Increasing
  <2>2. InSync(FreshDecoder, << >>, << >>, FrameBuf)
    BY <1>1, FramesStepByStep DEF InSync
  <2> QED
    BY <1>2, <1>6, <2>1, <2>2 DEF RpcGood
<1>8. RpcQuiet(Rpc)
  BY <1>2, <1>6 DEF RpcQuiet
<1>9. Undisturbed
  BY <1>8 DEF Undisturbed
<1> QED
  BY <1>4, <1>5, <1>7, <1>9 DEF HostInvariant

\* What the callbacks share is of its type, and set as a whole.
LEMMA RpcIsState ==
  /\ TypeOK => Rpc \in RpcState
  /\ \A h \in RpcState : SetRpc(h) => Rpc' = h
<1>1. TypeOK => Rpc \in RpcState
  BY DEF Rpc, RpcState, TypeOK
<1>2. \A h \in RpcState :
        h = [sent |-> h.sent, received |-> h.received, decoder |-> h.decoder,
             announced |-> h.announced, att |-> h.att, due |-> h.due,
             answered |-> h.answered, misread |-> h.misread]
  BY DEF RpcState
<1> QED
  BY <1>1, <1>2 DEF SetRpc, Rpc

\* A bound on refusals.
LEMMA RefusalsBounded ==
  ASSUME TypeOK
  PROVE  /\ Accepted => faults' = faults /\ faults' \in 0..MaxFaults
         /\ Refused => faults' \in 0..MaxFaults /\ faults' # 0
         /\ faults + 2 <= MaxFaults /\ faults' = faults + 2 =>
              faults' \in 0..MaxFaults /\ faults' # 0
<1>1. faults \in 0..MaxFaults /\ MaxFaults \in Nat
  BY StudioAssumption DEF TypeOK, StudioAssumption
<1> QED
  BY <1>1 DEF Accepted, Refused

\* Looking for the keyboard and setting the connection up leaves the requests alone.
LEMMA ConnectingKeeps ==
  ASSUME HostInvariant, main \/ device_found \/ connected \/ mtu_exchanged
  PROVE  HostInvariant'
<1>1. /\ TypeOK /\ RequestsOnlyWhenReady /\ LinkInOrder /\ RpcGood(Rpc, wire) /\ Undisturbed
  BY DEF HostInvariant
<1>2. /\ UNCHANGED <<value_handle, subscribed, rpcVars, att, kbVars, notifications,
                     disconnects, subscriptions, histVars, cutInEscape>>
      /\ faults' \in 0..MaxFaults /\ (faults' = 0 => faults = 0)
      /\ running' \in BOOLEAN /\ scanning' \in BOOLEAN
      /\ default_conn' \in {"none", "created", "plain", "secured"}
      /\ awaiting' \in {"boot", "nothing", "security", "mtu", "service", "characteristic",
                        "ccc"}
      /\ (scanning' => default_conn' = "none")
      /\ (default_conn = "secured" => default_conn' = "secured")
      /\ (awaiting' = "ccc" => awaiting = "ccc")
      /\ (awaiting' = "boot" => default_conn' = "none" /\ ~scanning')
      /\ (awaiting = "nothing" /\ default_conn = "secured" => awaiting' = "nothing")
  <2>1. /\ running \in BOOLEAN /\ scanning \in BOOLEAN
        /\ default_conn \in {"none", "created", "plain", "secured"}
        /\ awaiting \in {"boot", "nothing", "security", "mtu", "service", "characteristic",
                         "ccc"}
        /\ (scanning => default_conn = "none")
        /\ (awaiting = "boot" => default_conn = "none" /\ ~scanning)
    BY <1>1 DEF TypeOK, LinkInOrder
  <2>2. CASE main
    <3>1. Accepted \/ Refused
      BY <2>2 DEF main, start_scan
    <3>2. faults' \in 0..MaxFaults /\ (faults' = 0 => faults = 0)
      BY <1>1, <3>1, RefusalsBounded
    <3>3. /\ awaiting = "boot" /\ awaiting' = "nothing" /\ default_conn' = default_conn
          /\ running' \in BOOLEAN /\ scanning' \in BOOLEAN
      BY <2>1, <2>2 DEF main, start_scan
    <3>4. UNCHANGED <<value_handle, subscribed, rpcVars, att, kbVars, notifications,
                     disconnects, subscriptions, histVars, cutInEscape>>
      BY <2>2 DEF main
    <3> QED
      BY <2>1, <3>2, <3>3, <3>4
  <2>3. CASE device_found
    <3>1. Accepted \/ Refused \/ (faults + 2 <= MaxFaults /\ faults' = faults + 2)
      BY <2>3 DEF device_found
    <3>2. faults' \in 0..MaxFaults /\ (faults' = 0 => faults = 0)
      BY <1>1, <3>1, RefusalsBounded
    <3>3. /\ scanning /\ running' = running /\ awaiting' = awaiting
          /\ \/ scanning' = FALSE /\ default_conn' \in {"created", default_conn}
             \/ UNCHANGED <<scanning, default_conn>>
      BY <2>3 DEF device_found
    <3>4. UNCHANGED <<value_handle, subscribed, rpcVars, att, kbVars, notifications,
                     disconnects, subscriptions, histVars, cutInEscape>>
      BY <2>3 DEF device_found
    <3> QED
      BY <2>1, <3>2, <3>3, <3>4
  <2>4. CASE connected
    <3>1. Accepted \/ Refused \/ (faults + 2 <= MaxFaults /\ faults' = faults + 2)
      BY <2>4 DEF connected
    <3>2. faults' \in 0..MaxFaults /\ (faults' = 0 => faults = 0)
      BY <1>1, <3>1, RefusalsBounded
    <3>3. /\ default_conn = "created" /\ running' = running
          /\ \/ default_conn' = "plain" /\ scanning' = scanning
             \/ default_conn' = "none" /\ scanning' \in {TRUE, scanning}
          /\ awaiting' \in {"security", awaiting}
      BY <2>4 DEF connected
    <3>4. UNCHANGED <<value_handle, subscribed, rpcVars, att, kbVars, notifications,
                     disconnects, subscriptions, histVars, cutInEscape>>
      BY <2>4 DEF connected
    <3>5. ~scanning /\ awaiting # "boot" /\ default_conn # "secured"
      BY <2>1, <3>3
    <3>6. /\ (scanning' => default_conn' = "none") /\ awaiting' # "boot"
          /\ (awaiting' = "ccc" => awaiting = "ccc")
          /\ default_conn' \in {"none", "created", "plain", "secured"}
          /\ scanning' \in BOOLEAN
      <4>1. CASE default_conn' = "plain" /\ scanning' = scanning
        BY <2>1, <3>3, <3>5, <4>1
      <4>2. CASE default_conn' = "none" /\ scanning' \in {TRUE, scanning}
        BY <2>1, <3>3, <3>5, <4>2
      <4> QED
        BY <3>3, <4>1, <4>2
    <3>7. awaiting' \in {"boot", "nothing", "security", "mtu", "service", "characteristic",
                         "ccc"}
      BY <2>1, <3>3
    <3> QED
      BY <2>1, <3>2, <3>3, <3>4, <3>5, <3>6, <3>7
  <2>5. CASE mtu_exchanged
    <3>1. Accepted \/ Refused
      BY <2>5 DEF mtu_exchanged, discover
    <3>2. faults' \in 0..MaxFaults /\ (faults' = 0 => faults = 0)
      BY <1>1, <3>1, RefusalsBounded
    <3>3. /\ awaiting = "mtu" /\ awaiting' \in {"service", "nothing"}
          /\ UNCHANGED <<running, scanning, default_conn>>
      BY <2>5 DEF mtu_exchanged, discover
    <3>4. UNCHANGED <<value_handle, subscribed, rpcVars, att, kbVars, notifications,
                     disconnects, subscriptions, histVars, cutInEscape>>
      BY <2>5 DEF mtu_exchanged
    <3> QED
      BY <2>1, <3>2, <3>3, <3>4
  <2> QED
    BY <2>2, <2>3, <2>4, <2>5
<1>3. /\ UNCHANGED <<value_handle, subscribed, requests_sent, responses_received, decoder,
                     announced, att, kb_subscribed, asked, wire, notifications, disconnects,
                     subscriptions, taken, due, answered, misread, cutInEscape>>
      /\ Rpc' = Rpc
  BY <1>2 DEF rpcVars, kbVars, histVars, Rpc
<1>4. TypeOK'
  BY <1>1, <1>2, <1>3 DEF TypeOK
<1>5. RequestsOnlyWhenReady' /\ LinkInOrder'
  BY <1>1, <1>2, <1>3 DEF RequestsOnlyWhenReady, LinkInOrder
<1>6. RpcGood(Rpc, wire)'
  BY <1>1, <1>3 DEF RpcGood
<1>7. Undisturbed'
  BY <1>1, <1>2, <1>3 DEF Undisturbed, RpcQuiet
<1> QED
  BY <1>4, <1>5, <1>6, <1>7 DEF HostInvariant

\* Secured: a subscription that has survived is written again, and where nothing
\* disturbs there is none.
LEMMA SecurityKeeps ==
  ASSUME HostInvariant, security_changed
  PROVE  HostInvariant'
<1>1. /\ TypeOK /\ RequestsOnlyWhenReady /\ LinkInOrder /\ RpcGood(Rpc, wire) /\ Undisturbed
  BY DEF HostInvariant
<1>2. Accepted \/ Refused \/ (faults + 2 <= MaxFaults /\ faults' = faults + 2)
  BY DEF security_changed
<1>3. faults' \in 0..MaxFaults /\ (faults' = 0 => faults = 0)
  BY <1>1, <1>2, RefusalsBounded
<1>4. /\ default_conn = "plain" /\ awaiting = "security"
      /\ UNCHANGED <<scanning, value_handle, subscribed, requests_sent, responses_received,
                     decoder, announced, kb_subscribed, asked, wire, notifications,
                     disconnects, subscriptions, taken, due, answered, misread, cutInEscape>>
  BY DEF security_changed, rpcVars, kbVars, histVars
<1>5. \/ /\ default_conn' = "secured" /\ UNCHANGED running
         /\ awaiting' \in {"mtu", "service", "nothing"}
         /\ att' = IF subscribed THEN <<0>> ELSE << >>
      \/ /\ running' = FALSE /\ faults' # 0
         /\ UNCHANGED <<default_conn, awaiting, att>>
  BY <1>1, RefusalsBounded DEF security_changed
<1>6. /\ running \in BOOLEAN /\ scanning \in BOOLEAN /\ ~scanning /\ subscribed \in BOOLEAN
      /\ att = << >> /\ STUDIO_REQUESTS_COUNT \in Nat
  BY <1>1, <1>4, CountIsNat DEF TypeOK, LinkInOrder
<1>7. /\ att' \in {<<0>>, << >>} /\ att' \in Seq({0} \cup Request) /\ Queued(att') = << >>
      /\ ~subscribed => att' = << >>
  <2>1. Queued(<< >>) = << >>
    BY FlattenNone DEF Queued
  <2>2. Queued(<<0>>) = << >>
    <3>1. << >> \in Seq({0} \cup Request) /\ Append(<< >>, 0) = <<0>>
      OBVIOUS
    <3> QED
      BY <2>1, <3>1, QueuedIs
  <2>3. <<0>> \in Seq({0} \cup Request) /\ << >> \in Seq({0} \cup Request)
    OBVIOUS
  <2> QED
    BY <1>5, <1>6, <2>1, <2>2, <2>3
<1>8. TypeOK'
  <2>1. /\ running' \in BOOLEAN /\ default_conn' \in {"none", "created", "plain", "secured"}
        /\ awaiting' \in {"boot", "nothing", "security", "mtu", "service", "characteristic",
                           "ccc"}
    BY <1>4, <1>5, <1>6
  <2> QED
    BY <1>1, <1>3, <1>4, <1>7, <2>1 DEF TypeOK
<1>9. RequestsOnlyWhenReady'
  <2>1. \A i \in DOMAIN att' : att'[i] = 0
    <3>1. CASE att' = << >>
      BY <3>1
    <3>2. CASE att' = <<0>>
      BY <3>2
    <3> QED
      BY <1>7, <3>1, <3>2
  <2> QED
    BY <2>1 DEF RequestsOnlyWhenReady
<1>10. LinkInOrder'
  <2>1. att' # << >> => default_conn' = "secured"
    BY <1>5, <1>6
  <2>2. awaiting' \notin {"boot", "ccc"}
    BY <1>4, <1>5
  <2> QED
    BY <1>1, <1>4, <1>6, <2>1, <2>2 DEF LinkInOrder
<1>11. RpcGood(Rpc, wire)'
  <2>1. Queued(att) = << >>
    BY <1>6, FlattenNone DEF Queued
  <2> QED
    BY <1>1, <1>4, <1>7, <2>1 DEF RpcGood, Rpc
<1>12. Undisturbed'
  <2> SUFFICES ASSUME faults' = 0, notifications' = 0, disconnects' = 0
               PROVE  /\ ~cutInEscape'
                      /\ RpcQuiet(Rpc)'
                      /\ (subscriptions = 0)' /\ ~subscribed' /\ ~kb_subscribed'
                      /\ (att = << >>)' /\ (requests_sent = 0)'
    <3>1. subscriptions = 0 => ~(subscriptions > 0)
      OBVIOUS
    <3> QED
      BY <1>4, <3>1 DEF Undisturbed
  <2>1. faults = 0 /\ notifications = 0 /\ disconnects = 0
    BY <1>3, <1>4
  <2>2. /\ ~cutInEscape /\ RpcQuiet(Rpc)
        /\ subscriptions = 0 =>
             ~subscribed /\ ~kb_subscribed /\ att = << >> /\ requests_sent = 0
        /\ subscriptions > 0 => default_conn = "secured"
    BY <1>1, <2>1 DEF Undisturbed
  <2>3. subscriptions = 0
    <3>1. subscriptions \in Nat
      BY <1>1 DEF TypeOK
    <3> QED
      BY <1>4, <2>2, <3>1
  <2>4. att' = << >>
    BY <1>7, <2>2, <2>3
  <2>5. RpcQuiet(Rpc)'
    BY <1>4, <2>2, <2>3, <2>4 DEF RpcQuiet, Rpc
  <2> QED
    BY <1>4, <2>2, <2>3, <2>4, <2>5
<1> QED
  BY <1>8, <1>9, <1>10, <1>11, <1>12 DEF HostInvariant

\* Security that the keyboard asked for: with the faults no longer 0, nothing is
\* claimed of an undisturbed run, and no request is queued.
LEMMA UnaskedSecurityKeeps ==
  ASSUME HostInvariant, security_changed_unasked
  PROVE  HostInvariant'
<1>1. /\ TypeOK /\ RequestsOnlyWhenReady /\ LinkInOrder /\ RpcGood(Rpc, wire)
  BY DEF HostInvariant
<1>2. /\ default_conn \in {"plain", "secured"} /\ awaiting = "nothing"
      /\ faults' \in 0..MaxFaults /\ faults' # 0
      /\ UNCHANGED <<scanning, value_handle, subscribed, requests_sent, responses_received,
                     decoder, announced, kb_subscribed, asked, wire, notifications,
                     disconnects, subscriptions, taken, due, answered, misread, cutInEscape>>
  BY <1>1, RefusalsBounded DEF security_changed_unasked, rpcVars, kbVars, histVars
<1>3. \/ /\ default_conn' = "secured" /\ UNCHANGED running /\ awaiting' \in {"mtu", "service"}
         /\ att' = IF default_conn = "plain" /\ subscribed THEN <<0>> ELSE att
      \/ running' = FALSE /\ UNCHANGED <<default_conn, awaiting, att>>
  BY DEF security_changed_unasked
<1>4. /\ running \in BOOLEAN /\ scanning \in BOOLEAN /\ ~scanning /\ subscribed \in BOOLEAN
      /\ att \in Seq({0} \cup Request) /\ (default_conn = "plain" => att = << >>)
  BY <1>1, <1>2 DEF TypeOK, LinkInOrder
<1>5. /\ att' \in Seq({0} \cup Request) /\ Queued(att') = Queued(att)
      /\ att' # att => att' = <<0>>
  <2>1. CASE att' = att
    BY <1>4, <2>1
  <2>2. CASE att' # att
    <3>1. att = << >> /\ att' = <<0>>
      BY <1>3, <1>4, <2>2
    <3>2. << >> \in Seq({0} \cup Request) /\ Append(<< >>, 0) = <<0>>
          /\ <<0>> \in Seq({0} \cup Request)
      OBVIOUS
    <3>3. Queued(<<0>>) = Queued(<< >>)
      BY <3>2, QueuedIs
    <3> QED
      BY <3>1, <3>2, <3>3
  <2> QED
    BY <2>1, <2>2
<1>6. TypeOK'
  <2>1. /\ running' \in BOOLEAN /\ default_conn' \in {"none", "created", "plain", "secured"}
        /\ awaiting' \in {"boot", "nothing", "security", "mtu", "service", "characteristic",
                           "ccc"}
    BY <1>2, <1>3, <1>4
  <2> QED
    BY <1>1, <1>2, <1>5, <2>1 DEF TypeOK
<1>7. RequestsOnlyWhenReady'
  <2>1. CASE att' = att
    <3>1. default_conn = "secured" => default_conn' = "secured"
      BY <1>3
    <3> QED
      BY <1>1, <1>2, <2>1, <3>1 DEF RequestsOnlyWhenReady
  <2>2. CASE att' # att
    <3>1. att' = <<0>>
      BY <1>5, <2>2
    <3>2. \A i \in DOMAIN att' : att'[i] = 0
      BY <3>1
    <3> QED
      BY <3>2 DEF RequestsOnlyWhenReady
  <2> QED
    BY <2>1, <2>2
<1>8. LinkInOrder'
  <2>1. att' # << >> => default_conn' = "secured"
    BY <1>1, <1>3 DEF LinkInOrder
  <2>2. awaiting' \notin {"boot", "ccc"}
    BY <1>2, <1>3
  <2> QED
    BY <1>1, <1>2, <1>4, <2>1, <2>2 DEF LinkInOrder
<1>9. RpcGood(Rpc, wire)'
  BY <1>1, <1>2, <1>5 DEF RpcGood, Rpc
<1>10. Undisturbed'
  BY <1>2 DEF Undisturbed
<1> QED
  BY <1>6, <1>7, <1>8, <1>9, <1>10 DEF HostInvariant

\* A dropped link: the decoder may be inside a frame whose rest is gone; unless an
\* ESC waits for its byte, the next SOF starts afresh.
LEMMA DisconnectKeeps ==
  ASSUME HostInvariant, disconnected
  PROVE  HostInvariant'
<1>1. /\ TypeOK /\ RequestsOnlyWhenReady /\ LinkInOrder /\ RpcGood(Rpc, wire) /\ Undisturbed
  BY DEF HostInvariant
<1>2. /\ disconnects < MaxDisconnects /\ disconnects' = disconnects + 1
      /\ default_conn' = "none" /\ awaiting' = "nothing"
      /\ att' = << >> /\ asked' = << >> /\ wire' = << >> /\ due' = << >>
      /\ cutInEscape' = (cutInEscape \/ decoder.escaped)
      /\ UNCHANGED <<running, value_handle, requests_sent, responses_received, decoder,
                     announced, notifications, subscriptions, taken, answered, misread>>
  BY DEF disconnected, rpcVars
<1>3. faults' \in 0..MaxFaults /\ scanning' \in BOOLEAN
  <2>1. Accepted \/ Refused
    BY DEF disconnected, start_scan
  <2>2. scanning \in BOOLEAN
    BY <1>1 DEF TypeOK
  <2>3. scanning' \in BOOLEAN
    BY <2>2 DEF disconnected, start_scan
  <2> QED
    BY <1>1, <2>1, <2>3, RefusalsBounded
<1>4. PICK bonded \in BOOLEAN : /\ subscribed' = (subscribed /\ bonded)
                                /\ kb_subscribed' = (kb_subscribed /\ bonded)
  BY DEF disconnected
<1>5. /\ disconnects' \in 0..MaxDisconnects /\ disconnects' # 0
  <2>1. disconnects \in 0..MaxDisconnects /\ MaxDisconnects \in Nat
    BY <1>1, StudioAssumption DEF TypeOK, StudioAssumption
  <2> QED
    BY <1>2, <2>1
<1>6. /\ subscribed' \in BOOLEAN /\ kb_subscribed' \in BOOLEAN /\ cutInEscape' \in BOOLEAN
      /\ (subscribed' => subscribed)
  <2>1. subscribed \in BOOLEAN /\ kb_subscribed \in BOOLEAN
    BY <1>1 DEF TypeOK
  <2>2. cutInEscape' \in BOOLEAN
    BY <1>2
  <2> QED
    BY <1>4, <2>1, <2>2
<1>7. TypeOK'
  <2>1. /\ << >> \in Seq({0} \cup Request) /\ << >> \in Seq(Request) /\ << >> \in Seq(Byte)
        /\ << >> \in Seq(Seq(Byte))
    OBVIOUS
  <2> QED
    BY <1>1, <1>2, <1>3, <1>5, <1>6, <2>1 DEF TypeOK
<1>8. RequestsOnlyWhenReady' /\ LinkInOrder'
  <2>1. RequestsOnlyWhenReady'
    BY <1>2 DEF RequestsOnlyWhenReady
  <2>2. subscribed' => value_handle'
    BY <1>1, <1>2, <1>6 DEF LinkInOrder
  <2> QED
    BY <1>2, <2>1, <2>2 DEF LinkInOrder
<1>9. RpcGood(Rpc, wire)'
  <2>1. UpTo(taken \o Queued(att), requests_sent)
    BY <1>1 DEF RpcGood, Rpc
  <2>2. UpTo(taken \o Queued(<< >>), requests_sent)
    <3> DEFINE q == Queued(att)
    <3>1. /\ taken \in Seq(Request) /\ q \in Seq(Request) /\ requests_sent \in Nat
          /\ Request \subseteq Nat
      <4>1. taken \in Seq(Request) /\ att \in Seq({0} \cup Request) /\ requests_sent \in Nat
        BY <1>1, CountIsNat DEF TypeOK
      <4>2. Request \subseteq Nat
        BY CountIsNat DEF Request
      <4> QED
        BY <4>1, <4>2, QueuedIs
    <3>2. taken \in Seq(Nat) /\ q \in Seq(Nat) /\ 1 \in Nat
      BY <3>1, SeqMonotonic
    <3>3. UpTo(taken \o q, requests_sent)
      BY <2>1
    <3> HIDE DEF q
    <3>4. UpTo(taken, requests_sent)
      BY <3>1, <3>2, <3>3, UpToLess
    <3>5. taken \o << >> = taken /\ Queued(<< >>) = << >>
      BY <3>1, FlattenNone DEF Queued
    <3> QED
      BY <3>4, <3>5
  <2>3. requests_sent <= subscriptions + responses_received
    BY <1>1 DEF RpcGood, Rpc
  <2>4. ASSUME ~cutInEscape' PROVE ~misread /\ InSync(decoder, << >>, << >>, FrameBuf)
    <3>1. ~cutInEscape /\ ~decoder.escaped
      BY <1>2, <2>4
    <3>2. ~misread
      BY <1>1, <3>1 DEF RpcGood, Rpc
    <3> QED
      BY <3>1, <3>2, FramesStepByStep DEF InSync
  <2> QED
    BY <1>2, <2>2, <2>3, <2>4 DEF RpcGood, Rpc
<1>10. Undisturbed'
  BY <1>5 DEF Undisturbed
<1> QED
  BY <1>7, <1>8, <1>9, <1>10 DEF HostInvariant

\* A frame that the keyboard adds to the wire.
LEMMA OneMoreFrame ==
  ASSUME NEW d, NEW w \in Seq(Byte), NEW pp \in Seq(Seq(Byte)), NEW room,
         NEW p \in Seq(Byte)
  PROVE  /\ w \o Frame(p) \in Seq(Byte) /\ Append(pp, p) \in Seq(Seq(Byte))
         /\ InSync(d, w, pp, room) => InSync(d, w \o Frame(p), Append(pp, p), room)
<1>1. << >> \in Seq(Seq(Byte)) /\ <<p>> \in Seq(Seq(Byte)) /\ Append(<< >>, p) = <<p>>
  OBVIOUS
<1>2. Frame(p) \in Seq(Byte)
  BY FramesAreBytes
<1>3. Frames(<<p>>) = Frame(p)
  <2>1. Frames(Append(<< >>, p)) = Frames(<< >>) \o Frame(p)
    BY <1>1, FramesStepByStep
  <2>2. << >> \o Frame(p) = Frame(p)
    <3> HIDE DEF Frame
    <3> DEFINE x == Frame(p)
    <3>1. x \in Seq(Byte)
      BY <1>2
    <3> HIDE DEF x
    <3>2. << >> \o x = x
      BY <3>1
    <3> QED
      BY <3>2 DEF x
  <2> QED
    BY <1>1, <2>1, <2>2, FramesStepByStep
<1>4. pp \o <<p>> = Append(pp, p)
  OBVIOUS
<1>5. w \o Frame(p) \in Seq(Byte) /\ Append(pp, p) \in Seq(Seq(Byte))
  BY <1>2
<1>6. InSync(d, w, pp, room) => InSync(d, w \o Frame(p), Append(pp, p), room)
  <2> SUFFICES ASSUME InSync(d, w, pp, room)
               PROVE  InSync(d, w \o Frame(p), Append(pp, p), room)
    OBVIOUS
  <2>1. InSync(d, w \o Frames(<<p>>), pp \o <<p>>, room)
    BY <1>1, InSyncMore
  <2> QED
    BY <1>3, <1>4, <2>1
<1> QED
  BY <1>5, <1>6

\* The keyboard answers, and where nothing disturbs it has been subscribed to.
LEMMA AnswerKeeps ==
  ASSUME HostInvariant, KeyboardAnswers
  PROVE  HostInvariant'
<1>1. /\ TypeOK /\ RequestsOnlyWhenReady /\ LinkInOrder /\ RpcGood(Rpc, wire) /\ Undisturbed
  BY DEF HostInvariant
<1>2. /\ asked # << >> /\ asked' = Tail(asked) /\ Indicates(Response[Head(asked)])
      /\ UNCHANGED <<running, scanning, default_conn, awaiting, value_handle, subscribed,
                     requests_sent, responses_received, decoder, announced, att,
                     kb_subscribed, faults, notifications, disconnects, subscriptions,
                     taken, answered, misread, cutInEscape>>
  BY DEF KeyboardAnswers, linkVars, rpcVars, countVars
<1> DEFINE p == Response[Head(asked)]
<1>3. /\ asked \in Seq(Request) /\ wire \in Seq(Byte) /\ due \in Seq(Seq(Byte))
      /\ Head(asked) \in Request /\ p \in Seq(Byte) /\ p # Notification
      /\ Tail(asked) \in Seq(Request) /\ Len(Tail(asked)) = Len(asked) - 1
  <2>1. asked \in Seq(Request) /\ wire \in Seq(Byte) /\ due \in Seq(Seq(Byte))
    BY <1>1 DEF TypeOK
  <2>2. /\ Head(asked) \in Request /\ Tail(asked) \in Seq(Request)
        /\ Len(Tail(asked)) = Len(asked) - 1
    BY <1>2, <2>1
  <2>3. p \in Seq(Byte) /\ p # Notification
    BY <2>2, StudioAssumption DEF StudioAssumption, Request, STUDIO_REQUESTS_COUNT
  <2> QED
    BY <2>1, <2>2, <2>3
<1> HIDE DEF p
<1>4. \/ kb_subscribed /\ wire' = wire \o Frame(p) /\ due' = Append(due, p)
      \/ ~kb_subscribed /\ wire' = wire /\ due' = due
  BY <1>2 DEF Indicates, p
<1>5. /\ wire' \in Seq(Byte) /\ due' \in Seq(Seq(Byte))
      /\ InSync(decoder, wire, due, FrameBuf) => InSync(decoder, wire', due', FrameBuf)
  <2>1. /\ wire \o Frame(p) \in Seq(Byte) /\ Append(due, p) \in Seq(Seq(Byte))
        /\ InSync(decoder, wire, due, FrameBuf)
             => InSync(decoder, wire \o Frame(p), Append(due, p), FrameBuf)
    BY <1>3, OneMoreFrame
  <2>2. CASE wire' = wire \o Frame(p) /\ due' = Append(due, p)
    BY <2>1, <2>2
  <2>3. CASE wire' = wire /\ due' = due
    BY <1>3, <2>3
  <2> QED
    BY <1>4, <2>2, <2>3
<1>6. TypeOK'
  BY <1>1, <1>2, <1>3, <1>5 DEF TypeOK
<1>7. RequestsOnlyWhenReady' /\ LinkInOrder'
  BY <1>1, <1>2 DEF RequestsOnlyWhenReady, LinkInOrder
<1>8. RpcGood(Rpc, wire)'
  BY <1>1, <1>2, <1>5 DEF RpcGood, Rpc
<1>9. Undisturbed'
  <2> SUFFICES ASSUME faults = 0, notifications = 0, disconnects = 0
               PROVE  /\ ~cutInEscape
                      /\ RpcQuiet(Rpc)'
                      /\ subscriptions > 0 /\ ~(subscriptions = 0)
                      /\ default_conn = "secured" /\ awaiting = "nothing"
                      /\ kb_subscribed
    BY <1>2 DEF Undisturbed
  <2>1. /\ ~cutInEscape /\ RpcQuiet(Rpc)
        /\ subscriptions = 0 =>
             ~subscribed /\ ~kb_subscribed /\ att = << >> /\ requests_sent = 0
        /\ subscriptions > 0 =>
             /\ default_conn = "secured" /\ awaiting = "nothing"
             /\ kb_subscribed \/ (att # << >> /\ Head(att) = 0 /\ asked = << >>)
    BY <1>1 DEF Undisturbed
  <2> DEFINE nq == Len(Queued(att))
             na == Len(asked)
             nd == Len(due)
  <2>2. /\ requests_sent = answered + nq + na + nd /\ requests_sent <= answered + 1
        /\ \A i \in DOMAIN due : due[i] # Notification
        /\ announced => answered = STUDIO_REQUESTS_COUNT
    BY <2>1 DEF RpcQuiet, Rpc
  <2>3. /\ nq \in Nat /\ na \in Nat \ {0} /\ nd \in Nat /\ answered \in Nat
        /\ subscriptions \in Nat
    <3>1. Queued(att) \in Seq(Request)
      BY <1>1, QueuedIs DEF TypeOK
    <3>2. nq \in Nat
      BY <3>1
    <3>3. na \in Nat \ {0} /\ nd \in Nat
      BY <1>2, <1>3
    <3> QED
      BY <1>1, <3>2, <3>3 DEF TypeOK
  <2>4. subscriptions > 0 /\ kb_subscribed
    <3> HIDE DEF nq, na, nd
    <3>1. requests_sent # 0
      BY <2>2, <2>3
    <3> QED
      BY <1>2, <2>1, <2>3, <3>1
  <2>5. due' = Append(due, p)
    BY <1>4, <2>4
  <2>6. Len(due') = nd + 1 /\ Len(asked') = na - 1
    BY <1>2, <1>3, <2>5
  <2>7. \A i \in DOMAIN due' : due'[i] # Notification
    <3>1. /\ Len(due) \in Nat /\ DOMAIN due = 1..Len(due)
          /\ DOMAIN Append(due, p) = 1..(Len(due) + 1)
          /\ \A i \in 1..Len(due) : Append(due, p)[i] = due[i]
          /\ Append(due, p)[Len(due) + 1] = p
      BY <1>3
    <3>2. \A i \in 1..(Len(due) + 1) : i \in 1..Len(due) \/ i = Len(due) + 1
      BY <3>1
    <3> QED
      BY <1>3, <2>2, <2>5, <3>1, <3>2
  <2>8. requests_sent = answered + nq + (na - 1) + (nd + 1)
    <3> HIDE DEF nq, na, nd
    <3> QED
      BY <2>2, <2>3
  <2>9. RpcQuiet(Rpc)'
    BY <1>2, <2>2, <2>6, <2>7, <2>8 DEF RpcQuiet, Rpc
  <2> QED
    BY <2>1, <2>3, <2>4, <2>9
<1> QED
  BY <1>6, <1>7, <1>8, <1>9 DEF HostInvariant

\* It notifies.
LEMMA NotifyKeeps ==
  ASSUME HostInvariant, KeyboardNotifies
  PROVE  HostInvariant'
<1>1. /\ TypeOK /\ RequestsOnlyWhenReady /\ LinkInOrder /\ RpcGood(Rpc, wire)
  BY DEF HostInvariant
<1>2. /\ notifications < MaxNotifications /\ notifications' = notifications + 1
      /\ wire' = wire \o Frame(Notification) /\ due' = Append(due, Notification)
      /\ UNCHANGED <<running, scanning, default_conn, awaiting, value_handle, subscribed,
                     requests_sent, responses_received, decoder, announced, att,
                     kb_subscribed, asked, faults, disconnects, subscriptions,
                     taken, answered, misread, cutInEscape>>
  BY DEF KeyboardNotifies, Indicates, linkVars, rpcVars
<1>3. /\ wire \in Seq(Byte) /\ due \in Seq(Seq(Byte)) /\ Notification \in Seq(Byte)
      /\ notifications' \in 0..MaxNotifications /\ notifications' # 0
  <2>1. /\ wire \in Seq(Byte) /\ due \in Seq(Seq(Byte)) /\ notifications \in 0..MaxNotifications
        /\ Notification \in Seq(Byte) /\ MaxNotifications \in Nat
    BY <1>1, StudioAssumption DEF TypeOK, StudioAssumption
  <2> QED
    BY <1>2, <2>1
<1>4. /\ wire' \in Seq(Byte) /\ due' \in Seq(Seq(Byte))
      /\ InSync(decoder, wire, due, FrameBuf) => InSync(decoder, wire', due', FrameBuf)
  BY <1>2, <1>3, OneMoreFrame
<1>5. TypeOK'
  BY <1>1, <1>2, <1>3, <1>4 DEF TypeOK
<1>6. RequestsOnlyWhenReady' /\ LinkInOrder'
  BY <1>1, <1>2 DEF RequestsOnlyWhenReady, LinkInOrder
<1>7. RpcGood(Rpc, wire)'
  BY <1>1, <1>2, <1>4 DEF RpcGood, Rpc
<1>8. Undisturbed'
  BY <1>3 DEF Undisturbed
<1> QED
  BY <1>5, <1>6, <1>7, <1>8 DEF HostInvariant
\* The oldest write reaches the keyboard, or is rejected.
LEMMA WriteKeeps ==
  ASSUME HostInvariant, AttWrite
  PROVE  HostInvariant'
<1>1. /\ TypeOK /\ RequestsOnlyWhenReady /\ LinkInOrder /\ RpcGood(Rpc, wire) /\ Undisturbed
  BY DEF HostInvariant
<1>2. /\ default_conn = "secured" /\ att # << >> /\ att' = Tail(att)
      /\ UNCHANGED <<running, scanning, default_conn, awaiting, value_handle,
                     requests_sent, responses_received, decoder, announced, wire,
                     notifications, disconnects, subscriptions, due, answered, misread,
                     cutInEscape>>
  BY DEF AttWrite, linkVars, rpcVars
<1> DEFINE r == Head(att)
           rest == Queued(Tail(att))
<1>3. /\ att \in Seq({0} \cup Request) /\ r \in {0} \cup Request
      /\ Tail(att) \in Seq({0} \cup Request)
      /\ \A i \in DOMAIN Tail(att) : i + 1 \in DOMAIN att /\ Tail(att)[i] = att[i + 1]
      /\ rest \in Seq(Request)
      /\ Queued(att) = (IF r = 0 THEN << >> ELSE <<r>>) \o rest
  <2>1. att \in Seq({0} \cup Request)
    BY <1>1 DEF TypeOK
  <2>2. /\ r \in {0} \cup Request /\ Tail(att) \in Seq({0} \cup Request)
        /\ \A i \in DOMAIN Tail(att) : i + 1 \in DOMAIN att /\ Tail(att)[i] = att[i + 1]
    BY <1>2, <2>1
  <2> QED
    BY <1>2, <2>1, <2>2, QueuedIs
<1>4. /\ Request \subseteq Nat /\ 0 \notin Request /\ requests_sent \in Nat
      /\ taken \in Seq(Request) /\ asked \in Seq(Request)
      /\ kb_subscribed \in BOOLEAN /\ subscribed \in BOOLEAN
  BY <1>1, CountIsNat DEF TypeOK, Request
<1>5. \/ Accepted /\ r = 0 /\ kb_subscribed' = TRUE /\ UNCHANGED <<asked, taken, subscribed>>
      \/ /\ Accepted /\ r # 0 /\ asked' = Append(asked, r) /\ taken' = Append(taken, r)
         /\ UNCHANGED <<kb_subscribed, subscribed>>
      \/ /\ Refused /\ UNCHANGED <<asked, taken>>
         /\ subscribed' \in {FALSE, subscribed} /\ kb_subscribed' \in {FALSE, kb_subscribed}
  <2>1. subscribed' = (subscribed /\ r # 0) => subscribed' \in {FALSE, subscribed}
    BY <1>4
  <2>2. kb_subscribed' = (kb_subscribed /\ r # 0) => kb_subscribed' \in {FALSE, kb_subscribed}
    BY <1>4
  <2> QED
    BY <2>1, <2>2 DEF AttWrite
<1> HIDE DEF r, rest
<1>6. faults' \in 0..MaxFaults /\ (faults' = 0 => faults = 0 /\ Accepted /\ ~Refused)
  <2>1. Accepted => faults' = faults /\ faults' \in 0..MaxFaults
    BY <1>1, RefusalsBounded
  <2>2. Refused => faults' \in 0..MaxFaults /\ faults' # 0
    BY <1>1, RefusalsBounded
  <2> QED
    BY <1>5, <2>1, <2>2
<1>7. TypeOK'
  <2>1. /\ subscribed' \in BOOLEAN /\ kb_subscribed' \in BOOLEAN
        /\ asked' \in Seq(Request) /\ taken' \in Seq(Request)
    <3>1. CASE r = 0 /\ UNCHANGED <<asked, taken, subscribed>> /\ kb_subscribed' = TRUE
      BY <1>4, <3>1
    <3>2. CASE /\ r # 0 /\ asked' = Append(asked, r) /\ taken' = Append(taken, r)
               /\ UNCHANGED <<kb_subscribed, subscribed>>
      BY <1>3, <1>4, <3>2
    <3>3. CASE /\ UNCHANGED <<asked, taken>>
               /\ subscribed' \in {FALSE, subscribed} /\ kb_subscribed' \in {FALSE, kb_subscribed}
      BY <1>4, <3>3
    <3> QED
      BY <1>5, <3>1, <3>2, <3>3
  <2> QED
    BY <1>1, <1>2, <1>3, <1>6, <2>1 DEF TypeOK
<1>8. RequestsOnlyWhenReady'
  BY <1>1, <1>2, <1>3 DEF RequestsOnlyWhenReady
<1>9. LinkInOrder'
  <2>1. subscribed' => subscribed
    BY <1>4, <1>5
  <2> QED
    BY <1>1, <1>2, <2>1 DEF LinkInOrder
<1>10. RpcGood(Rpc, wire)'
  <2>1. UpTo(taken \o ((IF r = 0 THEN << >> ELSE <<r>>) \o rest), requests_sent)
    BY <1>1, <1>3 DEF RpcGood, Rpc
  <2>2. taken \in Seq(Nat) /\ rest \in Seq(Nat) /\ (r # 0 => r \in Nat)
    BY <1>3, <1>4, SeqMonotonic
  <2>3. UpTo(taken' \o rest, requests_sent)
    <3>1. CASE r = 0
      <4>1. << >> \o rest = rest
        BY <1>3
      <4>2. taken' = taken
        BY <1>5, <3>1
      <4> QED
        BY <2>1, <3>1, <4>1, <4>2
    <3>2. CASE r # 0 /\ taken' = taken
      <4>1. UpTo(taken \o (<<r>> \o rest), requests_sent)
        BY <2>1, <3>2
      <4> QED
        BY <1>4, <2>2, <3>2, <4>1, UpToLess
    <3>3. CASE r # 0 /\ taken' = Append(taken, r)
      <4>1. r \in Nat
        BY <2>2, <3>3
      <4>2. taken \o (<<r>> \o rest) = Append(taken, r) \o rest
        <5>1. <<r>> \in Seq(Nat) /\ Append(taken, r) = taken \o <<r>>
          BY <2>2, <4>1, AppendIsConcat
        <5>2. (taken \o <<r>>) \o rest = taken \o (<<r>> \o rest)
          BY <2>2, <5>1, RegroupParts
        <5> QED
          BY <5>1, <5>2
      <4> QED
        BY <2>1, <3>3, <4>2
    <3> QED
      BY <1>5, <3>1, <3>2, <3>3
  <2>4. Queued(att') = rest
    BY <1>2 DEF rest
  <2> QED
    BY <1>1, <1>2, <2>3, <2>4 DEF RpcGood, Rpc
<1>11. Undisturbed'
  <2> SUFFICES ASSUME faults' = 0, notifications = 0, disconnects = 0
               PROVE  /\ ~cutInEscape
                      /\ RpcQuiet(Rpc)'
                      /\ ~(subscriptions = 0)
                      /\ default_conn = "secured" /\ awaiting = "nothing"
                      /\ kb_subscribed'
    BY <1>2 DEF Undisturbed
  <2>1. /\ faults = 0
        /\ \/ r = 0 /\ kb_subscribed' = TRUE /\ UNCHANGED <<asked, taken, subscribed>>
           \/ /\ r # 0 /\ asked' = Append(asked, r) /\ taken' = Append(taken, r)
              /\ UNCHANGED <<kb_subscribed, subscribed>>
    BY <1>5, <1>6
  <2>2. /\ ~cutInEscape /\ RpcQuiet(Rpc)
        /\ subscriptions = 0 => att = << >>
        /\ subscriptions > 0 =>
             /\ default_conn = "secured" /\ awaiting = "nothing"
             /\ kb_subscribed \/ r = 0
    BY <1>1, <2>1 DEF Undisturbed, r
  <2>3. subscriptions > 0 /\ ~(subscriptions = 0)
    <3>1. subscriptions \in Nat
      BY <1>1 DEF TypeOK
    <3> QED
      BY <1>2, <2>2, <3>1
  <2>4. kb_subscribed'
    BY <2>1, <2>2, <2>3
  <2>5. Len(Queued(att')) + Len(asked') = Len(Queued(att)) + Len(asked)
    <3>1. Queued(att') = rest
      BY <1>2 DEF rest
    <3>2. CASE r = 0 /\ asked' = asked
      <4>1. << >> \o rest = rest
        BY <1>3
      <4> QED
        BY <1>3, <3>1, <3>2, <4>1
    <3>3. CASE r # 0 /\ asked' = Append(asked, r)
      <4>1. r \in Request
        BY <1>3, <3>3
      <4>2. /\ Len(<<r>> \o rest) = Len(rest) + 1
            /\ Len(Append(asked, r)) = Len(asked) + 1
            /\ Len(rest) \in Nat /\ Len(asked) \in Nat
        BY <1>3, <1>4, <4>1
      <4>3. Queued(att) = <<r>> \o rest
        BY <1>3, <3>3
      <4>4. Len(Queued(att)) = Len(rest) + 1 /\ Len(asked') = Len(asked) + 1
        BY <3>3, <4>2, <4>3
      <4>5. Len(Queued(att')) = Len(rest)
        BY <3>1
      <4> DEFINE a == Len(rest)
                 b == Len(asked)
      <4>6. a \in Nat /\ b \in Nat
        BY <4>2
      <4> HIDE DEF a, b
      <4>7. a + (b + 1) = (a + 1) + b
        BY <4>6
      <4> QED
        BY <4>4, <4>5, <4>7 DEF a, b
    <3> QED
      BY <2>1, <3>2, <3>3
  <2>6. RpcQuiet(Rpc)'
    <3>1. /\ requests_sent = answered + Len(Queued(att)) + Len(asked) + Len(due)
          /\ requests_sent <= answered + 1
          /\ \A i \in DOMAIN due : due[i] # Notification
          /\ announced => answered = STUDIO_REQUESTS_COUNT
      BY <2>2 DEF RpcQuiet, Rpc
    <3> DEFINE q0 == Len(Queued(att))
               q1 == Len(Queued(att'))
               a0 == Len(asked)
               a1 == Len(asked')
               d == Len(due)
    <3>2. /\ q0 \in Nat /\ q1 \in Nat /\ a0 \in Nat /\ a1 \in Nat /\ d \in Nat /\ answered \in Nat
      <4>1. Queued(att) \in Seq(Request) /\ Queued(att') \in Seq(Request)
        BY <1>2, <1>3, QueuedIs
      <4>2. asked' \in Seq(Request) /\ due \in Seq(Seq(Byte)) /\ answered \in Nat
        BY <1>1, <1>2, <1>7 DEF TypeOK
      <4>3. q0 \in Nat /\ q1 \in Nat
        BY <4>1
      <4>4. a0 \in Nat /\ a1 \in Nat
        BY <1>4, <4>2
      <4>5. d \in Nat
        BY <4>2
      <4> QED
        BY <4>2, <4>3, <4>4, <4>5
    <3>3. q1 + a1 = q0 + a0
      BY <2>5
    <3>4. requests_sent = answered + q0 + a0 + d
      BY <3>1
    <3> HIDE DEF q0, q1, a0, a1, d
    <3>5. requests_sent = answered + q1 + a1 + d
      BY <3>2, <3>3, <3>4
    <3> QED
      BY <1>2, <3>1, <3>5 DEF RpcQuiet, Rpc, q1, a1, d
  <2> QED
    BY <2>2, <2>3, <2>4, <2>6
<1> QED
  BY <1>7, <1>8, <1>9, <1>10, <1>11 DEF HostInvariant

\* What an indication leaves, and of which state.
LEMMA IndicationIs ==
  ASSUME TypeOK, RpcGood(Rpc, wire), indicate_func
  PROVE  \E h \in RpcState, left \in Seq(Byte), takes \in BOOLEAN :
           /\ RpcGood(h, left)
           /\ takes /\ ~cutInEscape /\ RpcQuiet(Rpc) => RpcQuiet(h)
           /\ RpcCounted(Rpc) => RpcCounted(h)
           /\ IF takes THEN Accepted ELSE Refused
           /\ SetRpc(h) /\ wire' = left
<1>1. wire \in Seq(Byte) /\ Len(wire) \in Nat /\ MaxIndication \in Nat
  BY StudioAssumption DEF TypeOK, StudioAssumption
<1>2. PICK n \in 1..Min({MaxIndication, Len(wire)}), takes \in BOOLEAN :
        LET rx(h, byte) == frame_rx_byte(h, byte, takes)
            h == FoldLeft(rx, Rpc, SubSeq(wire, 1, n))
        IN /\ IF takes THEN Accepted ELSE Refused /\ h.sent # requests_sent
           /\ SetRpc(h)
           /\ wire' = SubSeq(wire, n + 1, Len(wire))
  BY DEF indicate_func
<1>3. n \in 1..Len(wire)
  <2> DEFINE S == {MaxIndication, Len(wire)}
  <2>1. \E x \in S : \A y \in S : x <= y
    <3>1. MaxIndication <= Len(wire) \/ Len(wire) <= MaxIndication
      BY <1>1
    <3> QED
      BY <1>1, <3>1
  <2>2. n \in 1..Min(S)
    BY <1>2
  <2> HIDE DEF S
  <2>3. Min(S) \in S /\ \A y \in S : Min(S) <= y
    BY <2>1 DEF Min
  <2>4. Min(S) <= Len(wire) /\ Min(S) \in Nat
    BY <1>1, <2>3 DEF S
  <2> QED
    BY <1>1, <2>2, <2>4
<1> DEFINE h == FoldLeft(LAMBDA g, byte : frame_rx_byte(g, byte, takes), Rpc, SubSeq(wire, 1, n))
           left == SubSeq(wire, n + 1, Len(wire))
<1>4. /\ h \in RpcState
      /\ RpcGood(h, left)
      /\ takes /\ ~cutInEscape /\ RpcQuiet(Rpc) => RpcQuiet(h)
      /\ RpcCounted(Rpc) => RpcCounted(h)
  BY <1>3, IndicationKeeps
<1>5. /\ IF takes THEN Accepted ELSE Refused
      /\ SetRpc(h) /\ wire' = left
  BY <1>2
<1>6. left \in Seq(Byte)
  BY <1>1, <1>3
<1> HIDE DEF h, left
<1> QED
  BY <1>2, <1>4, <1>5, <1>6

\* An indication: the bytes keep what IndicationKeeps says.
LEMMA IndicateKeeps ==
  ASSUME HostInvariant, indicate_func
  PROVE  HostInvariant'
<1>1. /\ TypeOK /\ RequestsOnlyWhenReady /\ LinkInOrder /\ RpcGood(Rpc, wire) /\ Undisturbed
  BY DEF HostInvariant
<1>2. /\ default_conn = "secured" /\ subscribed /\ kb_subscribed
      /\ UNCHANGED <<running, scanning, default_conn, awaiting, value_handle, subscribed,
                     kb_subscribed, asked, notifications, disconnects, subscriptions, taken,
                     cutInEscape>>
  BY DEF indicate_func, linkVars
<1>3. PICK h \in RpcState, left \in Seq(Byte), takes \in BOOLEAN :
        /\ RpcGood(h, left)
        /\ takes /\ ~cutInEscape /\ RpcQuiet(Rpc) => RpcQuiet(h)
        /\ IF takes THEN Accepted ELSE Refused
        /\ SetRpc(h) /\ wire' = left
  BY <1>1, IndicationIs
<1>4. /\ requests_sent' = h.sent /\ responses_received' = h.received /\ decoder' = h.decoder
      /\ announced' = h.announced /\ att' = h.att /\ due' = h.due /\ answered' = h.answered
      /\ misread' = h.misread /\ Rpc' = h
  BY <1>3, RpcIsState DEF SetRpc
<1>5. /\ faults' \in 0..MaxFaults /\ (faults' = 0 => faults = 0 /\ takes)
  BY <1>1, <1>3, RefusalsBounded
<1>6. TypeOK'
  BY <1>1, <1>2, <1>3, <1>4, <1>5 DEF TypeOK, RpcState
<1>7. RequestsOnlyWhenReady' /\ LinkInOrder'
  BY <1>1, <1>2 DEF RequestsOnlyWhenReady, LinkInOrder
<1>8. RpcGood(Rpc, wire)'
  BY <1>2, <1>3, <1>4 DEF RpcGood
<1>9. Undisturbed'
  <2> SUFFICES ASSUME faults' = 0, notifications = 0, disconnects = 0
               PROVE  /\ ~cutInEscape
                      /\ RpcQuiet(Rpc)'
                      /\ ~(subscriptions = 0)
                      /\ awaiting = "nothing"
    BY <1>2 DEF Undisturbed
  <2>1. /\ ~cutInEscape /\ RpcQuiet(Rpc)
        /\ ~(subscriptions = 0)
        /\ subscriptions > 0 => awaiting = "nothing"
    BY <1>1, <1>2, <1>5 DEF Undisturbed
  <2>2. subscriptions > 0
    <3>1. subscriptions \in Nat
      BY <1>1 DEF TypeOK
    <3> QED
      BY <2>1, <3>1
  <2>3. RpcQuiet(h)
    BY <1>3, <1>5, <2>1
  <2>4. RpcQuiet(Rpc)'
    BY <1>2, <1>4, <2>3 DEF RpcQuiet
  <2> QED
    BY <2>1, <2>2, <2>4
<1> QED
  BY <1>6, <1>7, <1>8, <1>9 DEF HostInvariant

\* The subscription and the first request after it, field by field.
LEMMA SubscribedIs ==
  ASSUME TypeOK, NEW takes \in BOOLEAN
  PROVE  LET h == send_next_request(Subscribe(Rpc), takes)
             ccc == IF subscribed THEN att ELSE Append(att, 0)
         IN  /\ h \in RpcState
             /\ h.received = responses_received /\ h.decoder = decoder
             /\ h.announced = announced /\ h.due = due /\ h.answered = answered
             /\ h.misread = misread
             /\ IF requests_sent < STUDIO_REQUESTS_COUNT
                THEN /\ h.sent = requests_sent + 1
                     /\ h.att = IF takes THEN Append(ccc, requests_sent + 1) ELSE ccc
                ELSE h.sent = requests_sent /\ h.att = ccc
<1> DEFINE ccc == IF subscribed THEN att ELSE Append(att, 0)
           s == Subscribe(Rpc)
           h == send_next_request(s, takes)
<1>1. Rpc \in RpcState /\ STUDIO_REQUESTS_COUNT \in Nat /\ att \in Seq({0} \cup Request)
      /\ requests_sent \in 0..STUDIO_REQUESTS_COUNT
  BY RpcIsState, CountIsNat DEF TypeOK
<1>2. ccc \in Seq({0} \cup Request)
  BY <1>1
<1>3. s = [sent |-> requests_sent, received |-> responses_received, decoder |-> decoder,
           announced |-> announced, att |-> ccc, due |-> due, answered |-> answered,
           misread |-> misread]
  BY DEF Subscribe, Rpc
<1>4. s \in RpcState
  <2> HIDE DEF ccc
  <2> QED
    BY <1>2, <1>3 DEF RpcState, TypeOK
<1> HIDE DEF ccc
<1>5. /\ s.sent = requests_sent /\ s.received = responses_received /\ s.decoder = decoder
      /\ s.announced = announced /\ s.due = due /\ s.answered = answered
      /\ s.misread = misread /\ s.att = ccc
      /\ DOMAIN s = {"sent", "received", "decoder", "announced", "att", "due", "answered",
                     "misread"}
  BY <1>3
<1> HIDE DEF s
<1>6. CASE requests_sent < STUDIO_REQUESTS_COUNT
  <2>1. h = [s EXCEPT !.sent = @ + 1,
                      !.att = IF takes THEN Append(@, s.sent + 1) ELSE @]
    BY <1>1, <1>5, <1>6 DEF send_next_request
  <2> HIDE DEF h
  <2>2. /\ h.sent = requests_sent + 1
        /\ h.att = (IF takes THEN Append(ccc, requests_sent + 1) ELSE ccc)
        /\ h.received = s.received /\ h.decoder = s.decoder /\ h.due = s.due
        /\ h.answered = s.answered /\ h.misread = s.misread /\ h.announced = s.announced
    BY <1>5, <2>1
  <2>3. requests_sent + 1 \in 0..STUDIO_REQUESTS_COUNT /\ requests_sent + 1 \in Request
    BY <1>1, <1>6 DEF Request
  <2>4. h.att \in Seq({0} \cup Request)
    BY <1>2, <2>2, <2>3
  <2>5. h \in RpcState
    BY <1>4, <1>5, <2>1, <2>3, <2>4, <2>2 DEF RpcState
  <2> QED
    BY <1>5, <1>6, <2>2, <2>5 DEF h, s, ccc
<1>7. CASE ~(requests_sent < STUDIO_REQUESTS_COUNT)
  <2>1. h = s
    BY <1>1, <1>5, <1>7 DEF send_next_request
  <2> HIDE DEF h
  <2> QED
    BY <1>4, <1>5, <1>7, <2>1 DEF h, s, ccc
<1> QED
  BY <1>6, <1>7

\* The next attribute, or none: the requests are left alone.
LEMMA SearchKeeps ==
  ASSUME HostInvariant, discover_func, service_found \/ characteristic_found \/ attribute_missing,
         SetRpc(Rpc), UNCHANGED <<subscribed, subscriptions>>
  PROVE  HostInvariant'
<1>1. /\ TypeOK /\ RequestsOnlyWhenReady /\ LinkInOrder /\ RpcGood(Rpc, wire) /\ Undisturbed
  BY DEF HostInvariant
<1>2. /\ default_conn = "secured"
      /\ UNCHANGED <<running, scanning, default_conn, kb_subscribed, asked, wire,
                     notifications, disconnects, taken, cutInEscape>>
  BY DEF discover_func, kbVars
<1>3. /\ UNCHANGED <<requests_sent, responses_received, decoder, announced, att, due,
                     answered, misread>>
      /\ Rpc' = Rpc
  BY <1>1, RpcIsState DEF SetRpc, Rpc
<1>4. faults' \in 0..MaxFaults /\ (faults' = 0 => faults = 0)
  <2>1. Accepted \/ Refused
    BY DEF service_found, characteristic_found, attribute_missing, discover
  <2> QED
    BY <1>1, <2>1, RefusalsBounded
<1>5. /\ awaiting # "nothing" /\ awaiting' \in {"characteristic", "ccc", "nothing"}
      /\ value_handle' \in {TRUE, value_handle}
      /\ awaiting' = "ccc" => value_handle' = TRUE
  <2>1. CASE service_found
    BY <2>1 DEF service_found, discover
  <2>2. CASE characteristic_found
    BY <2>2 DEF characteristic_found, discover
  <2>3. CASE attribute_missing
    BY <2>3 DEF attribute_missing
  <2> QED
    BY <2>1, <2>2, <2>3
<1>6. value_handle \in BOOLEAN /\ value_handle' \in BOOLEAN /\ (value_handle => value_handle')
  <2>1. value_handle \in BOOLEAN
    BY <1>1 DEF TypeOK
  <2>2. CASE value_handle' = TRUE
    BY <2>1, <2>2
  <2>3. CASE value_handle' = value_handle
    BY <2>1, <2>3
  <2> QED
    BY <1>5, <2>1, <2>2, <2>3
<1>7. TypeOK'
  <2>1. awaiting' \in {"boot", "nothing", "security", "mtu", "service", "characteristic", "ccc"}
    BY <1>5
  <2> QED
    BY <1>1, <1>2, <1>3, <1>4, <1>6, <2>1 DEF TypeOK
<1>8. RequestsOnlyWhenReady'
  BY <1>1, <1>2, <1>3, <1>6 DEF RequestsOnlyWhenReady
<1>9. LinkInOrder'
  <2>1. awaiting' # "boot" /\ (awaiting' = "ccc" => value_handle')
    BY <1>5
  <2> QED
    BY <1>1, <1>2, <1>3, <1>6, <2>1 DEF LinkInOrder
<1>10. RpcGood(Rpc, wire)'
  BY <1>1, <1>2, <1>3 DEF RpcGood
<1>11. Undisturbed'
  <2> SUFFICES ASSUME faults' = 0, notifications = 0, disconnects = 0
               PROVE  /\ ~cutInEscape
                      /\ RpcQuiet(Rpc)'
                      /\ subscriptions = 0 =>
                           ~subscribed /\ ~kb_subscribed /\ att = << >> /\ requests_sent = 0
                      /\ ~(subscriptions > 0)
    BY <1>2, <1>3 DEF Undisturbed
  <2>1. /\ ~cutInEscape /\ RpcQuiet(Rpc)
        /\ subscriptions = 0 =>
             ~subscribed /\ ~kb_subscribed /\ att = << >> /\ requests_sent = 0
        /\ subscriptions > 0 => awaiting = "nothing"
    BY <1>1, <1>4 DEF Undisturbed
  <2>2. RpcQuiet(Rpc)'
    BY <1>2, <1>3, <2>1 DEF RpcQuiet
  <2> QED
    BY <1>5, <2>1, <2>2
<1> QED
  BY <1>7, <1>8, <1>9, <1>10, <1>11 DEF HostInvariant

\* The host subscribes and sends the next request; where nothing disturbs, the
\* write of the CCC is the first one the host queues.
LEMMA SubscriptionKeeps ==
  ASSUME HostInvariant, discover_func, awaiting = "ccc", awaiting' = "nothing",
         UNCHANGED value_handle, subscribed' = TRUE, subscriptions' = subscriptions + 1,
         NEW takes \in BOOLEAN,
         IF takes THEN Accepted ELSE Refused,
         SetRpc(send_next_request(Subscribe(Rpc), takes))
  PROVE  HostInvariant'
<1>1. /\ TypeOK /\ RequestsOnlyWhenReady /\ LinkInOrder /\ RpcGood(Rpc, wire) /\ Undisturbed
  BY DEF HostInvariant
<1>2. /\ default_conn = "secured"
      /\ UNCHANGED <<running, scanning, default_conn, kb_subscribed, asked, wire,
                     notifications, disconnects, taken, cutInEscape>>
  BY DEF discover_func, kbVars
<1> DEFINE ccc == IF subscribed THEN att ELSE Append(att, 0)
           h == send_next_request(Subscribe(Rpc), takes)
<1>3. /\ h \in RpcState
      /\ h.received = responses_received /\ h.decoder = decoder
      /\ h.announced = announced /\ h.due = due /\ h.answered = answered
      /\ h.misread = misread
      /\ IF requests_sent < STUDIO_REQUESTS_COUNT
         THEN /\ h.sent = requests_sent + 1
              /\ h.att = IF takes THEN Append(ccc, requests_sent + 1) ELSE ccc
         ELSE h.sent = requests_sent /\ h.att = ccc
  BY <1>1, SubscribedIs
<1>4. SetRpc(h)
  OBVIOUS
<1> HIDE DEF h
<1>5. /\ requests_sent' = h.sent /\ responses_received' = h.received /\ decoder' = h.decoder
      /\ announced' = h.announced /\ att' = h.att /\ due' = h.due /\ answered' = h.answered
      /\ misread' = h.misread /\ Rpc' = h
  BY <1>3, <1>4, RpcIsState DEF SetRpc
<1>6. /\ att \in Seq({0} \cup Request) /\ STUDIO_REQUESTS_COUNT \in Nat
      /\ requests_sent \in 0..STUDIO_REQUESTS_COUNT /\ requests_sent \in Nat
      /\ taken \in Seq(Request) /\ asked \in Seq(Request) /\ due \in Seq(Seq(Byte))
      /\ subscriptions \in Nat /\ responses_received \in Nat /\ answered \in Nat
      /\ Request \subseteq Nat
  BY <1>1, CountIsNat DEF TypeOK, Request
<1>7. ccc \in Seq({0} \cup Request) /\ Queued(ccc) = Queued(att) /\ Queued(att) \in Seq(Request)
  <2>1. /\ Append(att, 0) \in Seq({0} \cup Request) /\ Queued(Append(att, 0)) = Queued(att)
        /\ Queued(att) \in Seq(Request)
    <3>1. Append(att, 0) \in Seq({0} \cup Request)
      BY <1>6
    <3> QED
      BY <1>6, <3>1, QueuedIs
  <2>2. ccc = att \/ ccc = Append(att, 0)
    OBVIOUS
  <2> HIDE DEF ccc
  <2>3. CASE ccc = att
    BY <1>6, <2>1, <2>3
  <2>4. CASE ccc = Append(att, 0)
    BY <2>1, <2>4
  <2> QED
    BY <2>2, <2>3, <2>4
<1>8. faults' \in 0..MaxFaults /\ (faults' = 0 => faults = 0 /\ takes)
  BY <1>1, RefusalsBounded
<1>9. value_handle
  BY <1>1 DEF LinkInOrder
<1>10. TypeOK'
  <2>1. subscriptions' \in Nat
    BY <1>6
  <2> QED
    BY <1>1, <1>2, <1>3, <1>5, <1>8, <2>1 DEF TypeOK, RpcState
<1>11. RequestsOnlyWhenReady' /\ LinkInOrder'
  BY <1>1, <1>2, <1>9 DEF RequestsOnlyWhenReady, LinkInOrder
<1>12. requests_sent < STUDIO_REQUESTS_COUNT =>
         requests_sent + 1 \in Request
         /\ Queued(Append(ccc, requests_sent + 1)) = Append(Queued(att), requests_sent + 1)
  <2> HIDE DEF ccc
  <2> SUFFICES ASSUME requests_sent < STUDIO_REQUESTS_COUNT
               PROVE  /\ requests_sent + 1 \in Request
                      /\ Queued(Append(ccc, requests_sent + 1))
                           = Append(Queued(att), requests_sent + 1)
    OBVIOUS
  <2>1. requests_sent + 1 \in Request
    BY <1>6 DEF Request
  <2> QED
    BY <1>7, <2>1, QueuedIs
<1> HIDE DEF ccc
<1>13. RpcGood(Rpc, wire)'
  <2> DEFINE q == Queued(att)
  <2>1. /\ UpTo(taken \o q, requests_sent) /\ requests_sent <= subscriptions + responses_received
        /\ ~cutInEscape => ~misread /\ InSync(decoder, wire, due, FrameBuf)
    BY <1>1 DEF RpcGood, Rpc
  <2>2. q \in Seq(Request) /\ taken \o q \in Seq(Nat) /\ taken \in Seq(Request)
    <3>1. taken \o q \in Seq(Request)
      BY <1>6, <1>7
    <3>2. Seq(Request) \subseteq Seq(Nat)
      BY <1>6, SeqMonotonic
    <3> QED
      BY <1>6, <1>7, <3>1, <3>2
  <2>3. UpTo(taken \o Queued(h.att), h.sent)
    <3>1. CASE requests_sent < STUDIO_REQUESTS_COUNT /\ takes
      <4>1. Queued(h.att) = Append(q, requests_sent + 1) /\ h.sent = requests_sent + 1
        BY <1>3, <1>12, <3>1
      <4> HIDE DEF q
      <4>2. taken \o Append(q, requests_sent + 1) = Append(taken \o q, requests_sent + 1)
        BY <1>12, <2>2, <3>1
      <4>3. UpTo(Append(taken \o q, requests_sent + 1), requests_sent + 1)
        BY <1>6, <2>1, <2>2, UpToMore
      <4> QED
        BY <4>1, <4>2, <4>3
    <3>2. CASE requests_sent < STUDIO_REQUESTS_COUNT /\ ~takes
      <4>1. Queued(h.att) = q /\ h.sent = requests_sent + 1
        BY <1>3, <1>7, <3>2
      <4> DEFINE s == taken \o q
      <4>2. s \in Seq(Nat) /\ UpTo(s, requests_sent)
        BY <2>1, <2>2
      <4> HIDE DEF s
      <4>3. ASSUME NEW i \in DOMAIN s PROVE s[i] <= requests_sent + 1
        <5>1. s[i] \in Nat /\ s[i] <= requests_sent
          BY <4>2 DEF UpTo
        <5> QED
          BY <1>6, <5>1
      <4>4. UpTo(s, requests_sent + 1)
        BY <4>2, <4>3 DEF UpTo
      <4> QED
        BY <4>1, <4>4 DEF s
    <3>3. CASE ~(requests_sent < STUDIO_REQUESTS_COUNT)
      BY <1>3, <1>7, <2>1, <3>3
    <3> QED
      BY <3>1, <3>2, <3>3
  <2>4. h.sent <= (subscriptions + 1) + responses_received
    BY <1>3, <1>6, <2>1
  <2> QED
    BY <1>2, <1>3, <1>5, <2>1, <2>3, <2>4 DEF RpcGood
<1>14. Undisturbed'
  <2> SUFFICES ASSUME faults' = 0, notifications = 0, disconnects = 0
               PROVE  /\ ~cutInEscape
                      /\ RpcQuiet(Rpc)'
                      /\ ~((subscriptions = 0)')
                      /\ (att # << >> /\ Head(att) = 0 /\ asked = << >>)'
    BY <1>2 DEF Undisturbed
  <2>1. /\ ~cutInEscape /\ RpcQuiet(Rpc)
        /\ subscriptions = 0 => ~subscribed /\ att = << >> /\ requests_sent = 0
        /\ subscriptions > 0 => awaiting = "nothing"
    BY <1>1, <1>8 DEF Undisturbed
  <2>2. /\ subscriptions = 0 /\ ~((subscriptions = 0)')
    BY <1>6, <2>1
  <2>3. ~subscribed /\ att = << >> /\ requests_sent = 0 /\ takes
    BY <1>8, <2>1, <2>2
  <2>4. ccc = <<0>>
    BY <2>3 DEF ccc
  <2> DEFINE nq == Len(Queued(att))
             na == Len(asked)
             nd == Len(due)
  <2>5. /\ requests_sent = answered + nq + na + nd
        /\ \A i \in DOMAIN due : due[i] # Notification
        /\ announced => answered = STUDIO_REQUESTS_COUNT
    BY <2>1 DEF RpcQuiet, Rpc
  <2>6. nq \in Nat /\ na \in Nat /\ nd \in Nat
    BY <1>6, <1>7
  <2>7. answered = 0 /\ nq = 0 /\ na = 0 /\ nd = 0
    <3> HIDE DEF nq, na, nd
    <3> QED
      BY <1>6, <2>3, <2>5, <2>6
  <2>8. asked = << >>
    BY <1>6, <2>7, EmptySeq
  <2>9. CASE 0 < STUDIO_REQUESTS_COUNT
    <3>1. /\ h.sent = 1 /\ h.att = Append(<<0>>, 1)
          /\ Queued(h.att) = Append(Queued(att), 1)
      BY <1>3, <1>12, <2>3, <2>4, <2>9, 0 + 1 = 1
    <3>2. h.att # << >> /\ Head(h.att) = 0
      BY <3>1
    <3>3. Len(Queued(h.att)) = 1
      <4>1. Len(Append(Queued(att), 1)) = nq + 1
        BY <1>7, <1>12, <2>3, <2>9, 0 + 1 = 1
      <4> QED
        BY <2>7, <3>1, <4>1
    <3>4. ~h.announced
      BY <1>3, <1>6, <2>5, <2>7, <2>9
    <3>5. 1 = 0 + 1 + 0 + 0 /\ 1 <= 0 + 1
      OBVIOUS
    <3>6. RpcQuiet(Rpc)'
      BY <1>2, <1>3, <1>5, <2>5, <2>7, <3>1, <3>3, <3>4, <3>5 DEF RpcQuiet
    <3> QED
      BY <1>2, <1>5, <2>1, <2>2, <2>8, <3>2, <3>6
  <2>10. CASE ~(0 < STUDIO_REQUESTS_COUNT)
    <3>1. h.sent = 0 /\ h.att = <<0>> /\ Len(Queued(h.att)) = 0
      BY <1>3, <1>7, <2>3, <2>4, <2>7, <2>10
    <3>2. h.att # << >> /\ Head(h.att) = 0
      BY <3>1
    <3>3. 0 = 0 + 0 + 0 + 0 /\ 0 <= 0 + 1
      OBVIOUS
    <3>4. RpcQuiet(Rpc)'
      BY <1>2, <1>3, <1>5, <2>5, <2>7, <3>1, <3>3 DEF RpcQuiet
    <3> QED
      BY <1>2, <1>5, <2>1, <2>2, <2>8, <3>2, <3>4
  <2> QED
    BY <2>9, <2>10
<1> QED
  BY <1>10, <1>11, <1>13, <1>14 DEF HostInvariant

\* A refused subscription.
LEMMA RefusedSubscriptionKeeps ==
  ASSUME HostInvariant, discover_func, awaiting' = "nothing", UNCHANGED value_handle,
         Refused, SetRpc(Rpc), UNCHANGED <<subscribed, subscriptions>>
  PROVE  HostInvariant'
<1>1. /\ TypeOK /\ RequestsOnlyWhenReady /\ LinkInOrder /\ RpcGood(Rpc, wire)
  BY DEF HostInvariant
<1>2. /\ UNCHANGED <<running, scanning, default_conn, kb_subscribed, asked, wire,
                     notifications, disconnects, taken, cutInEscape>>
  BY DEF discover_func, kbVars
<1>3. /\ UNCHANGED <<requests_sent, responses_received, decoder, announced, att, due,
                     answered, misread>>
      /\ Rpc' = Rpc
  BY DEF SetRpc, Rpc
<1>4. faults' \in 0..MaxFaults /\ faults' # 0
  BY <1>1, RefusalsBounded
<1>5. TypeOK'
  BY <1>1, <1>2, <1>3, <1>4 DEF TypeOK
<1>6. RequestsOnlyWhenReady' /\ LinkInOrder'
  BY <1>1, <1>2, <1>3 DEF RequestsOnlyWhenReady, LinkInOrder
<1>7. RpcGood(Rpc, wire)'
  BY <1>1, <1>2, <1>3 DEF RpcGood
<1>8. Undisturbed'
  BY <1>4 DEF Undisturbed
<1> QED
  BY <1>5, <1>6, <1>7, <1>8 DEF HostInvariant

LEMMA DiscoverKeeps ==
  ASSUME HostInvariant, discover_func
  PROVE  HostInvariant'
<1>1. CASE /\ service_found \/ characteristic_found \/ attribute_missing
           /\ SetRpc(Rpc)
           /\ UNCHANGED <<subscribed, subscriptions>>
  BY <1>1, SearchKeeps
<1>2. CASE ccc_found /\ UNCHANGED value_handle
  <2>1. CASE /\ \E takes \in BOOLEAN :
                  /\ IF takes THEN Accepted ELSE Refused /\ requests_sent < STUDIO_REQUESTS_COUNT
                  /\ SetRpc(send_next_request(Subscribe(Rpc), takes))
             /\ subscribed' = TRUE
             /\ subscriptions' = subscriptions + 1
    <3>1. PICK takes \in BOOLEAN :
            /\ IF takes THEN Accepted ELSE Refused /\ requests_sent < STUDIO_REQUESTS_COUNT
            /\ SetRpc(send_next_request(Subscribe(Rpc), takes))
      BY <2>1
    <3>2. IF takes THEN Accepted ELSE Refused
      BY <3>1
    <3>3. awaiting = "ccc" /\ awaiting' = "nothing"
      BY <1>2 DEF ccc_found
    <3> QED
      BY <1>2, <2>1, <3>1, <3>2, <3>3, SubscriptionKeeps
  <2>2. CASE Refused /\ SetRpc(Rpc) /\ UNCHANGED <<subscribed, subscriptions>>
    <3>1. awaiting' = "nothing"
      BY <1>2 DEF ccc_found
    <3> QED
      BY <1>2, <2>2, <3>1, RefusedSubscriptionKeeps
  <2> QED
    BY <1>2, <2>1, <2>2 DEF ccc_found
<1> QED
  BY <1>1, <1>2 DEF discover_func

\* A step that changes nothing.
LEMMA StutterKeeps ==
  ASSUME HostInvariant, UNCHANGED vars
  PROVE  HostInvariant'
<1>1. /\ UNCHANGED <<running, scanning, default_conn, awaiting, value_handle, subscribed,
                     requests_sent, responses_received, decoder, announced, att>>
      /\ UNCHANGED <<kb_subscribed, asked, wire, faults, notifications, disconnects,
                     subscriptions, taken, due, answered, misread, cutInEscape>>
  BY DEF vars, linkVars, rpcVars, kbVars, countVars, histVars
<1>2. Rpc' = Rpc
  BY <1>1 DEF Rpc
<1>3. /\ TypeOK /\ RequestsOnlyWhenReady /\ LinkInOrder /\ RpcGood(Rpc, wire) /\ Undisturbed
  BY DEF HostInvariant
<1>4. TypeOK'
  BY <1>1, <1>3 DEF TypeOK
<1>5. RequestsOnlyWhenReady' /\ LinkInOrder'
  BY <1>1, <1>3 DEF RequestsOnlyWhenReady, LinkInOrder
<1>6. RpcGood(Rpc, wire)'
  BY <1>1, <1>2, <1>3 DEF RpcGood
<1>7. Undisturbed'
  BY <1>1, <1>2, <1>3 DEF Undisturbed, RpcQuiet
<1> QED
  BY <1>4, <1>5, <1>6, <1>7 DEF HostInvariant

-----------------------------------------------------------------------------
(* The theorems about the host.                                            *)

\* Whatever the stack refuses, the keyboard sends and the links do: the host's
\* callbacks keep HostInvariant.
THEOREM HostAlwaysSound == Spec => []HostInvariant
<1>1. Init => HostInvariant
  BY HostInvariantInit
<1>2. HostInvariant /\ [Next]_vars => HostInvariant'
  <2> SUFFICES ASSUME HostInvariant, [Next]_vars PROVE HostInvariant'
    OBVIOUS
  <2>1. CASE main \/ device_found \/ connected \/ mtu_exchanged
    BY <2>1, ConnectingKeeps
  <2>2. CASE security_changed
    BY <2>2, SecurityKeeps
  <2>3. CASE discover_func
    BY <2>3, DiscoverKeeps
  <2>4. CASE indicate_func
    BY <2>4, IndicateKeeps
  <2>5. CASE AttWrite
    BY <2>5, WriteKeeps
  <2>6. CASE KeyboardAnswers
    BY <2>6, AnswerKeeps
  <2>7. CASE KeyboardNotifies
    BY <2>7, NotifyKeeps
  <2>8. CASE disconnected
    BY <2>8, DisconnectKeeps
  <2>9. CASE security_changed_unasked
    BY <2>9, UnaskedSecurityKeeps
  <2>10. CASE UNCHANGED vars
    BY <2>10, StutterKeeps
  <2> QED
    BY <2>1, <2>2, <2>3, <2>4, <2>5, <2>6, <2>7, <2>8, <2>9, <2>10 DEF Next, HostStep
<1> QED
  BY <1>1, <1>2, PTL DEF Spec

\* Requests are written on an encrypted connection whose characteristic is known,
\* and no more of them than subscriptions and frames have earned.
THEOREM RequestsReadyAndEarned == Spec => []StudioInvariant
<1>1. HostInvariant => StudioInvariant
  BY DEF HostInvariant, RpcGood, Rpc, StudioInvariant, RequestsAreEarned
<1> QED
  BY <1>1, HostAlwaysSound, PTL

\* For every case's requests and over any number of connections, the keyboard
\* gets them in order and none twice.
THEOREM RequestsAlwaysInOrder == Spec => []RequestsInOrder
<1>1. HostInvariant => RequestsInOrder
  BY DEF HostInvariant, RpcGood, Rpc, RequestsInOrder, UpTo
<1> QED
  BY <1>1, HostAlwaysSound, PTL

\* For every payload, every buffer and every cut into indications, each frame
\* handled is the next one sent, unless a link dropped behind an ESC.
THEOREM FramesAlwaysAsSent == Spec => []FramesAsSent
<1>1. HostInvariant => FramesAsSent
  <2> SUFFICES ASSUME HostInvariant, misread PROVE cutInEscape
    BY DEF FramesAsSent
  <2>1. cutInEscape \in BOOLEAN /\ (~cutInEscape => ~misread)
    BY DEF HostInvariant, RpcGood, Rpc, TypeOK
  <2> QED
    BY <2>1
<1> QED
  BY <1>1, HostAlwaysSound, PTL

\* The callbacks count what they handle, from each state of HostInvariant on.
LEMMA StepKeepsCounted ==
  ASSUME HostInvariant, RpcCounted(Rpc), [Next]_vars
  PROVE  RpcCounted(Rpc)'
<1>1. TypeOK /\ RpcGood(Rpc, wire)
  BY DEF HostInvariant
<1>2. /\ STUDIO_REQUESTS_COUNT \in Nat /\ subscriptions \in Nat /\ notifications \in Nat
      /\ responses_received \in Nat /\ answered \in Nat /\ due \in Seq(Seq(Byte))
  BY <1>1, CountIsNat, StudioAssumption DEF TypeOK, StudioAssumption
<1>3. Notices(due) \in Nat
  BY <1>2, NoticesAre
<1>4. /\ responses_received + Notices(due) <= answered + notifications
      /\ announced => responses_received + subscriptions > STUDIO_REQUESTS_COUNT
  BY DEF RpcCounted, Rpc
\* A step that handles nothing.
<1>5. ASSUME UNCHANGED <<responses_received, announced, answered>>,
             subscriptions' = subscriptions \/ subscriptions' = subscriptions + 1,
             NEW n \in Nat, notifications' = notifications + n,
             Notices(due') <= Notices(due) + n, Notices(due') \in Nat
      PROVE  RpcCounted(Rpc)'
  <2> DEFINE was == Notices(due)
             is == Notices(due')
  <2>1. /\ was \in Nat /\ is \in Nat /\ is <= was + n
        /\ responses_received + was <= answered + notifications
    BY <1>3, <1>4, <1>5
  <2> HIDE DEF was, is
  <2>2. responses_received + is <= answered + (notifications + n)
    BY <1>2, <1>5, <2>1
  <2>3. announced => responses_received + subscriptions' > STUDIO_REQUESTS_COUNT
    BY <1>2, <1>4, <1>5
  <2> QED
    BY <1>5, <2>2, <2>3 DEF RpcCounted, Rpc, is
<1>6. ASSUME UNCHANGED <<responses_received, announced, answered, due, notifications>>,
             subscriptions' = subscriptions \/ subscriptions' = subscriptions + 1
      PROVE  RpcCounted(Rpc)'
  <2>1. Notices(due') = Notices(due) /\ notifications' = notifications + 0
    BY <1>2, <1>6
  <2>2. Notices(due') <= Notices(due) + 0 /\ Notices(due') \in Nat
    BY <1>3, <2>1
  <2> QED
    BY <1>5, <1>6, <2>1, <2>2
<1>7. CASE \/ main \/ device_found \/ connected \/ security_changed \/ mtu_exchanged
           \/ security_changed_unasked \/ AttWrite
  <2>1. UNCHANGED <<responses_received, announced, answered, due, notifications, subscriptions>>
    BY <1>7 DEF main, device_found, connected, security_changed, mtu_exchanged,
                security_changed_unasked, AttWrite, rpcVars, histVars
  <2> QED
    BY <1>6, <2>1
<1>8. CASE discover_func
  <2>1. UNCHANGED notifications
    BY <1>8 DEF discover_func
  <2>2. CASE SetRpc(Rpc) /\ UNCHANGED <<subscribed, subscriptions>>
    <3>1. UNCHANGED <<responses_received, announced, answered, due>>
      BY <2>2 DEF SetRpc, Rpc
    <3> QED
      BY <1>6, <2>1, <2>2, <3>1
  <2>3. ASSUME NEW takes \in BOOLEAN, SetRpc(send_next_request(Subscribe(Rpc), takes)),
               subscriptions' = subscriptions + 1
        PROVE  RpcCounted(Rpc)'
    <3> DEFINE h == send_next_request(Subscribe(Rpc), takes)
    <3>1. /\ h.received = responses_received /\ h.announced = announced /\ h.due = due
          /\ h.answered = answered
      BY <1>1, SubscribedIs
    <3>2. SetRpc(h)
      BY <2>3
    <3> HIDE DEF h
    <3>3. UNCHANGED <<responses_received, announced, answered, due>>
      BY <3>1, <3>2 DEF SetRpc
    <3> QED
      BY <1>6, <2>1, <2>3, <3>3
  <2> QED
    BY <1>8, <2>2, <2>3 DEF discover_func, ccc_found
<1>9. CASE indicate_func
  <2>1. PICK h \in RpcState : RpcCounted(h) /\ SetRpc(h)
    BY <1>1, <1>9, IndicationIs
  <2>2. UNCHANGED <<notifications, subscriptions>>
    BY <1>9 DEF indicate_func
  <2>3. Rpc' = h
    BY <2>1, RpcIsState
  <2> QED
    BY <2>1, <2>2, <2>3 DEF RpcCounted
<1>10. CASE KeyboardAnswers
  <2> DEFINE p == Response[Head(asked)]
  <2>1. /\ asked # << >> /\ Indicates(p)
        /\ UNCHANGED <<responses_received, announced, answered, notifications, subscriptions>>
    BY <1>10 DEF KeyboardAnswers, rpcVars, countVars
  <2>2. p \in Seq(Byte) /\ p # Notification
    <3>1. Head(asked) \in Request
      BY <1>1, <2>1 DEF TypeOK
    <3> QED
      BY <3>1, StudioAssumption DEF StudioAssumption, Request, STUDIO_REQUESTS_COUNT
  <2> HIDE DEF p
  <2>3. due' = due \/ due' = Append(due, p)
    BY <2>1 DEF Indicates
  <2>4. Notices(Append(due, p)) = Notices(due) + 0
    BY <1>2, <2>2, NoticesAre
  <2>5. Notices(due') = Notices(due)
    <3>1. CASE due' = due
      BY <3>1
    <3>2. CASE due' = Append(due, p)
      BY <1>3, <2>4, <3>2
    <3> QED
      BY <2>3, <3>1, <3>2
  <2>6. notifications' = notifications + 0 /\ Notices(due') <= Notices(due) + 0
        /\ Notices(due') \in Nat /\ 0 \in Nat
    BY <1>2, <1>3, <2>1, <2>5
  <2> QED
    BY <1>5, <2>1, <2>6
<1>11. CASE KeyboardNotifies
  <2>1. /\ due' = Append(due, Notification) /\ notifications' = notifications + 1
        /\ UNCHANGED <<responses_received, announced, answered, subscriptions>>
    BY <1>11 DEF KeyboardNotifies, Indicates, rpcVars
  <2>2. Notification \in Seq(Byte)
    BY StudioAssumption DEF StudioAssumption
  <2>3. Notices(due') = Notices(due) + 1
    BY <1>2, <2>1, <2>2, NoticesAre
  <2>4. Notices(due') <= Notices(due) + 1 /\ Notices(due') \in Nat /\ 1 \in Nat
    BY <1>3, <2>3
  <2> QED
    BY <1>5, <2>1, <2>4
<1>12. CASE disconnected
  <2>1. /\ due' = << >>
        /\ UNCHANGED <<responses_received, announced, answered, notifications, subscriptions>>
    BY <1>12 DEF disconnected, rpcVars
  <2>2. Notices(due') = 0
    BY <1>2, <2>1, NoticesAre
  <2>3. notifications' = notifications + 0 /\ Notices(due') <= Notices(due) + 0
        /\ Notices(due') \in Nat /\ 0 \in Nat
    BY <1>2, <1>3, <2>1, <2>2
  <2> QED
    BY <1>5, <2>1, <2>3
<1>13. CASE UNCHANGED vars
  <2>1. UNCHANGED <<responses_received, announced, answered, due, notifications, subscriptions>>
    BY <1>13 DEF vars, rpcVars, histVars, countVars
  <2> QED
    BY <1>6, <2>1
<1> QED
  BY <1>7, <1>8, <1>9, <1>10, <1>11, <1>12, <1>13 DEF Next, HostStep

\* Undisturbed, "[ALL RESPONSES RECEIVED]" means that every request is answered,
\* however many a case has; disturbed, the answers it came without are made up for by
\* notifications and repeated subscriptions, whatever else went wrong.
THEOREM AnnouncementIsTrue == Spec => []AnnouncedWhenComplete
<1>1. Init => RpcCounted(Rpc)
  <2> SUFFICES ASSUME Init PROVE RpcCounted(Rpc)
    OBVIOUS
  <2>1. << >> \in Seq(Seq(Byte))
    OBVIOUS
  <2>2. Notices(<< >>) = 0
    BY <2>1, NoticesAre
  <2>3. /\ Rpc.received = 0 /\ Rpc.due = << >> /\ Rpc.answered = 0 /\ ~Rpc.announced
        /\ notifications = 0
    BY DEF Init, Rpc
  <2> QED
    BY <2>2, <2>3 DEF RpcCounted
<1>2. HostInvariant /\ RpcCounted(Rpc) /\ [Next]_vars => RpcCounted(Rpc)'
  BY StepKeepsCounted
<1>3. HostInvariant /\ RpcCounted(Rpc) => AnnouncedWhenComplete
  <2> SUFFICES ASSUME HostInvariant, RpcCounted(Rpc), announced PROVE AnnouncedWhenComplete
    BY DEF AnnouncedWhenComplete
  <2>1. /\ STUDIO_REQUESTS_COUNT \in Nat /\ subscriptions \in Nat /\ notifications \in Nat
        /\ responses_received \in Nat /\ answered \in Nat /\ due \in Seq(Seq(Byte))
    BY CountIsNat, StudioAssumption DEF HostInvariant, TypeOK, StudioAssumption
  <2>2. Notices(due) \in Nat
    BY <2>1, NoticesAre
  <2>3. /\ responses_received + Notices(due) <= answered + notifications
        /\ responses_received + subscriptions > STUDIO_REQUESTS_COUNT
    BY DEF RpcCounted, Rpc
  <2>4. answered + notifications + subscriptions > STUDIO_REQUESTS_COUNT
    BY <2>1, <2>2, <2>3
  <2>5. faults = 0 /\ notifications = 0 /\ disconnects = 0
          => answered = STUDIO_REQUESTS_COUNT
    BY DEF HostInvariant, Undisturbed, RpcQuiet, Rpc
  <2> QED
    BY <2>4, <2>5 DEF AnnouncedWhenComplete
<1> QED
  BY <1>1, <1>2, <1>3, HostAlwaysSound, PTL DEF Spec
=============================================================================
