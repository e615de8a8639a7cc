------------------------------ MODULE SmokeProofs ------------------------------
(***************************************************************************)
(* The smoke tests (SmokeSpec), for every number of attempts, failures and *)
(* drops.                                                                  *)
(*                                                                         *)
(* The session: what the conversation, the chain and the relay do leaves   *)
(* it alone or ends its attempt, and SessionInvariant holds of what is     *)
(* left.  The encrypted chain: ChainOfAttempt relates what the loop has    *)
(* read to the consoles, and these to the links.  The verdict:             *)
(* AnsweredSoFar and VerdictFollows carry what has been observed to the    *)
(* stages after it, up to the last line of the test.                       *)
(***************************************************************************)
EXTENDS Smoke, FramingLemmas

-----------------------------------------------------------------------------
(* The strengthening.                                                      *)

\* The stages in which the last command issued was a start.
StartStages == {"settle", "resuming", "wiring", "body", "relay"}

\* A command is under way exactly as long as it has not taken effect, and only
\* ever the one the stage stands for.
CommandFitsStage ==
  /\ stage \in StartStages =>
       command = (IF paused THEN "start" ELSE "none")
  /\ stage = "pausing" =>
       command = (IF paused THEN "none" ELSE "pause")
  /\ stage \in {"spawn", "monitor", "boot", "terminals", "done"} =>
       paused /\ command = "none"

\* What has seen the emulation run can rely on it.
SeenRunning ==
  stage \in {"wiring", "body", "relay"} /\ mode \in UsbModes => ~paused

\* The relay and the attachment belong to the USB modes.
StagesFitMode ==
  stage \in AttachStages \cup {"relay"} => mode \in UsbModes

\* Before the bridge is attached both its clients are there.
ClientsFirst == attached => clients = 2

\* A process belongs to an attempt under way, a leaked one to a run that has
\* crashed.
ProcessesAccountedFor ==
  /\ stage \in {"spawn", "done"} => process = "none"
  /\ leaked = 0 \/ (leaked = 1 /\ stage = "done" /\ exit = "crash")

SessionInvariant ==
  /\ SessionTypeOK
  /\ CommandFitsStage
  /\ SeenRunning
  /\ StagesFitMode
  /\ ClientsFirst
  /\ ProcessesAccountedFor

-----------------------------------------------------------------------------
(* Every step of a smoke test is a step of its session, or leaves it alone. *)

\* An attempt whose assertions held or failed.
BodyEnds ==
  /\ stage \in {"body", "relay"}
  /\ \/ Returns
     \/ \E err \in {"AssertionError", "DecodeError"} : Raises(err, TRUE)

\* The device info was right; the relay is still to come.
BodyGoesOn ==
  /\ stage = "body" /\ mode \in UsbModes /\ stage' = "relay"
  /\ UNCHANGED <<process, machineVars, bridgeVars, runVars>>

SessionStep == EmulatorStep \/ HarnessStep \/ BodyEnds \/ BodyGoesOn

\* No step of the body touches the session except to end the attempt.
LEMMA SmokeStepIsSessionStep ==
  ASSUME SmokeNext
  PROVE  SessionStep \/ UNCHANGED sessionVars
<1>1. CASE Attempt
  BY <1>1 DEF Attempt, SessionStep
<1>2. CASE Emulator \/ Boot
  BY <1>2 DEF Emulator, Boot, SessionStep
<1>3. CASE Converse \/ DeviceServes \/ Machines \/ Observe
  BY <1>3 DEF Converse, DeviceServes, Machines, Observe
<1>4. CASE ConversationOver
  <2>1. stage = "body" /\ mode \in UsbModes
    BY <1>4 DEF ConversationOver, InBody
  <2>2. CASE phase = "failed"
    BY <1>4, <2>1, <2>2 DEF ConversationOver, SessionStep, BodyEnds
  <2>3. CASE phase = "crashed"
    BY <1>4, <2>1, <2>3 DEF ConversationOver, SessionStep, BodyEnds
  <2>4. CASE phase = "ok" /\ mode = "usb"
    BY <1>4, <2>1, <2>4 DEF ConversationOver, SessionStep, BodyEnds
  <2>5. CASE phase = "ok" /\ mode = "usb_wired"
    BY <1>4, <2>1, <2>5 DEF ConversationOver, SessionStep, BodyGoesOn
  <2>6. phase \in {"failed", "crashed", "ok"}
    BY <1>4 DEF ConversationOver
  <2> QED
    BY <2>1, <2>2, <2>3, <2>4, <2>5, <2>6 DEF UsbModes
<1>5. CASE ChainOver
  <2>1. stage = "body"
    BY <1>5 DEF ChainOver, InBody
  <2>2. Returns \/ Raises("AssertionError", TRUE)
    BY <1>5 DEF ChainOver
  <2> QED
    BY <2>1, <2>2 DEF SessionStep, BodyEnds
<1>6. CASE OtherBody
  BY <1>6 DEF OtherBody, InBody, SessionStep, BodyEnds
<1> QED
  BY <1>1, <1>2, <1>3, <1>4, <1>5, <1>6 DEF SmokeNext

-----------------------------------------------------------------------------
(* The invariant is inductive.                                             *)

\* A run starts without a process, paused, with nothing attached.
LEMMA SessionInvariantInit ==
  ASSUME SmokeInit
  PROVE  SessionInvariant
<1> USE SessionAssumption DEF SessionAssumption
<1>1. attempt \in 1..max_attempts /\ leaked \in 0..max_attempts /\ clients \in 0..2
  BY SMT DEF SmokeInit, SessionInit
<1>2. SessionTypeOK
  BY <1>1 DEF SmokeInit, SessionInit, SessionTypeOK
<1> QED
  BY <1>2 DEF SmokeInit, SessionInit, SessionInvariant, CommandFitsStage, StartStages,
              SeenRunning, StagesFitMode, AttachStages, ClientsFirst,
              ProcessesAccountedFor

\* However an attempt is left, a fresh one starts or the run is over.
LEMMA RaisesKeepsInvariant ==
  ASSUME SessionInvariant, stage # "done",
         NEW err \in Exceptions, NEW stops \in BOOLEAN,
         stops \/ (mode \notin UsbModes /\ err # "AssertionError"),
         Raises(err, stops)
  PROVE  SessionInvariant'
<1> USE SessionAssumption DEF SessionAssumption
<1>1. leaked = 0
  BY DEF SessionInvariant, ProcessesAccountedFor
<1>2. leaked' \in {0, 1} /\ (leaked' = 1 => ~stops)
  BY <1>1 DEF Raises
<1>3. ~stops => ~Retries(mode, err)
  BY DEF Retries, UsbModes
<1>4. leaked' = 1 => stage' = "done" /\ exit' = "crash"
  BY <1>2, <1>3 DEF Raises, Exceptions
<1>5. SessionTypeOK'
  <2>1. attempt' \in 1..max_attempts
    BY DEF SessionInvariant, SessionTypeOK, Raises, AttemptsLeft
  <2>2. leaked' \in 0..max_attempts
    BY <1>2
  <2>3. clients' \in 0..2
    BY DEF Raises
  <2>4. stage' \in {"spawn", "done"} /\ exit' \in {"none", "ok", "failed", "crash"}
    BY DEF SessionInvariant, SessionTypeOK, Raises
  <2> QED
    BY <2>1, <2>2, <2>3, <2>4 DEF SessionInvariant, SessionTypeOK, Raises
<1>6. stage' \in {"spawn", "done"} /\ process' = "none" /\ paused' /\ command' = "none"
        /\ ~attached'
  BY DEF Raises
<1> QED
  BY <1>2, <1>4, <1>5, <1>6 DEF SessionInvariant, CommandFitsStage, StartStages,
     SeenRunning, StagesFitMode, AttachStages, ClientsFirst, ProcessesAccountedFor

\* The two ends of the pause and of the start that attach waits for.
LEMMA EmulatorKeepsInvariant ==
  ASSUME SessionInvariant, EmulatorStep
  PROVE  SessionInvariant'
<1>1. CASE CommandTakesEffect
  <2>1. SessionTypeOK'
    BY <1>1 DEF SessionInvariant, SessionTypeOK, CommandTakesEffect, bridgeVars, runVars
  <2>2. command # "none" /\ command' = "none" /\ (paused' <=> command = "pause")
        /\ UNCHANGED <<stage, mode, attempt, leaked, exit, clients, attached, process>>
    BY <1>1 DEF CommandTakesEffect, bridgeVars, runVars
  <2>3. paused' \in BOOLEAN /\ paused \in BOOLEAN
    BY <2>1 DEF SessionInvariant, SessionTypeOK
  <2>4. CommandFitsStage' /\ SeenRunning'
    BY <2>2, <2>3 DEF SessionInvariant, CommandFitsStage, StartStages, SeenRunning
  <2> QED
    BY <2>1, <2>2, <2>4 DEF SessionInvariant, StagesFitMode, ClientsFirst,
                            ProcessesAccountedFor
<1>2. CASE RenodeDies
  BY <1>2 DEF SessionInvariant, SessionTypeOK, RenodeDies, machineVars, bridgeVars, runVars,
     CommandFitsStage, SeenRunning, StagesFitMode, ClientsFirst, ProcessesAccountedFor
<1> QED
  BY <1>1, <1>2 DEF EmulatorStep

\* The boot functions: a boot that fails without stopping its session belongs to
\* a mode that does not try again after such a failure.
LEMMA BootKeepsInvariant ==
  ASSUME SessionInvariant, Popen \/ MonitorComesUp \/ MonitorNeverUp \/ BootDone \/ BootFails
  PROVE  SessionInvariant'
<1> USE DEF SessionInvariant, SessionTypeOK, CommandFitsStage, StartStages, SeenRunning,
            StagesFitMode, AttachStages, Booted, ClientsFirst, ProcessesAccountedFor,
            machineVars, bridgeVars, runVars
<1>1. CASE Popen
  BY <1>1 DEF Popen
<1>2. CASE MonitorComesUp
  BY <1>2 DEF MonitorComesUp
<1>3. CASE MonitorNeverUp
  BY <1>3, RaisesKeepsInvariant DEF MonitorNeverUp, Exceptions
<1>4. CASE BootDone
  BY <1>4 DEF BootDone, Issue
<1>5. CASE BootFails
  <2>1. PICK err \in {"TimeoutError", "OSError"} : Raises(err, StopsFailedBoot(mode))
    BY <1>5 DEF BootFails
  <2>2. StopsFailedBoot(mode) \in BOOLEAN /\ (StopsFailedBoot(mode) \/ mode \notin UsbModes)
    BY DEF StopsFailedBoot
  <2>3. stage # "done" /\ err \in Exceptions /\ err # "AssertionError"
    BY <1>5 DEF BootFails, Exceptions
  <2> QED
    BY <2>1, <2>2, <2>3, RaisesKeepsInvariant
<1> QED
  BY <1>1, <1>2, <1>3, <1>4, <1>5

\* attach_dual_cdc_bridge, its deadlines, and a Renode that dies meanwhile.
LEMMA AttachKeepsInvariant ==
  ASSUME SessionInvariant,
         \/ Pause \/ SeePaused \/ ConnectTerminal \/ AttachDualCdcAcmBridge
         \/ SeeRunning \/ SeeWired \/ AttachTimesOut \/ SocketBreaks
  PROVE  SessionInvariant'
<1> USE DEF SessionInvariant, SessionTypeOK, CommandFitsStage, StartStages, SeenRunning,
            StagesFitMode, AttachStages, Booted, ClientsFirst, ProcessesAccountedFor,
            machineVars, bridgeVars, runVars, Issue
<1>1. CASE Pause
  BY <1>1 DEF Pause
<1>2. CASE SeePaused
  BY <1>2 DEF SeePaused
<1>3. CASE ConnectTerminal
  BY <1>3 DEF ConnectTerminal
<1>4. CASE AttachDualCdcAcmBridge
  BY <1>4 DEF AttachDualCdcAcmBridge
<1>5. CASE SeeRunning
  BY <1>5 DEF SeeRunning
<1>6. CASE SeeWired
  BY <1>6 DEF SeeWired
<1>7. CASE AttachTimesOut \/ SocketBreaks
  <2>1. stage # "done"
    BY <1>7 DEF AttachTimesOut, SocketBreaks
  <2>2. PICK err \in Exceptions : Raises(err, TRUE)
    BY <1>7 DEF AttachTimesOut, SocketBreaks, Exceptions
  <2> QED
    BY <2>1, <2>2, RaisesKeepsInvariant
<1> QED
  BY <1>1, <1>2, <1>3, <1>4, <1>5, <1>6, <1>7

\* The end of the body, or its going on to the relay.
LEMMA BodyKeepsInvariant ==
  ASSUME SessionInvariant, BodyEnds \/ BodyGoesOn
  PROVE  SessionInvariant'
<1> USE DEF SessionInvariant, SessionTypeOK, CommandFitsStage, StartStages, SeenRunning,
            StagesFitMode, AttachStages, Booted, ClientsFirst, ProcessesAccountedFor,
            machineVars, bridgeVars, runVars
<1>1. CASE BodyEnds
  <2>1. CASE Returns
    <3>1. stage' = "done" /\ process' = "none" /\ exit' = "ok" /\ paused' = TRUE
          /\ command' = "none" /\ clients' = 0 /\ attached' = FALSE
          /\ UNCHANGED <<mode, attempt, leaked>>
      BY <2>1 DEF Returns
    <3>2. leaked = 0
      BY <1>1 DEF BodyEnds
    <3>3. clients' \in 0..2
      BY <3>1
    <3>4. SessionTypeOK'
      BY <3>1, <3>3
    <3> QED
      BY <3>1, <3>2, <3>4
  <2>2. CASE \E err \in {"AssertionError", "DecodeError"} : Raises(err, TRUE)
    BY <1>1, <2>2, RaisesKeepsInvariant DEF BodyEnds, Exceptions
  <2> QED
    BY <1>1, <2>1, <2>2 DEF BodyEnds
<1>2. CASE BodyGoesOn
  BY <1>2 DEF BodyGoesOn
<1> QED
  BY <1>1, <1>2

\* The invariant holds throughout every smoke test.
THEOREM SessionAlwaysInvariant == SmokeSpec => []SessionInvariant
<1>1. SmokeInit => SessionInvariant
  BY SessionInvariantInit
<1>2. SessionInvariant /\ [SmokeNext]_smokeVars => SessionInvariant'
  <2> SUFFICES ASSUME SessionInvariant, [SmokeNext]_smokeVars
               PROVE  SessionInvariant'
    OBVIOUS
  <2>1. SessionStep \/ UNCHANGED sessionVars
    BY SmokeStepIsSessionStep DEF smokeVars
  <2>2. CASE SessionStep
    BY <2>2, EmulatorKeepsInvariant, BootKeepsInvariant, AttachKeepsInvariant,
       BodyKeepsInvariant DEF SessionStep, HarnessStep
  <2>3. CASE UNCHANGED sessionVars
    BY <2>3 DEF sessionVars, machineVars, bridgeVars, runVars, SessionInvariant,
       SessionTypeOK, CommandFitsStage, SeenRunning, StagesFitMode, ClientsFirst,
       ProcessesAccountedFor
  <2> QED
    BY <2>1, <2>2, <2>3
<1> QED
  BY <1>1, <1>2, PTL DEF SmokeSpec

-----------------------------------------------------------------------------
(* What it is for.                                                         *)

\* Every variable of the session keeps its type, however many attempts there are.
THEOREM SessionTypeCorrect == SmokeSpec => []SessionTypeOK
<1>1. SessionInvariant => SessionTypeOK
  BY DEF SessionInvariant
<1> QED
  BY <1>1, SessionAlwaysInvariant, PTL

\* attach_dual_cdc_bridge: while the terminals are set up the emulation stands
\* still, and enumeration cannot start before both clients are connected.
THEOREM BridgeIsSetUpFrozen == SmokeSpec => []BridgeSetUpFrozen
<1>1. SessionInvariant => BridgeSetUpFrozen
  BY DEF SessionInvariant, CommandFitsStage, ClientsFirst, BridgeSetUpFrozen
<1> QED
  BY <1>1, SessionAlwaysInvariant, PTL

\* wait_paused: no USB mode's assertions meet an emulation a late pause has frozen.
THEOREM EmulationNotFrozen == SmokeSpec => []NeverFrozen
<1>1. SessionInvariant => NeverFrozen
  BY DEF SessionInvariant, CommandFitsStage, StartStages, SeenRunning, NeverFrozen
<1> QED
  BY <1>1, SessionAlwaysInvariant, PTL

\* However many attempts are allowed, at most one Renode is up, and one is left
\* behind only by a run that ends in a traceback.
THEOREM OnlyOneEmulation == SmokeSpec => []OneEmulationAtATime
<1>1. SessionInvariant => OneEmulationAtATime
  <2> SUFFICES ASSUME SessionInvariant PROVE OneEmulationAtATime
    OBVIOUS
  <2>1. leaked \in {0, 1} /\ (leaked = 1 => stage = "done" /\ exit = "crash")
    BY DEF SessionInvariant, ProcessesAccountedFor
  <2>2. leaked = 1 => process # "up"
    BY <2>1 DEF SessionInvariant, ProcessesAccountedFor
  <2> QED
    BY <2>1, <2>2 DEF OneEmulationAtATime
<1> QED
  BY <1>1, SessionAlwaysInvariant, PTL

-----------------------------------------------------------------------------
(* Markers on the host's console.                                          *)

ReadMarkers == {"S5 OK", "S5 FAIL"}

\* The marker was printed on the connection that is now up.
Since(s, m) ==
  \E i \in DOMAIN s : s[i] = m /\ \A k \in i..Len(s) : s[k] # "DISCONNECT"
ReadSince(s) == \E m \in ReadMarkers : Since(s, m)

\* ReadsAreEncrypted, of any console.
Apart(s, j, i) == j < i /\ \A k \in j..i : s[k] # "DISCONNECT"
EncryptedIn(s) ==
  \A i \in DOMAIN s : s[i] \in ReadMarkers =>
    /\ \E j \in DOMAIN s : Apart(s, j, i) /\ s[j] = "S4 OK"
    /\ \A j \in DOMAIN s : Apart(s, j, i) => s[j] \notin ReadMarkers

\* The console with one more marker, position by position.
Printed(s, m, t) ==
  /\ t \in Seq(Markers) /\ Len(t) = Len(s) + 1 /\ t[Len(s) + 1] = m
  /\ \A i \in 1..Len(s) : t[i] = s[i]
  /\ DOMAIN t = 1..(Len(s) + 1) /\ DOMAIN s = 1..Len(s) /\ Len(s) \in Nat
LEMMA PrintedIs ==
  \A s \in Seq(Markers), m \in Markers : Printed(s, m, Append(s, m))
BY DEF Printed

\* What one more marker leaves to be found.
LEMMA PrintMarker ==
  ASSUME NEW s \in Seq(Markers), NEW m \in Markers, NEW x \in Markers
  PROVE  /\ Since(Append(s, m), x) <=> m # "DISCONNECT" /\ (x = m \/ Since(s, x))
         /\ ReadSince(Append(s, m)) <=>
              m # "DISCONNECT" /\ (m \in ReadMarkers \/ ReadSince(s))
<1> DEFINE t == Append(s, m)
<1>1. Printed(s, m, t)
  BY PrintedIs
<1> USE <1>1 DEF Printed
<1> HIDE DEF t
<1>2. ASSUME NEW y \in Markers
      PROVE  Since(t, y) <=> m # "DISCONNECT" /\ (y = m \/ Since(s, y))
  <2>1. ASSUME Since(t, y) PROVE m # "DISCONNECT" /\ (y = m \/ Since(s, y))
    <3>1. PICK i \in 1..(Len(s) + 1) :
            t[i] = y /\ \A k \in i..(Len(s) + 1) : t[k] # "DISCONNECT"
      BY <2>1, <1>1 DEF Since
    <3>2. m # "DISCONNECT"
      BY <3>1, <1>1
    <3>3. CASE i = Len(s) + 1
      BY <3>1, <3>2, <3>3, <1>1
    <3>4. CASE i \in 1..Len(s)
      <4>1. s[i] = y /\ \A k \in i..Len(s) : s[k] # "DISCONNECT"
        BY <3>1, <3>4, <1>1
      <4> QED
        BY <4>1, <3>2, <3>4, <1>1 DEF Since
    <3> QED
      BY <3>3, <3>4, <1>1
  <2>2. ASSUME m # "DISCONNECT", y = m PROVE Since(t, y)
    <3>1. \A k \in (Len(s) + 1)..(Len(s) + 1) : t[k] # "DISCONNECT"
      BY <2>2, <1>1
    <3> QED
      BY <3>1, <2>2, <1>1 DEF Since
  <2>3. ASSUME m # "DISCONNECT", Since(s, y) PROVE Since(t, y)
    <3>1. PICK i \in 1..Len(s) : s[i] = y /\ \A k \in i..Len(s) : s[k] # "DISCONNECT"
      BY <2>3, <1>1 DEF Since
    <3>2. \A k \in i..(Len(s) + 1) : t[k] # "DISCONNECT"
      BY <3>1, <2>3, <1>1
    <3> QED
      BY <3>1, <3>2, <1>1 DEF Since
  <2> QED
    BY <2>1, <2>2, <2>3
<1>3. Since(t, "S5 OK") <=> m # "DISCONNECT" /\ ("S5 OK" = m \/ Since(s, "S5 OK"))
  BY <1>2 DEF Markers
<1>4. Since(t, "S5 FAIL") <=> m # "DISCONNECT" /\ ("S5 FAIL" = m \/ Since(s, "S5 FAIL"))
  BY <1>2 DEF Markers
<1>5. ReadSince(t) <=> m # "DISCONNECT" /\ (m \in ReadMarkers \/ ReadSince(s))
  BY <1>3, <1>4 DEF ReadSince, ReadMarkers
<1> QED
  BY <1>2, <1>5 DEF t

\* What was printed on one connection still was.
LEMMA PrintedApart ==
  ASSUME NEW s \in Seq(Markers), NEW m \in Markers, NEW t, Printed(s, m, t),
         NEW i \in 1..Len(s), NEW j \in 1..Len(s)
  PROVE  Apart(t, j, i) <=> Apart(s, j, i)
<1>1. Len(s) \in Nat /\ \A k \in 1..Len(s) : t[k] = s[k]
  BY DEF Printed
<1>2. \A k \in j..i : k \in 1..Len(s)
  BY <1>1
<1> QED
  BY <1>1, <1>2 DEF Apart

\* A read may be reported where the link is encrypted and no read was reported.
LEMMA PrintEncrypted ==
  ASSUME NEW s \in Seq(Markers), NEW m \in Markers
  PROVE  /\ EncryptedIn(s)
         /\ m \in ReadMarkers => Since(s, "S4 OK") /\ ~ReadSince(s)
         => EncryptedIn(Append(s, m))
<1> DEFINE t == Append(s, m)
<1>1. Printed(s, m, t)
  BY PrintedIs
<1> HIDE DEF t
<1>0. Len(s) \in Nat
  OBVIOUS
<1>2. /\ t \in Seq(Markers) /\ Len(t) = Len(s) + 1 /\ t[Len(s) + 1] = m
      /\ Len(s) \in Nat
      /\ \A i \in 1..Len(s) : t[i] = s[i]
      /\ DOMAIN t = 1..(Len(s) + 1) /\ DOMAIN s = 1..Len(s)
  BY <1>1 DEF Printed
<1>3. ASSUME EncryptedIn(s), NEW i \in 1..Len(s), t[i] \in ReadMarkers
      PROVE  /\ \E j \in 1..(Len(s) + 1) : Apart(t, j, i) /\ t[j] = "S4 OK"
             /\ \A j \in 1..(Len(s) + 1) : Apart(t, j, i) => t[j] \notin ReadMarkers
  <2>1. s[i] \in ReadMarkers
    BY <1>2, <1>3
  <2>2. PICK j \in 1..Len(s) : Apart(s, j, i) /\ s[j] = "S4 OK"
    BY <2>1, <1>2, <1>3 DEF EncryptedIn
  <2>3. \A q \in 1..Len(s) : Apart(s, q, i) => s[q] \notin ReadMarkers
    BY <2>1, <1>2, <1>3 DEF EncryptedIn
  <2>4. Apart(t, j, i) /\ t[j] = "S4 OK" /\ j \in 1..(Len(s) + 1)
    <3>1. Apart(t, j, i)
      BY <2>2, <1>1, PrintedApart, Zenon
    <3>2. s[j] = "S4 OK" /\ j \in 1..Len(s)
      BY <2>2
    <3>3. t[j] = "S4 OK"
      BY <3>2, <1>2
    <3>4. j \in 1..(Len(s) + 1)
      BY <1>0
    <3> QED
      BY <3>1, <3>3, <3>4, Zenon
  <2>5. ASSUME NEW q \in 1..(Len(s) + 1), Apart(t, q, i) PROVE t[q] \notin ReadMarkers
    <3>1. q < i
      BY <2>5 DEF Apart
    <3>2. q \in 1..Len(s)
      BY <3>1, <1>2
    <3>3. Apart(s, q, i)
      BY <3>2, <2>5, <1>1, PrintedApart, Zenon
    <3>4. s[q] \notin ReadMarkers
      BY <3>2, <3>3, <2>3
    <3> QED
      BY <3>2, <3>4, <1>2
  <2> QED
    BY <2>4, <2>5
<1>4. ASSUME m \in ReadMarkers, Since(s, "S4 OK"), ~ReadSince(s), NEW i, i = Len(s) + 1
      PROVE  /\ \E j \in 1..(Len(s) + 1) : Apart(t, j, i) /\ t[j] = "S4 OK"
             /\ \A j \in 1..(Len(s) + 1) : Apart(t, j, i) => t[j] \notin ReadMarkers
  <2>0. i = Len(s) + 1
    BY <1>4, Zenon
  <2>1. m # "DISCONNECT"
    BY <1>4 DEF ReadMarkers
  <2>2. PICK j \in 1..Len(s) : s[j] = "S4 OK" /\ \A k \in j..Len(s) : s[k] # "DISCONNECT"
    BY <1>2, <1>4 DEF Since
  <2>3. Apart(t, j, i) /\ t[j] = "S4 OK" /\ j \in 1..(Len(s) + 1)
    <3>0. j \in 1..(Len(s) + 1) /\ j < i
      BY <2>0, <1>0
    <3>1. t[j] = "S4 OK"
      BY <2>2, <1>2
    <3>2. ASSUME NEW k \in j..i PROVE t[k] # "DISCONNECT"
      <4>1. k = Len(s) + 1 \/ (k \in 1..Len(s) /\ k \in j..Len(s))
        BY <2>0, <1>0
      <4> QED
        BY <4>1, <2>1, <2>2, <1>2
    <3> QED
      BY <3>0, <3>1, <3>2 DEF Apart
  <2>4. ASSUME NEW q \in 1..(Len(s) + 1), Apart(t, q, i), t[q] \in ReadMarkers PROVE FALSE
    <3>1. q < i
      BY <2>4 DEF Apart
    <3>2. q \in 1..Len(s)
      BY <3>1, <2>0, <1>2
    <3>3. \A k \in q..Len(s) : k \in q..i /\ k \in 1..Len(s)
      BY <3>2, <2>0, <1>2
    <3>4. \A k \in q..Len(s) : s[k] # "DISCONNECT"
      BY <3>3, <2>4, <1>2 DEF Apart
    <3>5. Since(s, s[q]) /\ s[q] \in ReadMarkers
      BY <3>2, <3>4, <2>4, <1>2 DEF Since
    <3> QED
      BY <3>5, <1>4 DEF ReadSince
  <2> QED
    BY <2>3, <2>4
<1>5. ASSUME EncryptedIn(s), m \in ReadMarkers => Since(s, "S4 OK") /\ ~ReadSince(s)
      PROVE  EncryptedIn(t)
  <2> SUFFICES ASSUME NEW i \in 1..(Len(s) + 1), t[i] \in ReadMarkers
               PROVE  /\ \E j \in 1..(Len(s) + 1) : Apart(t, j, i) /\ t[j] = "S4 OK"
                      /\ \A j \in 1..(Len(s) + 1) : Apart(t, j, i) => t[j] \notin ReadMarkers
    BY <1>2, Zenon DEF EncryptedIn
  <2>1. CASE i \in 1..Len(s)
    BY <1>3, <1>5, <2>1
  <2>2. CASE i = Len(s) + 1
    <3>1. m \in ReadMarkers
      BY <2>2, <1>2
    <3> QED
      BY <1>4, <1>5, <2>2, <3>1
  <2>3. i \in 1..Len(s) \/ i = Len(s) + 1
    BY <1>2
  <2> QED
    BY <2>1, <2>2, <2>3, Zenon
<1> QED
  BY <1>5 DEF t

\* Two markers in a row are one after the other.
LEMMA PrintTwo ==
  ASSUME NEW s \in Seq(Markers), NEW m \in Markers, NEW n \in Markers
  PROVE  /\ s \o <<m, n>> = Append(Append(s, m), n)
         /\ (s \o <<m>>) \o <<n>> = Append(Append(s, m), n)
         /\ (s \o << >>) \o <<n>> = Append(s, n)
OBVIOUS

-----------------------------------------------------------------------------
(* The encrypted chain.                                                    *)

\* A read is under way, or still to be tried, only where it may be reported.
OneReadPerConnection ==
  /\ EncryptedIn(console)
  /\ ~tried_read => ~gattRead /\ ~ReadSince(console)
  /\ gattRead => Since(console, "S4 OK") /\ ~ReadSince(console)

HostInvariant == HostTypeOK /\ OneReadPerConnection

\* What the loop has read was there to be read, and what it concluded is so.
SeenIsReal ==
  /\ rtt_buf \subseteq PeripheralLog
  /\ host_buf \subseteq ToSet(console)
  /\ split_l2_at => splitPaired
  /\ loop = "ok" => "S5 OK" \in ToSet(console) /\ (split => splitPaired)

\* Strengthened: the chain of one attempt.
ChainOfAttempt ==
  ChainTypeOK /\ OneReadPerConnection /\ SeenIsReal /\ CoarseOnlyAfterPairing

\* Nothing that was printed is ever lost.
LEMMA PrintedStays ==
  ASSUME NEW s \in Seq(Markers), NEW m \in Markers
  PROVE  Append(s, m) \in Seq(Markers) /\ ToSet(s) \subseteq ToSet(Append(s, m))
<1> DEFINE t == Append(s, m)
<1>1. Printed(s, m, t)
  BY PrintedIs
<1> HIDE DEF t
<1>2. \A i \in DOMAIN s : i \in DOMAIN t /\ t[i] = s[i]
  BY <1>1 DEF Printed
<1>3. ToSet(s) \subseteq ToSet(t) /\ t \in Seq(Markers)
  BY <1>1, <1>2 DEF ToSet, Printed
<1> QED
  BY <1>3 DEF t

\* An encrypted link is reported, and the one read of the connection is asked for.
LEMMA EncryptedReadKeepsHost ==
  ASSUME HostInvariant, do_encrypted_read
  PROVE  /\ console' \in Seq(Markers) /\ ToSet(console) \subseteq ToSet(console')
         /\ tried_read' \in BOOLEAN /\ gattRead' \in BOOLEAN
         /\ hostFaults' \in 0..MaxHostFaults
         /\ OneReadPerConnection'
<1>1. /\ console \in Seq(Markers) /\ EncryptedIn(console)
      /\ tried_read \in BOOLEAN /\ gattRead \in BOOLEAN /\ hostFaults \in 0..MaxHostFaults
      /\ "S4 OK" \in Markers /\ "S5 FAIL" \in Markers /\ "S4 OK" \notin ReadMarkers
  BY DEF HostInvariant, HostTypeOK, OneReadPerConnection, Markers, ReadMarkers
<1>2. hostFaults' \in 0..MaxHostFaults
  <2>1. Goes \/ Fails
    BY DEF do_encrypted_read
  <2>2. hostFaults \in 0..MaxHostFaults
    BY <1>1
  <2> QED
    BY <2>1, <2>2, HostAssumption DEF Goes, Fails, HostAssumption
<1> DEFINE t == Append(console, "S4 OK")
<1>3. t \in Seq(Markers) /\ ToSet(console) \subseteq ToSet(t)
  BY <1>1, PrintedStays
<1>4. EncryptedIn(t)
  BY <1>1, PrintEncrypted, Zenon
<1>5. Since(t, "S4 OK") /\ (ReadSince(t) <=> ReadSince(console))
  <2>1. "S4 OK" # "DISCONNECT"
    OBVIOUS
  <2> QED
    BY <1>1, <2>1, PrintMarker, Zenon
<1> HIDE DEF t
<1>6. CASE console' = t /\ (UNCHANGED <<tried_read, gattRead>> \/
                            (~tried_read /\ tried_read' /\ gattRead'))
  <2>1. tried_read' \in BOOLEAN /\ gattRead' \in BOOLEAN
    BY <1>1, <1>6
  <2>2. /\ ~tried_read => ~gattRead /\ ~ReadSince(t)
        /\ gattRead => Since(t, "S4 OK") /\ ~ReadSince(t)
    BY <1>5 DEF HostInvariant, OneReadPerConnection
  <2>3. OneReadPerConnection'
    <3>1. CASE UNCHANGED <<tried_read, gattRead>>
      BY <1>4, <1>6, <2>2, <3>1 DEF OneReadPerConnection
    <3>2. CASE ~tried_read /\ tried_read' /\ gattRead'
      BY <1>4, <1>5, <1>6, <2>2, <3>2 DEF OneReadPerConnection
    <3> QED
      BY <1>6, <3>1, <3>2
  <2> QED
    BY <1>2, <1>3, <1>6, <2>1, <2>3
<1>7. CASE /\ console' = console \o <<"S4 OK", "S5 FAIL">>
           /\ ~tried_read /\ tried_read' /\ UNCHANGED gattRead
  <2> DEFINE u == Append(t, "S5 FAIL")
  <2>1. console' = u
    BY <1>1, <1>7, PrintTwo DEF t
  <2>2. u \in Seq(Markers) /\ ToSet(t) \subseteq ToSet(u)
    BY <1>1, <1>3, PrintedStays
  <2>3. ~ReadSince(t) /\ ~gattRead
    BY <1>5, <1>7 DEF HostInvariant, OneReadPerConnection
  <2>4. EncryptedIn(u)
    BY <1>1, <1>3, <1>4, <1>5, <2>3, PrintEncrypted, Zenon
  <2> HIDE DEF u
  <2>5. OneReadPerConnection'
    BY <1>7, <2>1, <2>3, <2>4 DEF OneReadPerConnection
  <2>6. ToSet(console) \subseteq ToSet(console')
    BY <1>3, <2>1, <2>2
  <2>7. console' \in Seq(Markers) /\ tried_read' \in BOOLEAN /\ gattRead' \in BOOLEAN
    BY <1>1, <1>7, <2>1, <2>2
  <2> QED
    BY <1>2, <2>5, <2>6, <2>7
<1> QED
  BY <1>6, <1>7 DEF do_encrypted_read, t

\* A drop ends the read that is under way, and the next connection starts over.
LEMMA DisconnectedKeepsHost ==
  ASSUME HostInvariant, disconnected
  PROVE  /\ console' \in Seq(Markers) /\ ToSet(console) \subseteq ToSet(console')
         /\ OneReadPerConnection'
<1>1. /\ console \in Seq(Markers) /\ EncryptedIn(console)
      /\ "S5 FAIL" \in Markers /\ "DISCONNECT" \in Markers /\ "DISCONNECT" \notin ReadMarkers
  BY DEF HostInvariant, HostTypeOK, OneReadPerConnection, Markers, ReadMarkers
<1> DEFINE t == IF gattRead THEN Append(console, "S5 FAIL") ELSE console
           u == Append(t, "DISCONNECT")
<1>2. console' = u
  <2>1. CASE gattRead
    <3>1. console' = (console \o <<"S5 FAIL">>) \o <<"DISCONNECT">>
      BY <2>1 DEF disconnected
    <3>2. t = Append(console, "S5 FAIL")
      BY <2>1
    <3> QED
      BY <1>1, <3>1, <3>2, PrintTwo, ZenonT(40)
  <2>2. CASE ~gattRead
    <3>1. console' = (console \o << >>) \o <<"DISCONNECT">>
      BY <2>2 DEF disconnected
    <3> QED
      BY <1>1, <2>2, <3>1, PrintTwo
  <2> QED
    BY <2>1, <2>2
<1>3. t \in Seq(Markers) /\ ToSet(console) \subseteq ToSet(t)
  BY <1>1, PrintedStays
<1>4. EncryptedIn(t)
  <2>1. CASE gattRead
    <3>1. Since(console, "S4 OK") /\ ~ReadSince(console)
      BY <2>1 DEF HostInvariant, OneReadPerConnection
    <3> QED
      BY <1>1, <2>1, <3>1, PrintEncrypted, Zenon
  <2>2. CASE ~gattRead
    BY <1>1, <2>2
  <2> QED
    BY <2>1, <2>2
<1> HIDE DEF t
<1>5. u \in Seq(Markers) /\ ToSet(t) \subseteq ToSet(u)
  BY <1>1, <1>3, PrintedStays
<1>6. EncryptedIn(u) /\ ~ReadSince(u)
  BY <1>1, <1>3, <1>4, PrintEncrypted, PrintMarker, Zenon
<1> HIDE DEF u
<1>7. ~tried_read' /\ ~gattRead'
  BY DEF disconnected
<1> QED
  BY <1>2, <1>3, <1>5, <1>6, <1>7 DEF OneReadPerConnection

\* A pairing that failed, and the end of a read, are one marker each.
LEMMA OneMarkerKeepsHost ==
  ASSUME HostInvariant, NEW m \in Markers, console' = Append(console, m),
         m # "DISCONNECT", UNCHANGED tried_read, gattRead' \in BOOLEAN,
         \/ m \in ReadMarkers /\ gattRead /\ ~gattRead'
         \/ m \notin ReadMarkers /\ UNCHANGED gattRead
  PROVE  /\ console' \in Seq(Markers) /\ ToSet(console) \subseteq ToSet(console')
         /\ OneReadPerConnection'
<1>1. /\ console \in Seq(Markers) /\ EncryptedIn(console) /\ "S4 OK" \in Markers
      /\ gattRead => tried_read /\ Since(console, "S4 OK") /\ ~ReadSince(console)
      /\ tried_read \in BOOLEAN /\ gattRead \in BOOLEAN
  BY DEF HostInvariant, HostTypeOK, OneReadPerConnection, Markers
<1>2. console' \in Seq(Markers) /\ ToSet(console) \subseteq ToSet(console')
  BY <1>1, PrintedStays
<1> DEFINE t == Append(console, m)
<1>3. EncryptedIn(t)
  <2>1. m \in ReadMarkers => Since(console, "S4 OK") /\ ~ReadSince(console)
    BY <1>1
  <2> QED
    BY <1>1, <2>1, PrintEncrypted, Zenon
<1>4. ReadSince(t) <=> m \in ReadMarkers \/ ReadSince(console)
  BY <1>1, PrintMarker, Zenon
<1>5. Since(console, "S4 OK") => Since(t, "S4 OK")
  BY <1>1, PrintMarker, Zenon
<1> HIDE DEF t
<1>6. console' = t
  BY DEF t
<1> QED
  BY <1>1, <1>2, <1>3, <1>4, <1>5, <1>6 DEF HostInvariant, OneReadPerConnection

\* The two ways the model looks for a marker in a console.
LEMMA ContainsIsToSet ==
  ASSUME NEW s \in Seq(Markers), NEW m
  PROVE  Contains(s, m) <=> m \in ToSet(s)
<1>1. DOMAIN s = 1..Len(s)
  OBVIOUS
<1> QED
  BY <1>1 DEF Contains, ToSet

\* A callback that prints nothing moves neither the read nor its markers.
SilentHostStep ==
  main \/ connected \/ PeerRequestsSecurity \/ device_found

LEMMA SilentKeepsHost ==
  ASSUME HostInvariant, SilentHostStep
  PROVE  HostInvariant' /\ UNCHANGED console
<1>1. UNCHANGED <<console, tried_read, gattRead>>
  BY DEF SilentHostStep, main, connected, PeerRequestsSecurity, device_found
<1>2. Goes \/ Fails \/ UNCHANGED hostFaults
  BY DEF SilentHostStep, main, connected, PeerRequestsSecurity, device_found, start_scan
<1>3. hostFaults \in 0..MaxHostFaults /\ peerRequests \in 0..MaxPeerRequests
      /\ up \in BOOLEAN /\ scanning \in BOOLEAN /\ pairing \in BOOLEAN
      /\ default_conn \in {"none", "created", "plain", "secured"}
  BY DEF HostInvariant, HostTypeOK
<1>4. hostFaults' \in 0..MaxHostFaults
  BY <1>2, <1>3, HostAssumption DEF Goes, Fails, HostAssumption
<1>5. up' \in BOOLEAN /\ scanning' \in BOOLEAN /\ pairing' \in BOOLEAN
      /\ default_conn' \in {"none", "created", "plain", "secured"}
  BY <1>3 DEF SilentHostStep, main, connected, PeerRequestsSecurity, device_found, start_scan
<1>6. peerRequests' \in 0..MaxPeerRequests
  <2>1. UNCHANGED peerRequests
        \/ (peerRequests < MaxPeerRequests /\ peerRequests' = peerRequests + 1)
    BY DEF SilentHostStep, main, connected, PeerRequestsSecurity, device_found
  <2> QED
    BY <1>3, <2>1, HostAssumption DEF HostAssumption
<1>7. UNCHANGED hostDrops
  BY DEF SilentHostStep, main, connected, PeerRequestsSecurity, device_found
<1>8. HostTypeOK'
  BY <1>1, <1>4, <1>5, <1>6, <1>7 DEF HostInvariant, HostTypeOK
<1>9. OneReadPerConnection'
  BY <1>1 DEF HostInvariant, OneReadPerConnection
<1> QED
  BY <1>1, <1>8, <1>9 DEF HostInvariant

\* The end of the pairing procedure.
LEMMA SecurityKeepsHost ==
  ASSUME HostInvariant, NEW granted \in BOOLEAN, security_changed(granted)
  PROVE  HostInvariant' /\ ToSet(console) \subseteq ToSet(console')
<1>1. /\ ~pairing' /\ pairing' \in BOOLEAN
      /\ UNCHANGED <<up, scanning, hostDrops, peerRequests>>
  BY DEF security_changed
<1>2. CASE granted
  <2>1. do_encrypted_read /\ default_conn' = "secured"
    BY <1>2 DEF security_changed, SecurityGranted
  <2>2. /\ console' \in Seq(Markers) /\ ToSet(console) \subseteq ToSet(console')
        /\ tried_read' \in BOOLEAN /\ gattRead' \in BOOLEAN
        /\ hostFaults' \in 0..MaxHostFaults
        /\ OneReadPerConnection'
    BY <2>1, EncryptedReadKeepsHost
  <2> QED
    BY <1>1, <2>1, <2>2 DEF HostInvariant, HostTypeOK
<1>3. CASE ~granted
  <2>1. /\ console' = Append(console, "S3 FAIL")
        /\ UNCHANGED <<default_conn, tried_read, gattRead, hostFaults>>
    BY <1>3 DEF security_changed, SecurityFailed
  <2>2. "S3 FAIL" \in Markers /\ "S3 FAIL" \notin ReadMarkers /\ "S3 FAIL" # "DISCONNECT"
        /\ gattRead' \in BOOLEAN
    BY <2>1 DEF Markers, ReadMarkers, HostInvariant, HostTypeOK
  <2>3. /\ console' \in Seq(Markers) /\ ToSet(console) \subseteq ToSet(console')
        /\ OneReadPerConnection'
    BY <2>1, <2>2, OneMarkerKeepsHost
  <2> QED
    BY <1>1, <2>1, <2>3 DEF HostInvariant, HostTypeOK
<1> QED
  BY <1>2, <1>3

\* The end of a read.
LEMMA ReadEndKeepsHost ==
  ASSUME HostInvariant, gatt_read_cb
  PROVE  HostInvariant' /\ ToSet(console) \subseteq ToSet(console')
<1>1. /\ gattRead /\ gattRead' = FALSE
      /\ UNCHANGED <<up, scanning, default_conn, pairing, tried_read, hostDrops, peerRequests>>
  BY DEF gatt_read_cb
<1>2. Goes \/ Fails
  BY DEF gatt_read_cb
<1>3. hostFaults' \in 0..MaxHostFaults
  <2>1. hostFaults \in 0..MaxHostFaults
    BY DEF HostInvariant, HostTypeOK
  <2> QED
    BY <1>2, <2>1, HostAssumption DEF Goes, Fails, HostAssumption
<1>4. PICK m \in ReadMarkers : console' = Append(console, m)
  BY DEF gatt_read_cb, ReadMarkers
<1>5. m \in Markers /\ m # "DISCONNECT"
  BY DEF ReadMarkers, Markers
<1>6. /\ console' \in Seq(Markers) /\ ToSet(console) \subseteq ToSet(console')
      /\ OneReadPerConnection'
  BY <1>1, <1>4, <1>5, OneMarkerKeepsHost
<1> QED
  BY <1>1, <1>3, <1>6 DEF HostInvariant, HostTypeOK

\* A drop of the link.
LEMMA DropKeepsHost ==
  ASSUME HostInvariant, disconnected
  PROVE  HostInvariant' /\ ToSet(console) \subseteq ToSet(console')
<1>1. /\ default_conn' = "none" /\ pairing' = FALSE /\ gattRead' = FALSE
      /\ tried_read' = FALSE /\ UNCHANGED <<up, peerRequests>>
      /\ start_scan /\ hostDrops < MaxHostDrops /\ hostDrops' = hostDrops + 1
  BY DEF disconnected
<1>2. /\ console' \in Seq(Markers) /\ ToSet(console) \subseteq ToSet(console')
      /\ OneReadPerConnection'
  BY DisconnectedKeepsHost
<1>3. /\ hostFaults \in 0..MaxHostFaults /\ hostDrops \in 0..MaxHostDrops
      /\ scanning \in BOOLEAN
  BY DEF HostInvariant, HostTypeOK
<1>4. hostFaults' \in 0..MaxHostFaults /\ scanning' \in BOOLEAN
  <2>1. Goes \/ Fails
    BY <1>1 DEF start_scan
  <2>2. scanning' \in BOOLEAN
    BY <1>1, <1>3 DEF start_scan
  <2> QED
    BY <1>3, <2>1, <2>2, HostAssumption DEF Goes, Fails, HostAssumption
<1>5. hostDrops' \in 0..MaxHostDrops
  BY <1>1, <1>3, HostAssumption DEF HostAssumption
<1> QED
  BY <1>1, <1>2, <1>4, <1>5 DEF HostInvariant, HostTypeOK

\* The emulated machines: what holds of the console keeps holding as it grows.
LEMMA MachinesKeepChain ==
  ASSUME ChainOfAttempt, EmulationStep, loop # "ok"
  PROVE  ChainOfAttempt'
<1>1. HostInvariant
  BY DEF ChainOfAttempt, ChainTypeOK, HostInvariant
<1>2. HostInvariant' /\ ToSet(console) \subseteq ToSet(console')
  <2>1. CASE SplitPairing
    <3>1. UNCHANGED hostVars
      BY <2>1 DEF SplitPairing
    <3> QED
      BY <1>1, <3>1 DEF hostVars, HostInvariant, HostTypeOK, OneReadPerConnection
  <2>2. CASE HostPairing
    <3>1. security_changed(TRUE) \/ security_changed(FALSE)
      BY <2>2 DEF HostPairing
    <3> QED
      BY <1>1, <3>1, SecurityKeepsHost
  <2>3. CASE HostReadEnds
    BY <1>1, <2>3, ReadEndKeepsHost DEF HostReadEnds
  <2>4. CASE HostStep
    <3>1. SilentHostStep \/ disconnected
      BY <2>4 DEF HostStep, SilentHostStep
    <3> QED
      BY <1>1, <3>1, SilentKeepsHost, DropKeepsHost
  <2> QED
    BY <2>1, <2>2, <2>3, <2>4 DEF EmulationStep
<1>3. /\ splitPaired' \in BOOLEAN /\ (splitPaired => splitPaired')
      /\ pairingFailures' \in 0..MaxPairingFailures
  <2>1. splitPaired \in BOOLEAN /\ pairingFailures \in 0..MaxPairingFailures
    BY DEF ChainOfAttempt, ChainTypeOK
  <2>2. UNCHANGED splitPaired \/ splitPaired' = TRUE
    BY DEF EmulationStep, SplitPairing, HostPairing, HostReadEnds, HostStep
  <2>3. UNCHANGED pairingFailures \/ PairingFails
    BY DEF EmulationStep, SplitPairing, HostPairing, HostReadEnds, HostStep
  <2>4. pairingFailures' \in 0..MaxPairingFailures
    BY <2>1, <2>3, ChainAssumption DEF PairingFails, ChainAssumption
  <2> QED
    BY <2>1, <2>2, <2>4
<1>4. order' \in Seq({"split", "read"})
  <2>1. order \in Seq({"split", "read"})
    BY DEF ChainOfAttempt, ChainTypeOK
  <2>2. \/ UNCHANGED order
        \/ order' = Append(order, "split") \/ order' = Append(order, "read")
    BY DEF EmulationStep, SplitPairing, HostPairing, HostReadEnds, HostStep
  <2> QED
    BY <2>1, <2>2
<1>5. UNCHANGED loopVars
  BY DEF EmulationStep
<1>6. ChainTypeOK'
  BY <1>2, <1>3, <1>4, <1>5 DEF ChainOfAttempt, ChainTypeOK, HostInvariant, loopVars
<1>7. SeenIsReal'
  BY <1>2, <1>3, <1>5 DEF ChainOfAttempt, SeenIsReal, PeripheralLog, loopVars
<1>8. CoarseOnlyAfterPairing'
  <2>1. console \in Seq(Markers) /\ console' \in Seq(Markers)
    BY <1>1, <1>2 DEF HostInvariant, HostTypeOK
  <2>2. Contains(console, "S4 OK") => Contains(console', "S4 OK")
    BY <2>1, <1>2, ContainsIsToSet
  <2> QED
    BY <2>2, <1>3, <1>5 DEF ChainOfAttempt, CoarseOnlyAfterPairing, loopVars
<1> QED
  BY <1>2, <1>6, <1>7, <1>8 DEF ChainOfAttempt, HostInvariant

\* The loop reads what is there, and concludes from what it has read.
LEMMA LoopKeepsChain ==
  ASSUME ChainOfAttempt,
         drain_rtt \/ drain_host \/ judge \/ look_at_clock \/ final_drain \/ verdict,
         UNCHANGED linkVars
  PROVE  ChainOfAttempt'
<1>1. UNCHANGED <<hostVars, splitPaired, pairingFailures, order>>
  BY DEF linkVars
<1>2. HostTypeOK' /\ OneReadPerConnection' /\ ToSet(console') = ToSet(console)
      /\ PeripheralLog' = PeripheralLog
  BY <1>1 DEF hostVars, ChainOfAttempt, ChainTypeOK, HostTypeOK, OneReadPerConnection,
     PeripheralLog
<1>3. ToSet(console) \subseteq Markers /\ PeripheralLog \subseteq {"L2"}
  <2>1. console \in Seq(Markers)
    BY DEF ChainOfAttempt, ChainTypeOK, HostTypeOK
  <2> QED
    BY <2>1 DEF ToSet, PeripheralLog
<1>4. rtt_buf' \in {rtt_buf, PeripheralLog} /\ host_buf' \in {host_buf, ToSet(console)}
  BY DEF drain_rtt, drain_host, judge, look_at_clock, final_drain, verdict
<1>5. UNCHANGED split
  BY DEF drain_rtt, drain_host, judge, look_at_clock, final_drain, verdict
<1>6. split_l2_at' \in BOOLEAN /\ (split_l2_at' => splitPaired)
  <2>1. split_l2_at \in BOOLEAN /\ (split_l2_at => splitPaired)
    BY DEF ChainOfAttempt, ChainTypeOK, SeenIsReal
  <2>2. "L2" \in rtt_buf => splitPaired
    BY DEF ChainOfAttempt, SeenIsReal, PeripheralLog
  <2>3. \/ UNCHANGED split_l2_at
        \/ split_l2_at' = (split_l2_at \/ (split /\ "L2" \in rtt_buf))
    BY DEF drain_rtt, drain_host, judge, look_at_clock, final_drain, verdict
  <2>4. CASE UNCHANGED split_l2_at
    BY <1>1, <2>1, <2>4
  <2>5. CASE split_l2_at' = (split_l2_at \/ (split /\ "L2" \in rtt_buf))
    <3>1. split_l2_at' \in BOOLEAN
      BY <2>5
    <3>2. split_l2_at' => splitPaired
      BY <2>1, <2>2, <2>5
    <3> QED
      BY <3>1, <3>2
  <2> QED
    BY <2>3, <2>4, <2>5
<1>7. coarse' \in BOOLEAN /\ reason' \in BOOLEAN
      /\ loop' \in Undecided \cup {"ok", "failed"}
  <2>1. coarse \in BOOLEAN /\ reason \in BOOLEAN
    BY DEF ChainOfAttempt, ChainTypeOK
  <2>2. UNCHANGED coarse \/ coarse' = (coarse \/ Raise(split_l2_at'))
    BY DEF drain_rtt, drain_host, judge, look_at_clock, final_drain, verdict
  <2>3. \/ UNCHANGED reason \/ reason' = TRUE
        \/ reason' = (~Reached(split_l2_at') /\ ~split /\ BLE_FAIL_MARKERS)
    BY DEF drain_rtt, drain_host, judge, look_at_clock, final_drain, verdict
  <2>4. loop' \in {"rtt", "host", "judge", "clock", "drain", "verdict", "ok", "failed"}
    BY DEF drain_rtt, drain_host, judge, look_at_clock, final_drain, verdict, FirstLook
  <2> QED
    BY <2>1, <2>2, <2>3, <2>4 DEF Undecided
<1>8. coarse' => coarse \/ ("S4 OK" \in host_buf /\ (split => split_l2_at'))
  BY DEF drain_rtt, drain_host, judge, look_at_clock, final_drain, verdict,
     Raise, BLE_SECURITY_OK
<1>9. loop' = "ok" => verdict /\ "S5 OK" \in host_buf /\ (split => split_l2_at)
  BY DEF drain_rtt, drain_host, judge, look_at_clock, final_drain, verdict,
     Reached, BLE_GATT_READ_OK, FirstLook
<1>10. ChainTypeOK'
  BY <1>1, <1>2, <1>3, <1>4, <1>5, <1>6, <1>7 DEF ChainOfAttempt, ChainTypeOK
<1>11. SeenIsReal'
  BY <1>1, <1>2, <1>4, <1>5, <1>6, <1>9 DEF ChainOfAttempt, SeenIsReal
<1>12. CoarseOnlyAfterPairing'
  <2>1. console \in Seq(Markers) /\ UNCHANGED console
    BY <1>1 DEF ChainOfAttempt, ChainTypeOK, HostTypeOK, hostVars
  <2>2. "S4 OK" \in ToSet(console) => Contains(console, "S4 OK")
    BY <2>1, ContainsIsToSet
  <2> QED
    BY <1>1, <1>5, <1>6, <1>8, <2>1, <2>2
       DEF ChainOfAttempt, SeenIsReal, CoarseOnlyAfterPairing
<1> QED
  BY <1>2, <1>10, <1>11, <1>12 DEF ChainOfAttempt

-----------------------------------------------------------------------------
(* The conversation and the chain in the smoke test.                       *)

\* What a step does to the bodies of the test: a fresh start, nothing, or a step
\* of the one the mode is about.
LEMMA SmokeStepInBodies ==
  ASSUME SmokeNext
  PROVE  \/ RpcClientReset /\ ChainReset
         \/ UNCHANGED <<rpcClientVars, chainVars>>
         \/ UNCHANGED chainVars /\ (Converse \/ DeviceServes)
         \/ UNCHANGED rpcClientVars /\ (Machines \/ Observe)
<1>1. CASE Attempt
  <2>1. CASE stage' \in {"done", "spawn"}
    BY <1>1, <2>1 DEF Attempt, FreshBodies
  <2>2. CASE stage = "boot" /\ stage' \in {"settle", "body"}
    BY <1>1, <2>2 DEF Attempt
  <2>3. CASE /\ ~(stage' \in {"done", "spawn"})
             /\ ~(stage = "boot" /\ stage' \in {"settle", "body"})
    BY <1>1, <2>3 DEF Attempt, SameBodies
  <2> QED
    BY <2>1, <2>2, <2>3
<1>2. CASE Boot
  BY <1>2 DEF Boot
<1>3. CASE Emulator
  BY <1>3 DEF Emulator, SameBodies
<1>4. CASE Converse \/ DeviceServes
  BY <1>4 DEF Converse, DeviceServes
<1>5. CASE ConversationOver \/ ChainOver \/ OtherBody
  <2>1. FreshBodies \/ SameBodies
    BY <1>5 DEF ConversationOver, ChainOver, OtherBody, SameBodies
  <2> QED
    BY <2>1 DEF FreshBodies, SameBodies
<1>6. CASE Machines \/ Observe
  BY <1>6 DEF Machines, Observe
<1> QED
  BY <1>1, <1>2, <1>3, <1>4, <1>5, <1>6 DEF SmokeNext

\* A fresh chain has nothing behind it.
LEMMA FreshChainIsSound ==
  /\ ChainInit => ChainOfAttempt
  /\ split \in BOOLEAN /\ ChainReset => ChainOfAttempt'
<1>1. << >> \in Seq(Markers) /\ << >> \in Seq({"split", "read"})
      /\ EncryptedIn(<< >>) /\ ~ReadSince(<< >>)
  BY DEF EncryptedIn, ReadSince, Since
<1>2. /\ 0 \in 0..MaxHostFaults /\ 0 \in 0..MaxHostDrops /\ 0 \in 0..MaxPeerRequests
      /\ 0 \in 0..MaxPairingFailures
  BY HostAssumption, ChainAssumption DEF HostAssumption, ChainAssumption
<1>3. \A three \in BOOLEAN : FirstLook(three) \in Undecided /\ FirstLook(three) # "ok"
  BY DEF FirstLook, Undecided
<1>4. ChainInit => ChainOfAttempt
  <2> SUFFICES ASSUME ChainInit PROVE ChainOfAttempt
    OBVIOUS
  <2>1. ChainTypeOK
    BY <1>1, <1>2, <1>3 DEF ChainInit, HostInit, ChainTypeOK, HostTypeOK
  <2>2. OneReadPerConnection
    BY <1>1, Zenon DEF ChainInit, HostInit, OneReadPerConnection
  <2>3. SeenIsReal /\ CoarseOnlyAfterPairing
    BY <1>3 DEF ChainInit, SeenIsReal, CoarseOnlyAfterPairing
  <2> QED
    BY <2>1, <2>2, <2>3 DEF ChainOfAttempt
<1>5. split \in BOOLEAN /\ ChainReset => ChainOfAttempt'
  <2> SUFFICES ASSUME split \in BOOLEAN, ChainReset PROVE ChainOfAttempt'
    OBVIOUS
  <2>1. ChainTypeOK'
    BY <1>1, <1>2, <1>3 DEF ChainReset, HostReset, ChainTypeOK, HostTypeOK
  <2>2. OneReadPerConnection'
    <3>1. console' = << >> /\ tried_read' = FALSE /\ gattRead' = FALSE
      BY DEF ChainReset, HostReset
    <3> QED
      BY <1>1, <3>1 DEF OneReadPerConnection
  <2>3. SeenIsReal' /\ CoarseOnlyAfterPairing'
    BY <1>3 DEF ChainReset, SeenIsReal, CoarseOnlyAfterPairing
  <2> QED
    BY <2>1, <2>2, <2>3 DEF ChainOfAttempt
<1> QED
  BY <1>4, <1>5

\* The chain is sound at every point of every attempt.
THEOREM ChainAlwaysSound == SmokeSpec => []ChainOfAttempt
<1>1. SmokeInit => ChainOfAttempt
  BY FreshChainIsSound DEF SmokeInit
<1>2. ChainOfAttempt /\ [SmokeNext]_smokeVars => ChainOfAttempt'
  <2> SUFFICES ASSUME ChainOfAttempt, [SmokeNext]_smokeVars
               PROVE  ChainOfAttempt'
    OBVIOUS
  <2>1. CASE UNCHANGED chainVars
    <3> USE <2>1 DEF chainVars, linkVars, loopVars, hostVars, ChainOfAttempt
    <3>1. ChainTypeOK'
      BY DEF ChainTypeOK, HostTypeOK
    <3>2. OneReadPerConnection'
      BY DEF OneReadPerConnection
    <3>3. SeenIsReal' /\ CoarseOnlyAfterPairing'
      BY DEF SeenIsReal, PeripheralLog, CoarseOnlyAfterPairing
    <3> QED
      BY <3>1, <3>2, <3>3
  <2>2. CASE ChainReset
    BY <2>2, FreshChainIsSound DEF ChainOfAttempt, ChainTypeOK
  <2>3. CASE Machines
    <3>1. EmulationStep /\ loop # "ok"
      BY <2>3 DEF Machines, Undecided
    <3> QED
      BY <3>1, MachinesKeepChain
  <2>4. CASE Observe
    <3>1. LoopStep
      BY <2>4 DEF Observe
    <3> QED
      BY <3>1, LoopKeepsChain DEF LoopStep
  <2> QED
    BY <2>1, <2>2, <2>3, <2>4, SmokeStepInBodies DEF smokeVars
<1> QED
  BY <1>1, <1>2, PTL DEF SmokeSpec

\* renode-ble-host.c and run_ble_*_smoke: one read per connection, reported only
\* on a link reported encrypted before, and a coarse quantum only after every link
\* of the test has paired; for any number of attempts, failures and drops.
THEOREM ChainHolds == SmokeSpec => []ChainInvariant
<1>1. ChainOfAttempt => ChainInvariant
  <2> SUFFICES ASSUME ChainOfAttempt PROVE ReadsAreEncrypted
    BY DEF ChainInvariant, ChainOfAttempt
  <2>1. EncryptedIn(console)
    BY DEF ChainOfAttempt, OneReadPerConnection
  <2> QED
    BY <2>1 DEF EncryptedIn, Apart, ReadMarkers, ReadsAreEncrypted, SameConnection
<1> QED
  BY <1>1, ChainAlwaysSound, PTL

-----------------------------------------------------------------------------
(* The conversation.                                                       *)

\* A buffer every message fits in, as read_frame's does, which is not bounded.
Room == CHOOSE room \in Nat : \A m \in Messages : Len(Payload[m]) < room

\* Until a deadline passes inside a frame, read_frame is in step with the frames
\* of the messages due, and has returned nothing else.
ReadsInSync ==
  ~cut => ~misread /\ InSync(rx, wire, Bytes(due), Room) /\ Len(rx.payload) < Room

\* The requests whose answer's kind alone is looked at are asked one at a time,
\* and a deadline that passes over one of them ends the test.
Single == {"info1", "info2", "list"}
OneAtATime ==
  phase \in Single =>
    /\ ~cut
    /\ \A i \in DOMAIN inbox : inbox[i] = phase
    /\ \A i \in DOMAIN due : due[i] = Reply(phase)
    /\ Len(inbox) + Len(due) <= (IF reading THEN 1 ELSE 0)

ConversationInvariant ==
  /\ RpcClientTypeOK
  /\ reading \/ rx = FreshDecoder
  /\ ReadsInSync
  /\ OneAtATime
  /\ AnswersMatchRequests

\* Messages have bytes, and there is a buffer for all of them.
LEMMA MessagesHaveBytes ==
  /\ \A r \in Requests : Reply(r) \in Messages
  /\ \A l \in BOOLEAN : Notice(l) \in Messages
  /\ Room \in Nat /\ \A m \in Messages : Len(Payload[m]) < Room
  /\ \A ms \in Seq(Messages) :
       /\ Bytes(ms) \in Seq(Seq(Byte)) /\ Len(Bytes(ms)) = Len(ms)
       /\ \A ns \in Seq(Messages) : Bytes(ms \o ns) = Bytes(ms) \o Bytes(ns)
       /\ ms # << >> =>
            Head(Bytes(ms)) = Payload[Head(ms)] /\ Tail(Bytes(ms)) = Bytes(Tail(ms))
<1> USE RpcAssumption DEF RpcAssumption
<1>1. \A r \in Requests : Reply(r) \in Messages
  BY DEF Reply, Messages
<1>2. \A l \in BOOLEAN : Notice(l) \in Messages
  BY DEF Notice, Messages
<1>3. \E room \in Nat : \A m \in Messages : Len(Payload[m]) < room
  <2> DEFINE size(m) == Len(Payload[m])
             room == size(Reply("info1")) + size(Reply("info2")) + size(Reply("list"))
                       + size(Reply("lock")) + size(Reply("unlock"))
                       + size(Notice(TRUE)) + size(Notice(FALSE)) + 1
  <2>1. \A m \in Messages : size(m) \in Nat
    OBVIOUS
  <2>2. /\ size(Reply("info1")) \in Nat /\ size(Reply("info2")) \in Nat
        /\ size(Reply("list")) \in Nat /\ size(Reply("lock")) \in Nat
        /\ size(Reply("unlock")) \in Nat
        /\ size(Notice(TRUE)) \in Nat /\ size(Notice(FALSE)) \in Nat
    <3> HIDE DEF size
    <3> QED
      BY <1>1, <1>2, <2>1 DEF Requests
  <2>3. ASSUME NEW m \in Messages
        PROVE  \/ m \in {Reply("info1"), Reply("info2"), Reply("list"), Reply("lock"),
                         Reply("unlock")}
               \/ m \in {Notice(TRUE), Notice(FALSE)}
    <3>1. CASE m \in [type : {"request_response"}, request : Requests]
      BY <3>1 DEF Reply, Requests
    <3>2. CASE m \in [type : {"notification"}, locked : BOOLEAN]
      BY <3>2 DEF Notice
    <3> QED
      BY <3>1, <3>2 DEF Messages
  <2> HIDE DEF size
  <2> DEFINE a == size(Reply("info1"))
             b == size(Reply("info2"))
             c == size(Reply("list"))
             d == size(Reply("lock"))
             e == size(Reply("unlock"))
             f == size(Notice(TRUE))
             g == size(Notice(FALSE))
  <2>5. /\ a \in Nat /\ b \in Nat /\ c \in Nat /\ d \in Nat /\ e \in Nat /\ f \in Nat /\ g \in Nat
        /\ room = a + b + c + d + e + f + g + 1
    BY <2>2
  <2>6. ASSUME NEW m \in Messages PROVE size(m) \in {a, b, c, d, e, f, g}
    BY <2>3
  <2> HIDE DEF a, b, c, d, e, f, g, room
  <2>7. /\ room \in Nat /\ a < room /\ b < room /\ c < room /\ d < room /\ e < room
        /\ f < room /\ g < room
    BY <2>5
  <2>4. room \in Nat /\ \A m \in Messages : size(m) < room
    BY <2>6, <2>7
  <2> HIDE DEF room
  <2> QED
    BY <2>4 DEF size
<1>4. Room \in Nat /\ \A m \in Messages : Len(Payload[m]) < Room
  BY <1>3 DEF Room
<1>5. ASSUME NEW ms \in Seq(Messages)
      PROVE  /\ Bytes(ms) \in Seq(Seq(Byte)) /\ Len(Bytes(ms)) = Len(ms)
             /\ DOMAIN Bytes(ms) = 1..Len(ms)
             /\ \A i \in 1..Len(ms) : Bytes(ms)[i] = Payload[ms[i]]
  <2>1. DOMAIN ms = 1..Len(ms) /\ \A i \in 1..Len(ms) : ms[i] \in Messages
    OBVIOUS
  <2>2. \A i \in 1..Len(ms) : Payload[ms[i]] \in Seq(Byte)
    BY <2>1
  <2> QED
    BY <2>1, <2>2 DEF Bytes
<1>6. ASSUME NEW ms \in Seq(Messages), NEW ns \in Seq(Messages)
      PROVE  Bytes(ms \o ns) = Bytes(ms) \o Bytes(ns)
  <2> DEFINE x == Bytes(ms)
             y == Bytes(ns)
             mn == ms \o ns
             z == Bytes(mn)
  <2>1. mn \in Seq(Messages) /\ Len(mn) = Len(ms) + Len(ns)
    BY ConcatProperties
  <2>2. /\ x \in Seq(Seq(Byte)) /\ Len(x) = Len(ms)
        /\ y \in Seq(Seq(Byte)) /\ Len(y) = Len(ns)
        /\ z \in Seq(Seq(Byte)) /\ Len(z) = Len(ms) + Len(ns)
    BY <1>5, <2>1
  <2>3. /\ x \o y \in Seq(Seq(Byte)) /\ Len(x \o y) = Len(x) + Len(y)
        /\ \A i \in 1..Len(x) : (x \o y)[i] = x[i]
        /\ \A i \in 1..Len(y) : (x \o y)[Len(x) + i] = y[i]
    <3>1. x \in Seq(Seq(Byte)) /\ y \in Seq(Seq(Byte))
      BY <2>2
    <3> HIDE DEF x, y
    <3>2. Concatenates(Seq(Byte), x, y, x \o y)
      BY <3>1, PartsOfConcat
    <3> QED
      BY <3>2, Zenon DEF Concatenates
  <2>4. ASSUME NEW i \in 1..(Len(ms) + Len(ns)) PROVE z[i] = (x \o y)[i]
    <3>1. Len(ms) \in Nat /\ Len(ns) \in Nat
      OBVIOUS
    <3>2. z[i] = Payload[mn[i]]
      BY <1>5, <2>1
    <3>3. CASE i <= Len(ms)
      <4>1. i \in 1..Len(ms) /\ mn[i] = ms[i]
        BY <3>1, <3>3
      <4>2. x[i] = Payload[ms[i]]
        BY <1>5, <4>1
      <4>3. (x \o y)[i] = x[i]
        <5> HIDE DEF x, y
        <5> QED
          BY <2>2, <2>3, <4>1
      <4> QED
        BY <3>2, <4>1, <4>2, <4>3
    <3>4. CASE i > Len(ms)
      <4> DEFINE j == i - Len(ms)
      <4>1. j \in 1..Len(ns) /\ i = Len(ms) + j
        BY <3>1, <3>4
      <4> HIDE DEF j
      <4>2. mn[i] = ns[j] /\ y[j] = Payload[ns[j]]
        BY <1>5, <2>1, <4>1, PartsOfConcat DEF Concatenates
      <4>3. (x \o y)[i] = y[j]
        <5> HIDE DEF x, y
        <5> QED
          BY <2>2, <2>3, <4>1
      <4> QED
        BY <3>2, <4>2, <4>3
    <3>5. i <= Len(ms) \/ i > Len(ms)
      BY <3>1
    <3> QED
      BY <3>3, <3>4, <3>5
  <2> HIDE DEF x, y, z
  <2>5. z = x \o y
    <3> DEFINE w == x \o y
    <3>1. /\ w \in Seq(Seq(Byte)) /\ Len(w) = Len(z) /\ z \in Seq(Seq(Byte))
          /\ \A i \in 1..Len(z) : z[i] = w[i]
      BY <2>2, <2>3, <2>4
    <3> HIDE DEF w
    <3> QED
      BY <3>1, SeqEqual DEF w
  <2> QED
    BY <2>5 DEF x, y, z
<1>7. ASSUME NEW ms \in Seq(Messages), ms # << >>
      PROVE  Head(Bytes(ms)) = Payload[Head(ms)] /\ Tail(Bytes(ms)) = Bytes(Tail(ms))
  <2>1. /\ <<Head(ms)>> \in Seq(Messages) /\ Tail(ms) \in Seq(Messages)
        /\ ms = <<Head(ms)>> \o Tail(ms)
    BY <1>7
  <2>2. Bytes(ms) = Bytes(<<Head(ms)>>) \o Bytes(Tail(ms))
    BY <1>6, <2>1
  <2>3. Bytes(<<Head(ms)>>) = <<Payload[Head(ms)]>>
    BY DEF Bytes
  <2>4. Bytes(Tail(ms)) \in Seq(Seq(Byte)) /\ Payload[Head(ms)] \in Seq(Byte)
    <3>1. Head(ms) \in Messages
      BY <1>7
    <3> QED
      BY <1>5, <2>1, <3>1
  <2> DEFINE rest == Bytes(Tail(ms))
             first == Payload[Head(ms)]
  <2>5. Bytes(ms) = <<first>> \o rest /\ rest \in Seq(Seq(Byte)) /\ first \in Seq(Byte)
    BY <2>2, <2>3, <2>4
  <2> HIDE DEF rest, first
  <2>6. Head(<<first>> \o rest) = first /\ Tail(<<first>> \o rest) = rest
    BY <2>5
  <2> QED
    BY <2>5, <2>6 DEF rest, first
<1> QED
  BY <1>1, <1>2, <1>4, <1>5, <1>6, <1>7

\* What protobuf makes of a message's bytes is the message.
LEMMA ParsedIsMessage ==
  /\ \A m \in Messages : Parsed(Payload[m]) = m
  /\ \A p : Parsed(p) \in Messages \cup {Garbage}
<1>1. ASSUME NEW m \in Messages PROVE Parsed(Payload[m]) = m
  <2>1. \E n \in Messages : Payload[n] = Payload[m]
    OBVIOUS
  <2>2. \A n \in Messages : Payload[n] = Payload[m] => n = m
    BY RpcAssumption DEF RpcAssumption
  <2> QED
    BY <2>1, <2>2 DEF Parsed
<1> QED
  BY <1>1 DEF Parsed

\* A fresh conversation.
LEMMA FreshConversation ==
  /\ RpcClientInit => ConversationInvariant
  /\ RpcClientReset => ConversationInvariant'
<1>1. FreshDecoder \in Decoder /\ FreshDecoder.payload = << >> /\ ~FreshDecoder.escaped
  BY DEF FreshDecoder, Decoder
<1>2. [r \in Requests |-> None] \in [Requests -> Messages \cup {None}]
  OBVIOUS
<1>3. Bytes(<< >>) = << >> /\ Len(<< >>) < Room
  <2>1. << >> \in Seq(Messages) /\ Len(<< >>) = 0
    OBVIOUS
  <2>2. Len(Bytes(<< >>)) = 0 /\ Bytes(<< >>) \in Seq(Seq(Byte))
    BY <2>1, MessagesHaveBytes
  <2>3. 0 < Room
    <3>1. Reply("info1") \in Messages /\ Len(Payload[Reply("info1")]) < Room /\ Room \in Nat
      BY MessagesHaveBytes DEF Requests
    <3>2. Len(Payload[Reply("info1")]) \in Nat
      BY <3>1, RpcAssumption DEF RpcAssumption
    <3> QED
      BY <3>1, <3>2
  <2> QED
    BY <2>1, <2>2, <2>3
<1>4. InSync(FreshDecoder, << >>, Bytes(<< >>), Room)
  BY <1>1, <1>3, FramesStepByStep DEF InSync
<1>5. /\ << >> \in Seq(Byte) /\ << >> \in Seq(Requests) /\ << >> \in Seq(Messages)
      /\ Len(<< >>) + Len(<< >>) <= 0 /\ \A i \in DOMAIN << >> : FALSE
  OBVIOUS
<1>6. RpcClientInit => ConversationInvariant
  <2> SUFFICES ASSUME RpcClientInit PROVE ConversationInvariant
    OBVIOUS
  <2>1. RpcClientTypeOK
    BY <1>1, <1>2, <1>5 DEF RpcClientInit, RpcClientTypeOK, Requests
  <2>2. ReadsInSync
    BY <1>1, <1>3, <1>4 DEF RpcClientInit, ReadsInSync
  <2>3. OneAtATime
    BY <1>5 DEF RpcClientInit, OneAtATime
  <2>4. AnswersMatchRequests
    BY DEF RpcClientInit, AnswersMatchRequests
  <2> QED
    BY <2>1, <2>2, <2>3, <2>4 DEF RpcClientInit, ConversationInvariant
<1>7. RpcClientReset => ConversationInvariant'
  <2> SUFFICES ASSUME RpcClientReset PROVE ConversationInvariant'
    OBVIOUS
  <2>1. RpcClientTypeOK'
    BY <1>1, <1>2, <1>5 DEF RpcClientReset, RpcClientTypeOK, Requests
  <2>2. ReadsInSync'
    BY <1>1, <1>3, <1>4 DEF RpcClientReset, ReadsInSync
  <2>3. OneAtATime'
    BY <1>5 DEF RpcClientReset, OneAtATime
  <2>4. AnswersMatchRequests'
    BY DEF RpcClientReset, AnswersMatchRequests
  <2> QED
    BY <2>1, <2>2, <2>3, <2>4 DEF RpcClientReset, ConversationInvariant
<1> QED
  BY <1>6, <1>7

\* The messages that get through are among those emitted, each at most once.
LEMMA DeliveredAre ==
  ASSUME NEW messages \in Seq(Messages), NEW places
  PROVE  LET some == FlattenSeq([i \in DOMAIN messages |->
                                   IF i \in places THEN <<messages[i]>> ELSE << >>])
         IN  /\ some \in Seq(Messages)
             /\ \A m : messages = <<m>> => some \in {<< >>, <<m>>}
<1> DEFINE parts == [i \in DOMAIN messages |->
                       IF i \in places THEN <<messages[i]>> ELSE << >>]
<1>1. parts \in Seq(Seq(Messages))
  <2>1. DOMAIN messages = 1..Len(messages) /\ Len(messages) \in Nat
        /\ \A i \in 1..Len(messages) : messages[i] \in Messages
    OBVIOUS
  <2>2. \A i \in 1..Len(messages) :
          (IF i \in places THEN <<messages[i]>> ELSE << >>) \in Seq(Messages)
    BY <2>1
  <2> QED
    BY <2>1, <2>2
<1>2. FlattenSeq(parts) \in Seq(Messages)
  <2> HIDE DEF parts
  <2> QED
    BY <1>1, FlattenIsSeq
<1>3. ASSUME NEW m, messages = <<m>> PROVE FlattenSeq(parts) \in {<< >>, <<m>>}
  <2>1. parts = <<IF 1 \in places THEN <<m>> ELSE << >>>>
    BY <1>3
  <2>2. m \in Messages
    BY <1>3
  <2>3. (IF 1 \in places THEN <<m>> ELSE << >>) \in Seq(Messages)
    BY <2>2
  <2> HIDE DEF parts
  <2>4. FlattenSeq(parts) = IF 1 \in places THEN <<m>> ELSE << >>
    BY <2>1, <2>3, FlattenOne
  <2> QED
    BY <2>4
<1> QED
  BY <1>2, <1>3

\* The device serves a request.
LEMMA ServeKeepsConversation ==
  ASSUME ConversationInvariant, Serve
  PROVE  ConversationInvariant'
<1>1. RpcClientTypeOK /\ inbox # << >> /\ inbox' = Tail(inbox)
      /\ UNCHANGED <<phase, saw, accepted, reading, rx, misread, cut>>
  BY DEF ConversationInvariant, Serve
<1> DEFINE r == Head(inbox)
           wanted == IF r = "lock" THEN TRUE ELSE IF r = "unlock" THEN FALSE ELSE locked
           answers == IF wanted = locked THEN {<<Reply(r)>>}
                      ELSE {<<Reply(r), Notice(wanted)>>, <<Notice(wanted), Reply(r)>>}
           Only(messages, places) ==
             FlattenSeq([i \in DOMAIN messages |->
                           IF i \in places THEN <<messages[i]>> ELSE << >>])
<1>2. r \in Requests /\ wanted \in BOOLEAN /\ Tail(inbox) \in Seq(Requests)
  <2>1. inbox \in Seq(Requests) /\ inbox # << >> /\ locked \in BOOLEAN
    BY <1>1 DEF RpcClientTypeOK
  <2>2. r \in Requests /\ Tail(inbox) \in Seq(Requests)
    BY <2>1
  <2> HIDE DEF r
  <2>3. CASE r \in {"lock", "unlock"}
    BY <2>2, <2>3
  <2>4. CASE r \notin {"lock", "unlock"}
    BY <2>1, <2>2, <2>4
  <2> QED
    BY <2>3, <2>4
<1>3. /\ locked' = wanted
      /\ \E messages \in answers : \E kept \in SUBSET DOMAIN messages : Emit(messages, kept)
  BY DEF Serve
<1>4. answers \subseteq Seq(Messages)
  <2>1. Reply(r) \in Messages /\ Notice(wanted) \in Messages
    BY <1>2, MessagesHaveBytes
  <2>2. /\ <<Reply(r)>> \in Seq(Messages) /\ <<Reply(r), Notice(wanted)>> \in Seq(Messages)
        /\ <<Notice(wanted), Reply(r)>> \in Seq(Messages)
    <3> HIDE DEF r, wanted
    <3> QED
      BY <2>1
  <2> HIDE DEF r, wanted
  <2> QED
    BY <2>2
<1>5. PICK messages \in answers : \E kept \in SUBSET DOMAIN messages : Emit(messages, kept)
  BY <1>3
<1>15. PICK kept \in SUBSET DOMAIN messages : Emit(messages, kept)
  BY <1>5
<1> DEFINE delivered == Only(messages, kept)
           dropped == Only(messages, DOMAIN messages \ kept)
<1>6. delivered \in Seq(Messages) /\ dropped \in Seq(Messages)
      /\ \A m : messages = <<m>> => delivered \in {<< >>, <<m>>}
  <2>1. messages \in Seq(Messages)
    BY <1>4, <1>5
  <2> HIDE DEF answers
  <2> QED
    BY <2>1, DeliveredAre
<1>7. /\ wire' = wire \o Frames(Bytes(delivered)) /\ due' = due \o delivered
      /\ emitted' = emitted \o delivered /\ lost' = lost \o dropped
  BY <1>15 DEF Emit
<1> HIDE DEF Only
<1>8. /\ wire \in Seq(Byte) /\ due \in Seq(Messages) /\ emitted \in Seq(Messages)
      /\ lost \in Seq(Messages) /\ inbox \in Seq(Requests)
  BY <1>1 DEF RpcClientTypeOK
<1> HIDE DEF delivered, dropped
<1>9. Bytes(delivered) \in Seq(Seq(Byte)) /\ Bytes(due) \in Seq(Seq(Byte))
      /\ Bytes(due \o delivered) = Bytes(due) \o Bytes(delivered)
  BY <1>6, <1>8, MessagesHaveBytes
<1>10. Frames(Bytes(delivered)) \in Seq(Byte)
  BY <1>9, FramesStepByStep
<1>11. RpcClientTypeOK'
  <2>1. /\ wire' \in Seq(Byte) /\ due' \in Seq(Messages) /\ emitted' \in Seq(Messages)
        /\ lost' \in Seq(Messages)
    BY <1>6, <1>7, <1>8, <1>10
  <2>2. inbox' \in Seq(Requests) /\ locked' \in BOOLEAN
    BY <1>1, <1>2, <1>3
  <2> QED
    BY <1>1, <2>1, <2>2 DEF RpcClientTypeOK
<1>12. ReadsInSync'
  <2>1. SUFFICES ASSUME ~cut
                 PROVE  InSync(rx, wire', Bytes(due'), Room)
    BY <1>1 DEF ConversationInvariant, ReadsInSync
  <2>2. InSync(rx, wire, Bytes(due), Room)
    BY <2>1 DEF ConversationInvariant, ReadsInSync
  <2> QED
    BY <1>7, <1>8, <1>9, <2>2, InSyncMore
<1>13. OneAtATime'
  <2> SUFFICES ASSUME phase \in Single
               PROVE  /\ ~cut
                      /\ \A i \in DOMAIN inbox' : inbox'[i] = phase
                      /\ \A i \in DOMAIN due' : due'[i] = Reply(phase)
                      /\ Len(inbox') + Len(due') <= (IF reading THEN 1 ELSE 0)
    BY <1>1 DEF OneAtATime
  <2>1. /\ ~cut /\ \A i \in DOMAIN inbox : inbox[i] = phase
        /\ Len(inbox) + Len(due) <= (IF reading THEN 1 ELSE 0)
    BY DEF ConversationInvariant, OneAtATime
  <2>2. Len(inbox) \in Nat \ {0} /\ Len(due) \in Nat
    BY <1>1, <1>8
  <2>3. reading /\ Len(inbox) = 1 /\ Len(due) = 0 /\ due = << >> /\ r = phase
    <3>1. 1 \in DOMAIN inbox /\ r = inbox[1]
      BY <1>8, <2>2
    <3> DEFINE m == Len(inbox)
               n == Len(due)
    <3>2. reading /\ m = 1 /\ n = 0
      <4>1. m \in Nat \ {0} /\ n \in Nat /\ m + n <= (IF reading THEN 1 ELSE 0)
        BY <2>1, <2>2
      <4> HIDE DEF m, n
      <4> QED
        BY <4>1
    <3> QED
      BY <1>8, <2>1, <3>1, <3>2
  <2>4. messages = <<Reply(phase)>>
    BY <1>5, <2>3 DEF Single
  <2>5. due' \in {<< >>, <<Reply(phase)>>}
    BY <1>6, <1>7, <1>8, <2>3, <2>4
  <2>6. inbox' = << >>
    BY <1>1, <1>8, <2>3
  <2>7. CASE due' = << >>
    BY <2>1, <2>3, <2>6, <2>7
  <2>8. CASE due' = <<Reply(phase)>>
    <3>1. DOMAIN due' = {1} /\ due'[1] = Reply(phase) /\ Len(due') = 1 /\ Len(inbox') = 0
      BY <2>6, <2>8
    <3> QED
      BY <2>1, <2>3, <2>6, <3>1
  <2> QED
    BY <2>5, <2>7, <2>8
<1>14. (reading \/ rx = FreshDecoder)' /\ AnswersMatchRequests'
  BY <1>1 DEF ConversationInvariant, AnswersMatchRequests
<1> QED
  BY <1>11, <1>12, <1>13, <1>14 DEF ConversationInvariant

\* No message is read_frame's None, nor one that protobuf cannot parse.
LEMMA MessagesAreNoNone == \A m \in Messages : m # None /\ m # Garbage
<1> SUFFICES ASSUME NEW m \in Messages PROVE m.type \in {"request_response", "notification"}
  BY DEF None, Garbage
<1> QED
  BY DEF Messages

\* What Judge's callers do with a frame.
LEMMA JudgeTakesAnswers ==
  ASSUME NEW result, NEW kind \in SUBSET Messages, NEW next,
         Judge(result, kind, next)
  PROVE  \/ /\ result \in kind /\ phase' \in next
            /\ accepted' = [accepted EXCEPT ![phase] = result]
         \/ /\ phase' \in {"failed", "crashed"}
            /\ accepted' = accepted
<1>1. CASE result \in kind
  <2>1. result # None /\ result # Garbage
    BY <1>1, MessagesAreNoNone
  <2>2. phase' \in next \/ phase' \in {"failed"}
    BY <1>1, <2>1 DEF Judge
  <2> QED
    BY <1>1, <2>1, <2>2 DEF Judge
<1>2. CASE result \notin kind
  <2>1. CASE result = None
    BY <1>2, <2>1 DEF Judge
  <2>2. CASE result # None /\ result = Garbage
    BY <1>2, <2>2 DEF Judge
  <2>3. CASE result # None /\ result # Garbage
    BY <1>2, <2>3 DEF Judge
  <2> QED
    BY <2>1, <2>2, <2>3
<1> QED
  BY <1>1, <1>2

\* What the caller does with a frame or with none: only an answer to its own
\* request lets the conversation go on to the next one.
LEMMA TakeKeepsConversation ==
  ASSUME RpcClientTypeOK, AnswersMatchRequests,
         NEW result \in Messages \cup {None, Garbage}, Take(result),
         phase \in Single => result \in {None, Reply(phase)}
  PROVE  /\ phase' \in Requests \cup {"drain"} \cup Finished
         /\ reading' \in BOOLEAN /\ rx' = FreshDecoder
         /\ saw' \in [notification : BOOLEAN, response : BOOLEAN]
         /\ accepted' \in [Requests -> Messages \cup {None}]
         /\ AnswersMatchRequests'
         /\ phase' \in Single =>
              phase \in Single /\ result = Reply(phase) /\ ~reading'
<1>1. /\ accepted \in [Requests -> Messages \cup {None}]
      /\ saw \in [notification : BOOLEAN, response : BOOLEAN]
      /\ phase \in Requests \cup {"drain"} \cup Finished
  BY DEF RpcClientTypeOK
<1>2. ASSUME NEW r \in Requests, accepted' = [accepted EXCEPT ![r] = Reply(r)]
      PROVE  AnswersMatchRequests' /\ accepted' \in [Requests -> Messages \cup {None}]
  <2>1. Reply(r) \in Messages
    BY MessagesHaveBytes
  <2>2. accepted' \in [Requests -> Messages \cup {None}]
    BY <1>1, <1>2, <2>1
  <2>3. \A q \in Requests : accepted'[q] = IF q = r THEN Reply(r) ELSE accepted[q]
    BY <1>1, <1>2
  <2> QED
    BY <2>2, <2>3 DEF AnswersMatchRequests
<1>3. ASSUME accepted' = accepted
      PROVE  AnswersMatchRequests' /\ accepted' \in [Requests -> Messages \cup {None}]
  BY <1>1, <1>3 DEF AnswersMatchRequests
<1>4. ASSUME NEW kind \in SUBSET Messages, NEW next, Judge(result, kind, next),
             phase \in Single, next \subseteq Requests \cup Finished
      PROVE  /\ phase' \in next \cup {"failed", "crashed"}
             /\ phase' \in Single => result = Reply(phase) /\ phase' \in next
             /\ reading' = FALSE /\ rx' = FreshDecoder /\ saw' = saw
             /\ AnswersMatchRequests' /\ accepted' \in [Requests -> Messages \cup {None}]
  <2>1. reading' = FALSE /\ rx' = FreshDecoder /\ saw' = saw
    BY <1>4 DEF Judge
  <2>2. CASE /\ result \in kind /\ phase' \in next
             /\ accepted' = [accepted EXCEPT ![phase] = result]
    <3>1. result = Reply(phase)
      BY <1>4, <2>2, MessagesAreNoNone
    <3>2. phase \in Requests
      BY <1>4 DEF Single, Requests
    <3> QED
      BY <1>2, <2>1, <2>2, <3>1, <3>2
  <2>3. CASE phase' \in {"failed", "crashed"} /\ accepted' = accepted
    <3>1. phase' \notin Single
      BY <2>3 DEF Single
    <3> QED
      BY <1>3, <2>1, <2>3, <3>1
  <2> QED
    BY <1>4, <2>2, <2>3, JudgeTakesAnswers
<1>5. CASE get_device_info(result)
  <2> DEFINE kind == {Reply("info1"), Reply("info2")}
             next == IF phase = "info1" THEN {"info2", "failed"} ELSE {"list", "ok", "failed"}
  <2>1. phase \in {"info1", "info2"} /\ Judge(result, kind, next)
    BY <1>5 DEF get_device_info
  <2>2. kind \in SUBSET Messages
    BY MessagesHaveBytes DEF Requests
  <2>3. phase \in Single /\ next \subseteq Requests \cup Finished
    BY <2>1 DEF Single, Requests, Finished
  <2> HIDE DEF kind, next
  <2>4. /\ phase' \in next \cup {"failed", "crashed"}
        /\ phase' \in Single => result = Reply(phase) /\ phase' \in next
        /\ reading' = FALSE /\ rx' = FreshDecoder /\ saw' = saw
        /\ AnswersMatchRequests' /\ accepted' \in [Requests -> Messages \cup {None}]
    BY <1>4, <2>1, <2>2, <2>3
  <2>5. phase' \in Requests \cup {"drain"} \cup Finished
    BY <2>3, <2>4 DEF Finished
  <2> QED
    BY <1>1, <2>3, <2>4, <2>5
<1>6. CASE list_custom_subsystems(result)
  <2> DEFINE kind == {Reply("list"), Reply("lock"), Reply("unlock")}
             next == {"lock", "ok"}
  <2>1. phase = "list" /\ Judge(result, kind, next)
    BY <1>6 DEF list_custom_subsystems
  <2>2. kind \in SUBSET Messages
    BY MessagesHaveBytes DEF Requests
  <2>3. phase \in Single /\ next \subseteq Requests \cup Finished
    BY <2>1 DEF Single, Requests, Finished
  <2> HIDE DEF kind, next
  <2>4. /\ phase' \in next \cup {"failed", "crashed"}
        /\ phase' \in Single => result = Reply(phase) /\ phase' \in next
        /\ reading' = FALSE /\ rx' = FreshDecoder /\ saw' = saw
        /\ AnswersMatchRequests' /\ accepted' \in [Requests -> Messages \cup {None}]
    BY <1>4, <2>1, <2>2, <2>3
  <2>5. phase' \in Requests \cup {"drain"} \cup Finished
    BY <2>3, <2>4 DEF Finished
  <2> QED
    BY <1>1, <2>3, <2>4, <2>5
<1>7. CASE _drain_frames(result)
  <2>1. saw' = saw /\ accepted' = accepted /\ phase' \in {"unlock", "drain"}
        /\ reading' \in BOOLEAN /\ rx' = FreshDecoder
    BY <1>7 DEF _drain_frames, StartReading
  <2>2. phase' \notin Single /\ phase' \in Requests \cup {"drain"} \cup Finished
    BY <2>1 DEF Single, Requests
  <2> QED
    BY <1>1, <1>3, <2>1, <2>2
<1>8. CASE unlock_burst(result)
  <2>1. phase' \in {"ok", "failed", "unlock"} /\ reading' \in BOOLEAN /\ rx' = FreshDecoder
    BY <1>8 DEF unlock_burst, StartReading
  <2>2. phase' \notin Single /\ phase' \in Requests \cup {"drain"} \cup Finished
    BY <2>1 DEF Single, Requests, Finished
  <2>3. saw' \in [notification : BOOLEAN, response : BOOLEAN]
    <3>1. saw' = [notification |-> saw.notification \/ result \in {Notice(l) : l \in BOOLEAN},
                  response     |-> saw.response \/ result = Reply("unlock")]
      BY <1>8 DEF unlock_burst
    <3> QED
      BY <3>1
  <2>4. AnswersMatchRequests' /\ accepted' \in [Requests -> Messages \cup {None}]
    <3>1. CASE result = Reply("unlock")
      <4>1. accepted' = [accepted EXCEPT !["unlock"] = Reply("unlock")]
        BY <1>8, <3>1 DEF unlock_burst
      <4>2. "unlock" \in Requests
        BY DEF Requests
      <4> QED
        BY <1>2, <4>1, <4>2
    <3>2. CASE result # Reply("unlock")
      <4>1. accepted' = accepted
        BY <1>8, <3>2 DEF unlock_burst
      <4> QED
        BY <1>3, <4>1
    <3> QED
      BY <3>1, <3>2
  <2> QED
    BY <2>1, <2>2, <2>3, <2>4
<1> QED
  BY <1>5, <1>6, <1>7, <1>8 DEF Take

\* A request is asked, with nothing outstanding of the one before.
LEMMA SendKeepsConversation ==
  ASSUME ConversationInvariant, SendRequest
  PROVE  ConversationInvariant'
<1>1. /\ RpcClientTypeOK /\ phase \in Requests /\ ~reading
      /\ inbox' = Append(inbox, phase) /\ reading' = TRUE /\ rx' = FreshDecoder
      /\ phase' = (IF phase = "lock" THEN "drain" ELSE phase)
      /\ UNCHANGED <<saw, wire, accepted, due, misread, cut, locked, emitted, lost>>
  BY DEF ConversationInvariant, SendRequest, StartReading
<1>2. rx = FreshDecoder
  BY <1>1 DEF ConversationInvariant
<1>3. RpcClientTypeOK'
  <2>1. inbox' \in Seq(Requests) /\ phase' \in Requests \cup {"drain"} \cup Finished
        /\ rx' \in Decoder /\ reading' \in BOOLEAN
    BY <1>1, <1>2 DEF RpcClientTypeOK
  <2> QED
    BY <1>1, <2>1 DEF RpcClientTypeOK
<1>4. ReadsInSync'
  BY <1>1, <1>2 DEF ConversationInvariant, ReadsInSync
<1>5. OneAtATime'
  <2> SUFFICES ASSUME phase' \in Single
               PROVE  /\ ~cut
                      /\ \A i \in DOMAIN inbox' : inbox'[i] = phase'
                      /\ \A i \in DOMAIN due : due[i] = Reply(phase')
                      /\ Len(inbox') + Len(due) <= 1
    BY <1>1 DEF OneAtATime
  <2>1. phase' = phase /\ phase \in Single
    BY <1>1 DEF Single
  <2>2. ~cut /\ Len(inbox) + Len(due) <= 0
    BY <1>1, <2>1 DEF ConversationInvariant, OneAtATime
  <2>3. inbox \in Seq(Requests) /\ due \in Seq(Messages)
    BY <1>1 DEF RpcClientTypeOK
  <2>4. inbox = << >> /\ due = << >>
    <3>1. Len(inbox) \in Nat /\ Len(due) \in Nat
      BY <2>3
    <3>2. Len(inbox) = 0 /\ Len(due) = 0
      BY <2>2, <3>1
    <3> QED
      BY <2>3, <3>2
  <2>5. inbox' = <<phase>>
    BY <1>1, <2>4
  <2> QED
    BY <2>1, <2>2, <2>4, <2>5
<1>6. AnswersMatchRequests'
  BY <1>1 DEF ConversationInvariant, AnswersMatchRequests
<1> QED
  BY <1>1, <1>3, <1>4, <1>5, <1>6 DEF ConversationInvariant

\* A deadline passes: over a frame, or with nothing read of the next one.
LEMMA TimeoutKeepsConversation ==
  ASSUME ConversationInvariant, ReadTimeout
  PROVE  ConversationInvariant'
<1>1. /\ RpcClientTypeOK /\ AnswersMatchRequests /\ Take(None)
      /\ cut' = (cut \/ rx.in_frame)
      /\ due' = (IF rx.in_frame /\ due # << >> THEN Tail(due) ELSE due)
      /\ UNCHANGED <<wire, misread, inbox, locked, emitted, lost>>
  BY DEF ConversationInvariant, ReadTimeout, deviceVars
<1>2. /\ phase' \in Requests \cup {"drain"} \cup Finished
      /\ reading' \in BOOLEAN /\ rx' = FreshDecoder
      /\ saw' \in [notification : BOOLEAN, response : BOOLEAN]
      /\ accepted' \in [Requests -> Messages \cup {None}]
      /\ AnswersMatchRequests'
      /\ phase' \in Single =>
           phase \in Single /\ None = Reply(phase) /\ ~reading'
  BY <1>1, TakeKeepsConversation, None \in Messages \cup {None, Garbage}
<1>3. phase' \notin Single
  <2>1. \A r \in Requests : Reply(r) # None
    BY MessagesHaveBytes, MessagesAreNoNone
  <2> QED
    BY <1>2, <2>1 DEF Single, Requests
<1>4. FreshDecoder \in Decoder /\ FreshDecoder.payload = << >> /\ ~FreshDecoder.escaped
  BY DEF FreshDecoder, Decoder
<1>5. RpcClientTypeOK'
  <2>1. due' \in Seq(Messages) /\ cut' \in BOOLEAN
    <3>1. due \in Seq(Messages) /\ rx \in Decoder /\ cut \in BOOLEAN
      BY <1>1 DEF RpcClientTypeOK
    <3>2. rx.in_frame \in BOOLEAN
      BY <3>1 DEF Decoder
    <3>3. due # << >> => Tail(due) \in Seq(Messages)
      BY <3>1
    <3> QED
      BY <1>1, <3>1, <3>2, <3>3
  <2> QED
    BY <1>1, <1>2, <1>4, <2>1 DEF RpcClientTypeOK
<1>6. ReadsInSync'
  <2> SUFFICES ASSUME ~cut, ~rx.in_frame
               PROVE  ~misread /\ InSync(FreshDecoder, wire, Bytes(due), Room)
                        /\ Len(<< >>) < Room
    BY <1>1, <1>2, <1>4 DEF ReadsInSync
  <2>1. ~misread /\ InSync(rx, wire, Bytes(due), Room) /\ Len(rx.payload) < Room
    BY DEF ConversationInvariant, ReadsInSync
  <2>2. wire = Frames(Bytes(due))
    BY <2>1 DEF InSync, InFrame
  <2>3. rx.payload \in Seq(Byte) /\ Room \in Nat
    BY <1>1, MessagesHaveBytes DEF RpcClientTypeOK, Decoder
  <2>4. Len(<< >>) = 0 /\ Len(rx.payload) \in Nat
    BY <2>3
  <2> QED
    BY <1>4, <2>1, <2>2, <2>3, <2>4 DEF InSync
<1>7. OneAtATime'
  BY <1>3 DEF OneAtATime
<1> QED
  BY <1>2, <1>5, <1>6, <1>7 DEF ConversationInvariant

\* A byte is read: it leads on inside a frame, or ends the one that was due.
LEMMA ByteKeepsConversation ==
  ASSUME ConversationInvariant, ReadByte
  PROVE  ConversationInvariant'
<1> DEFINE byte == Head(wire)
           size == Len(rx.payload) + 1
<1>1. /\ RpcClientTypeOK /\ AnswersMatchRequests /\ reading /\ wire # << >>
      /\ wire' = Tail(wire) /\ cut' = cut
      /\ UNCHANGED <<inbox, locked, emitted, lost>>
  BY DEF ConversationInvariant, ReadByte, deviceVars
<1>2. /\ wire \in Seq(Byte) /\ rx \in Decoder /\ due \in Seq(Messages) /\ cut \in BOOLEAN
      /\ misread \in BOOLEAN /\ inbox \in Seq(Requests) /\ rx.payload \in Seq(Byte)
  BY <1>1 DEF RpcClientTypeOK, Decoder
<1>3. byte \in Byte /\ Tail(wire) \in Seq(Byte) /\ size \in Nat
      /\ Len(rx.payload) < size
  BY <1>1, <1>2
<1>4. Bytes(due) \in Seq(Seq(Byte)) /\ Room \in Nat
      /\ (due # << >> => Head(due) \in Messages /\ Tail(due) \in Seq(Messages)
            /\ Head(Bytes(due)) = Payload[Head(due)] /\ Tail(Bytes(due)) = Bytes(Tail(due)))
      /\ Len(Bytes(due)) = Len(due)
  <2>1. due # << >> => Head(due) \in Messages /\ Tail(due) \in Seq(Messages)
    BY <1>2
  <2> QED
    BY <1>2, <2>1, MessagesHaveBytes
\* What the byte does as long as the decoder is in step.
<1>5. ASSUME ~cut
      PROVE  /\ ~misread /\ due # << >>
             /\ EndsFrame(rx, byte) =>
                  /\ rx.payload = Payload[Head(due)]
                  /\ Tail(wire) = Frames(Bytes(Tail(due)))
             /\ ~EndsFrame(rx, byte) =>
                  /\ InSync(DecodeByte(rx, byte, size), Tail(wire), Bytes(due), Room)
                  /\ Len(DecodeByte(rx, byte, size).payload) < Room
  <2>1. ~misread /\ InSync(rx, wire, Bytes(due), Room) /\ Len(rx.payload) < Room
    BY <1>5 DEF ConversationInvariant, ReadsInSync
  <2> DEFINE e == DecodeByte(rx, byte, size)
  <2>2. /\ Bytes(due) # << >>
        /\ EndsFrame(rx, byte) =>
             /\ rx.payload = Fit(Head(Bytes(due)), Room)
             /\ Tail(wire) = Frames(Tail(Bytes(due)))
        /\ ~EndsFrame(rx, byte) =>
             InFrame(e, Tail(wire), Head(Bytes(due)), Frames(Tail(Bytes(due))), Room)
    BY <1>1, <1>2, <1>3, <1>4, <2>1, InSyncStep
  <2>3. due # << >>
    <3>1. due = << >> => Len(Bytes(due)) = 0
      BY <1>4
    <3> QED
      BY <1>4, <2>2, <3>1
  <2> DEFINE p == Payload[Head(due)]
  <2>4. p \in Seq(Byte) /\ Len(p) < Room /\ Len(p) \in Nat /\ Head(Bytes(due)) = p
    BY <1>4, <2>3, MessagesHaveBytes, RpcAssumption DEF RpcAssumption
  <2> HIDE DEF p, e
  <2>5. Fit(p, Room) = p
    BY <1>4, <2>4 DEF Fit
  <2>6. ASSUME ~EndsFrame(rx, byte)
        PROVE  InSync(e, Tail(wire), Bytes(due), Room) /\ Len(e.payload) < Room
    <3>1. InFrame(e, Tail(wire), p, Frames(Tail(Bytes(due))), Room)
      BY <2>2, <2>4, <2>6
    <3>2. InSync(e, Tail(wire), Bytes(due), Room)
      BY <2>2, <2>4, <3>1 DEF InSync
    <3>3. e.payload \in Seq(Byte) /\ Len(e.payload) <= Len(p)
      BY <1>4, <2>4, <3>1, InFrameHolds
    <3>4. Len(e.payload) \in Nat
      BY <3>3
    <3> QED
      BY <1>4, <2>4, <3>2, <3>3, <3>4
  <2> QED
    BY <1>4, <2>1, <2>2, <2>3, <2>4, <2>5, <2>6 DEF p, e
<1>6. CASE ~EndsFrame(rx, byte)
  <2>1. rx' = DecodeByte(rx, byte, size)
        /\ UNCHANGED <<phase, reading, saw, accepted, misread, due>>
    BY <1>6 DEF ReadByte
  <2>2. RpcClientTypeOK'
    <3>1. rx' \in Decoder
      BY <1>2, <1>3, <2>1, DecodeByteIsDecoder
    <3> QED
      BY <1>1, <1>3, <2>1, <3>1 DEF RpcClientTypeOK
  <2>3. ReadsInSync'
    <3> HIDE DEF byte, size
    <3> QED
      BY <1>1, <1>5, <1>6, <2>1 DEF ReadsInSync
  <2>4. OneAtATime' /\ AnswersMatchRequests'
    BY <1>1, <2>1 DEF ConversationInvariant, OneAtATime, AnswersMatchRequests
  <2> QED
    BY <1>1, <2>1, <2>2, <2>3, <2>4 DEF ConversationInvariant
<1>7. CASE EndsFrame(rx, byte)
  <2> DEFINE result == Parsed(rx.payload)
  <2>1. /\ Take(result)
        /\ misread' = (misread \/ due = << >> \/ rx.payload # Payload[Head(due)])
        /\ due' = (IF due = << >> THEN due ELSE Tail(due))
    BY <1>7 DEF ReadByte
  <2>2. result \in Messages \cup {None, Garbage}
    BY ParsedIsMessage
  <2>3. ASSUME ~cut PROVE due # << >> /\ result = Head(due) /\ Head(due) \in Messages
    BY <1>4, <1>5, <1>7, <2>3, ParsedIsMessage
  <2>4. ASSUME phase \in Single
        PROVE  /\ ~cut /\ inbox = << >> /\ due # << >> /\ Tail(due) = << >>
               /\ result = Reply(phase)
    <3>1. /\ ~cut /\ \A i \in DOMAIN due : due[i] = Reply(phase)
          /\ Len(inbox) + Len(due) <= 1
      BY <1>1, <2>4 DEF ConversationInvariant, OneAtATime
    <3>2. due # << >> /\ result = Head(due)
      BY <2>3, <3>1
    <3>3. Len(due) \in Nat \ {0} /\ Len(inbox) \in Nat
      BY <1>2, <3>2
    <3>4. Len(due) = 1 /\ Len(inbox) = 0
      <4> DEFINE m == Len(inbox)
                 n == Len(due)
      <4>1. m \in Nat /\ n \in Nat \ {0} /\ m + n <= 1
        BY <3>1, <3>3
      <4> HIDE DEF m, n
      <4>2. n = 1 /\ m = 0
        BY <4>1
      <4> QED
        BY <4>2 DEF m, n
    <3>5. inbox = << >>
      BY <1>2, <3>4, EmptySeq
    <3>6. Head(due) = due[1] /\ 1 \in DOMAIN due
      BY <1>2, <3>2, <3>4
    <3>7. Tail(due) = << >>
      <4>1. Tail(due) \in Seq(Messages) /\ Len(Tail(due)) = Len(due) - 1
        BY <1>2, <3>2, HeadTailProperties
      <4>2. Len(Tail(due)) = 0
        BY <3>4, <4>1
      <4> QED
        BY <4>1, <4>2, EmptySeq
    <3> QED
      BY <3>1, <3>2, <3>5, <3>6, <3>7
  <2> HIDE DEF result
  <2>5. /\ phase' \in Requests \cup {"drain"} \cup Finished
        /\ reading' \in BOOLEAN /\ rx' = FreshDecoder
        /\ saw' \in [notification : BOOLEAN, response : BOOLEAN]
        /\ accepted' \in [Requests -> Messages \cup {None}]
        /\ AnswersMatchRequests'
        /\ phase' \in Single =>
             phase \in Single /\ result = Reply(phase) /\ ~reading'
    BY <1>1, <2>1, <2>2, <2>4, TakeKeepsConversation
  <2>6. FreshDecoder \in Decoder /\ FreshDecoder.payload = << >> /\ ~FreshDecoder.escaped
    BY DEF FreshDecoder, Decoder
  <2>7. RpcClientTypeOK'
    <3>1. due' \in Seq(Messages) /\ misread' \in BOOLEAN
      BY <1>2, <1>4, <2>1
    <3> QED
      BY <1>1, <1>3, <2>5, <2>6, <3>1 DEF RpcClientTypeOK
  <2>8. ReadsInSync'
    <3> SUFFICES ASSUME ~cut
                 PROVE  ~misread' /\ InSync(FreshDecoder, Tail(wire), Bytes(due'), Room)
                          /\ Len(<< >>) < Room
      BY <1>1, <2>5, <2>6 DEF ReadsInSync
    <3>1. ~misread' /\ due' = Tail(due) /\ Tail(wire) = Frames(Bytes(Tail(due)))
      BY <1>5, <1>7, <2>1
    <3>2. Len(<< >>) < Room
      <4>1. Len(rx.payload) < Room /\ Len(rx.payload) \in Nat /\ Len(<< >>) = 0
        BY <1>2 DEF ConversationInvariant, ReadsInSync
      <4> QED
        BY <1>4, <4>1
    <3> QED
      BY <2>6, <3>1, <3>2 DEF InSync
  <2>9. OneAtATime'
    <3> SUFFICES ASSUME phase' \in Single
                 PROVE  /\ ~cut
                        /\ \A i \in DOMAIN inbox : inbox[i] = phase'
                        /\ \A i \in DOMAIN due' : due'[i] = Reply(phase')
                        /\ Len(inbox) + Len(due') <= 0
      BY <1>1, <2>5 DEF OneAtATime
    <3>1. ~cut /\ inbox = << >> /\ due' = << >>
      BY <2>1, <2>4, <2>5
    <3> QED
      BY <3>1
  <2> QED
    BY <2>5, <2>7, <2>8, <2>9 DEF ConversationInvariant
<1> QED
  BY <1>6, <1>7

\* A step of the conversation.
LEMMA ClientKeepsConversation ==
  ConversationInvariant /\ (ClientStep \/ Serve) => ConversationInvariant'
BY SendKeepsConversation, ByteKeepsConversation, TimeoutKeepsConversation,
   ServeKeepsConversation DEF ClientStep

\* The conversation is sound at every point of every attempt.
THEOREM ConversationAlwaysSound == SmokeSpec => []ConversationInvariant
<1>1. SmokeInit => ConversationInvariant
  BY FreshConversation DEF SmokeInit
<1>2. ConversationInvariant /\ [SmokeNext]_smokeVars => ConversationInvariant'
  <2> SUFFICES ASSUME ConversationInvariant, [SmokeNext]_smokeVars
               PROVE  ConversationInvariant'
    OBVIOUS
  <2>1. CASE UNCHANGED rpcClientVars
    <3> USE <2>1 DEF rpcClientVars, readVars, deviceVars, ConversationInvariant
    <3>1. RpcClientTypeOK'
      BY DEF RpcClientTypeOK
    <3>2. ReadsInSync' /\ OneAtATime' /\ AnswersMatchRequests'
      BY DEF ReadsInSync, OneAtATime, AnswersMatchRequests
    <3> QED
      BY <3>1, <3>2
  <2>2. CASE RpcClientReset
    BY <2>2, FreshConversation
  <2>3. CASE Converse \/ DeviceServes
    <3>1. ClientStep \/ Serve
      BY <2>3 DEF Converse, DeviceServes
    <3> QED
      BY <3>1, ClientKeepsConversation
  <2> QED
    BY <2>1, <2>2, <2>3, SmokeStepInBodies DEF smokeVars
<1> QED
  BY <1>1, <1>2, PTL DEF SmokeSpec

\* read_frame: until a deadline passes inside a frame, what it returns is the next
\* frame the device sent, whole, whatever bytes payloads are made of.
THEOREM FramesAlwaysReal == SmokeSpec => []FramesAreReal
<1>1. ConversationInvariant => FramesAreReal
  BY DEF ConversationInvariant, ReadsInSync, FramesAreReal
<1> QED
  BY <1>1, ConversationAlwaysSound, PTL

\* _assert_get_device_info and what follows it: although only the kind of an answer
\* is looked at, and deadlines pass and frames are dropped at any point, the answer
\* taken for a request is its own.
THEOREM AnswersAlwaysMatch == SmokeSpec => []AnswersMatchRequests
<1>1. ConversationInvariant => AnswersMatchRequests
  BY DEF ConversationInvariant
<1> QED
  BY <1>1, ConversationAlwaysSound, PTL

-----------------------------------------------------------------------------
(* The verdict.                                                            *)

\* The conversation only gets past a request with an answer taken for it.
AnsweredSoFar ==
  /\ accepted \in [Requests -> Messages \cup {None}]
  /\ phase \notin {"info1", "failed", "crashed"} => accepted["info1"] # None
  /\ phase \notin {"info1", "info2", "failed", "crashed"} => accepted["info2"] # None

\* The relay follows a conversation that was all right, and an OK what the mode
\* is about.
VerdictFollows ==
  /\ stage = "relay" => phase = "ok"
  /\ exit = "ok" =>
       /\ stage = "done"
       /\ mode \in UsbModes => phase = "ok"
       /\ mode \in BleModes => loop = "ok"

\* Whatever frame the conversation is given, or none.
LEMMA TakeKeepsAnswers ==
  ASSUME AnsweredSoFar, NEW result \in Messages \cup {None, Garbage}, Take(result)
  PROVE  AnsweredSoFar'
<1>1. accepted \in [Requests -> Messages \cup {None}]
  BY DEF AnsweredSoFar
<1>2. \A r \in Requests : Reply(r) \in Messages
  BY DEF Reply, Messages
<1>3. CASE get_device_info(result)
  <2> DEFINE kind == {Reply("info1"), Reply("info2")}
             next == IF phase = "info1" THEN {"info2", "failed"} ELSE {"list", "ok", "failed"}
  <2>1. phase \in {"info1", "info2"} /\ Judge(result, kind, next)
    BY <1>3 DEF get_device_info
  <2>2. kind \in SUBSET Messages
    BY <1>2 DEF Requests
  <2> HIDE DEF kind, next
  <2>3. CASE /\ result \in kind /\ phase' \in next
             /\ accepted' = [accepted EXCEPT ![phase] = result]
    <3>1. result \in Messages /\ result # None
      BY <2>2, <2>3, MessagesAreNoNone
    <3>2. accepted' \in [Requests -> Messages \cup {None}] /\ accepted'[phase] # None
          /\ (phase # "info1" => accepted'["info1"] = accepted["info1"])
      BY <1>1, <2>1, <2>3, <3>1 DEF Requests
    <3>3. CASE phase = "info1"
      BY <2>3, <3>2, <3>3 DEF AnsweredSoFar, next
    <3>4. CASE phase = "info2"
      BY <2>3, <3>2, <3>4 DEF AnsweredSoFar, next
    <3> QED
      BY <2>1, <3>3, <3>4
  <2>4. CASE phase' \in {"failed", "crashed"} /\ accepted' = accepted
    BY <2>4 DEF AnsweredSoFar
  <2> QED
    BY <2>1, <2>2, <2>3, <2>4, JudgeTakesAnswers, Zenon
<1>4. CASE list_custom_subsystems(result)
  <2> DEFINE kind == {Reply("list"), Reply("lock"), Reply("unlock")}
             next == {"lock", "ok"}
  <2>1. phase = "list" /\ Judge(result, kind, next)
    BY <1>4 DEF list_custom_subsystems
  <2>2. kind \in SUBSET Messages
    BY <1>2 DEF Requests
  <2> HIDE DEF kind, next
  <2>3. CASE /\ result \in kind /\ phase' \in next
             /\ accepted' = [accepted EXCEPT ![phase] = result]
    <3>1. result \in Messages
      BY <2>2, <2>3
    <3>2. accepted' \in [Requests -> Messages \cup {None}]
          /\ accepted'["info1"] = accepted["info1"] /\ accepted'["info2"] = accepted["info2"]
      BY <1>1, <2>1, <2>3, <3>1 DEF Requests
    <3> QED
      BY <2>1, <3>2 DEF AnsweredSoFar
  <2>4. CASE phase' \in {"failed", "crashed"} /\ accepted' = accepted
    BY <2>4 DEF AnsweredSoFar
  <2> QED
    BY <2>1, <2>2, <2>3, <2>4, JudgeTakesAnswers, Zenon
<1>5. CASE _drain_frames(result)
  BY <1>5 DEF _drain_frames, AnsweredSoFar
<1>6. CASE unlock_burst(result)
  <2>1. phase = "unlock"
    BY <1>6 DEF unlock_burst
  <2>2. \/ accepted' = accepted
        \/ result \in Messages /\ accepted' = [accepted EXCEPT !["unlock"] = result]
    <3>1. Reply("unlock") \in Messages
      BY <1>2 DEF Requests
    <3> QED
      BY <1>6, <3>1 DEF unlock_burst
  <2>3. accepted' \in [Requests -> Messages \cup {None}]
        /\ accepted'["info1"] = accepted["info1"] /\ accepted'["info2"] = accepted["info2"]
    BY <1>1, <2>2 DEF Requests
  <2> QED
    BY <2>1, <2>3 DEF AnsweredSoFar
<1> QED
  BY <1>3, <1>4, <1>5, <1>6 DEF Take

\* A step of the conversation.
LEMMA ClientKeepsAnswers ==
  ASSUME AnsweredSoFar, ClientStep
  PROVE  AnsweredSoFar'
<1>1. CASE SendRequest
  BY <1>1 DEF SendRequest, AnsweredSoFar, Requests
<1>2. CASE ReadByte
  <2>1. Parsed(rx.payload) \in Messages \cup {None, Garbage}
    BY DEF Parsed
  <2>2. CASE Take(Parsed(rx.payload))
    BY <2>1, <2>2, TakeKeepsAnswers
  <2>3. CASE UNCHANGED <<phase, accepted>>
    BY <2>3 DEF AnsweredSoFar
  <2> QED
    BY <1>2, <2>2, <2>3 DEF ReadByte
<1>3. CASE ReadTimeout
  BY <1>3, TakeKeepsAnswers DEF ReadTimeout
<1> QED
  BY <1>1, <1>2, <1>3 DEF ClientStep

\* A run that is over does nothing any more.
LEMMA DoneIsDone ==
  ASSUME SessionInvariant, SmokeNext
  PROVE  stage # "done"
<1> SUFFICES ASSUME stage = "done" PROVE FALSE
  OBVIOUS
<1>1. process = "none"
  BY DEF SessionInvariant, ProcessesAccountedFor
<1>2. ~HarnessStep
  BY DEF HarnessStep, Popen, MonitorComesUp, MonitorNeverUp, BootDone, BootFails, Pause,
     SeePaused, ConnectTerminal, AttachDualCdcAcmBridge, SeeRunning, SeeWired,
     AttachTimesOut, SocketBreaks, Booted, AttachStages
<1>3. ~EmulatorStep /\ ~BootStep /\ ~CarryOut
  BY <1>1 DEF EmulatorStep, CommandTakesEffect, RenodeDies, BootStep, CarryOut
<1>4. ~InBody(UsbModes) /\ ~InBody(BleModes) /\ ~InBody({"wired", "liveness"})
  BY DEF InBody
<1> QED
  BY <1>2, <1>3, <1>4 DEF SmokeNext, Attempt, Boot, Emulator, Converse, DeviceServes,
     ConversationOver, Machines, Observe, ChainOver, OtherBody

\* Booting, attaching, and the emulator's steps report no OK and begin no relay.
LEMMA HarnessGivesNoVerdict ==
  ASSUME HarnessStep
  PROVE  (exit' = exit \/ exit' # "ok") /\ stage' # "relay"
<1>1. ASSUME NEW err, NEW stops, Raises(err, stops)
      PROVE  (exit' = exit \/ exit' # "ok") /\ stage' # "relay"
  BY <1>1 DEF Raises
<1>2. CASE MonitorNeverUp \/ BootFails \/ AttachTimesOut \/ SocketBreaks
  BY <1>1, <1>2 DEF MonitorNeverUp, BootFails, AttachTimesOut, SocketBreaks
<1>3. CASE \/ Popen \/ MonitorComesUp \/ BootDone \/ Pause \/ SeePaused \/ ConnectTerminal
           \/ AttachDualCdcAcmBridge \/ SeeRunning \/ SeeWired
  BY <1>3 DEF Popen, MonitorComesUp, BootDone, Pause, SeePaused, ConnectTerminal,
     AttachDualCdcAcmBridge, SeeRunning, SeeWired, runVars
<1> QED
  BY <1>2, <1>3 DEF HarnessStep

\* An OK, and the relay, come from a body that went through.
LEMMA VerdictStepByStep ==
  ASSUME SessionInvariant, VerdictFollows, SmokeNext
  PROVE  VerdictFollows'
<1>1. stage # "done" /\ exit # "ok"
  BY DoneIsDone DEF VerdictFollows
<1>2. ASSUME NEW err, NEW stops, Raises(err, stops)
      PROVE  exit' # "ok" /\ stage' # "relay"
  BY <1>1, <1>2 DEF Raises
<1>3. CASE Attempt
  <2>1. exit' # "ok" /\ stage' # "relay"
    BY <1>1, <1>3, HarnessGivesNoVerdict DEF Attempt
  <2> QED
    BY <2>1 DEF VerdictFollows
<1>4. CASE Boot \/ Emulator
  <2>1. UNCHANGED <<stage, mode, exit, phase, loop>>
    BY <1>4 DEF Boot, Emulator, EmulatorStep, CommandTakesEffect, RenodeDies, SameBodies,
       sessionVars, runVars, rpcClientVars, chainVars, loopVars
  <2> QED
    BY <2>1 DEF VerdictFollows
<1>5. CASE Converse \/ DeviceServes \/ Machines \/ Observe
  <2>1. UNCHANGED <<stage, exit>> /\ stage = "body"
    BY <1>5 DEF Converse, DeviceServes, Machines, Observe, InBody, sessionVars, runVars
  <2> QED
    BY <1>1, <2>1 DEF VerdictFollows
<1>6. CASE ConversationOver
  <2>1. CASE Raises("AssertionError", TRUE) \/ Raises("DecodeError", TRUE)
    BY <1>2, <2>1 DEF VerdictFollows
  <2>2. CASE /\ phase = "ok" /\ mode \in UsbModes /\ SameBodies
             /\ \/ Returns
                \/ stage' = "relay" /\ UNCHANGED runVars
    <3>1. phase' = "ok" /\ mode' = mode /\ mode \notin BleModes
      BY <2>2 DEF SameBodies, rpcClientVars, Returns, runVars, UsbModes, BleModes
    <3>2. Returns => exit' = "ok" /\ stage' = "done"
      BY DEF Returns
    <3>3. stage' = "relay" /\ UNCHANGED runVars => exit' # "ok"
      BY <1>1 DEF runVars
    <3> QED
      BY <2>2, <3>1, <3>2, <3>3 DEF VerdictFollows
  <2>3. mode \in UsbModes
    BY <1>6 DEF ConversationOver, InBody
  <2> QED
    <3>1. CASE phase = "failed"
      BY <1>6, <2>1, <3>1 DEF ConversationOver
    <3>2. CASE phase = "crashed"
      BY <1>6, <2>1, <3>2 DEF ConversationOver
    <3>3. CASE phase = "ok" /\ mode = "usb"
      BY <1>6, <2>2, <2>3, <3>3 DEF ConversationOver
    <3>4. CASE phase = "ok" /\ mode = "usb_wired"
      BY <1>6, <2>2, <2>3, <3>4 DEF ConversationOver
    <3>5. phase \in {"failed", "crashed", "ok"}
      BY <1>6 DEF ConversationOver
    <3> QED
      BY <2>3, <3>1, <3>2, <3>3, <3>4, <3>5 DEF UsbModes
<1>7. CASE ChainOver
  <2>1. CASE Raises("AssertionError", TRUE)
    BY <1>2, <2>1 DEF VerdictFollows
  <2>2. CASE loop = "ok" /\ Returns /\ SameBodies
    <3>1. loop' = "ok" /\ mode' = mode /\ stage' = "done" /\ mode \notin UsbModes
      BY <1>7, <2>2 DEF SameBodies, chainVars, loopVars, Returns, UsbModes, BleModes,
         ChainOver, InBody
    <3> QED
      BY <3>1 DEF VerdictFollows
  <2> QED
    BY <1>7, <2>1, <2>2 DEF ChainOver
<1>8. CASE OtherBody
  <2>1. CASE Raises("AssertionError", TRUE)
    BY <1>2, <2>1 DEF VerdictFollows
  <2>2. CASE Returns /\ SameBodies
    <3>1. UNCHANGED <<phase, mode>> /\ stage' = "done"
      BY <2>2 DEF SameBodies, rpcClientVars, Returns
    <3>2. CASE InBody({"wired", "liveness"})
      BY <3>1, <3>2 DEF InBody, UsbModes, BleModes, VerdictFollows
    <3>3. CASE stage = "relay"
      <4>1. mode \in UsbModes /\ mode \notin BleModes /\ phase = "ok"
        BY <3>3 DEF SessionInvariant, StagesFitMode, VerdictFollows, UsbModes, BleModes
      <4> QED
        BY <3>1, <4>1 DEF VerdictFollows
    <3> QED
      BY <1>8, <3>2, <3>3 DEF OtherBody
  <2> QED
    BY <1>8, <2>1, <2>2 DEF OtherBody
<1> QED
  BY <1>3, <1>4, <1>5, <1>6, <1>7, <1>8 DEF SmokeNext

\* The answers taken so far and the verdict, throughout every smoke test.
THEOREM VerdictAlwaysFollows ==
  SmokeSpec => [](SessionInvariant /\ ChainOfAttempt /\ AnsweredSoFar /\ VerdictFollows)
<1>1. SmokeInit => AnsweredSoFar /\ VerdictFollows
  <2> SUFFICES ASSUME SmokeInit PROVE AnsweredSoFar /\ VerdictFollows
    OBVIOUS
  <2>1. accepted = [r \in Requests |-> None] /\ phase = "info1"
        /\ stage = "spawn" /\ exit = "none"
    BY DEF SmokeInit, RpcClientInit, SessionInit
  <2> QED
    BY <2>1 DEF AnsweredSoFar, VerdictFollows
<1>2. AnsweredSoFar /\ [SmokeNext]_smokeVars => AnsweredSoFar'
  <2> SUFFICES ASSUME AnsweredSoFar, [SmokeNext]_smokeVars PROVE AnsweredSoFar'
    OBVIOUS
  <2>1. CASE UNCHANGED rpcClientVars
    BY <2>1 DEF rpcClientVars, AnsweredSoFar
  <2>2. CASE RpcClientReset
    <3>1. accepted' = [r \in Requests |-> None] /\ phase' = "info1"
      BY <2>2 DEF RpcClientReset
    <3> QED
      BY <3>1 DEF AnsweredSoFar
  <2>3. CASE Converse
    BY <2>3, ClientKeepsAnswers DEF Converse
  <2>4. CASE DeviceServes
    <3>1. UNCHANGED <<phase, accepted>>
      BY <2>4 DEF DeviceServes, Serve
    <3> QED
      BY <3>1 DEF AnsweredSoFar
  <2> QED
    BY <2>1, <2>2, <2>3, <2>4, SmokeStepInBodies DEF smokeVars
<1>3. SessionInvariant /\ VerdictFollows /\ [SmokeNext]_smokeVars => VerdictFollows'
  <2>1. CASE UNCHANGED smokeVars
    BY <2>1 DEF smokeVars, sessionVars, runVars, rpcClientVars, chainVars, loopVars,
       VerdictFollows
  <2> QED
    BY <2>1, VerdictStepByStep
<1> QED
  BY <1>1, <1>2, <1>3, SessionAlwaysInvariant, ChainAlwaysSound, PTL DEF SmokeSpec

\* renode_smoke.py: SMOKE TEST OK means what the mode promises, of the attempt
\* that ended it, for any number of attempts, failures and drops, whatever the
\* messages' bytes.
THEOREM VerdictIsEarned == SmokeSpec => []OkIsEarned
<1>1. SessionInvariant /\ ChainOfAttempt /\ AnsweredSoFar /\ VerdictFollows
        /\ AnswersMatchRequests => OkIsEarned
  <2> SUFFICES ASSUME SessionInvariant, ChainOfAttempt, AnsweredSoFar, VerdictFollows,
                      AnswersMatchRequests, exit = "ok"
               PROVE  /\ mode \in UsbModes =>
                           \A r \in {"info1", "info2"} : accepted[r] = Reply(r)
                      /\ mode \in BleModes => PassedChainIsWhole /\ loop = "ok"
                      /\ process = "none" /\ leaked = 0
    BY DEF OkIsEarned
  <2>1. process = "none" /\ leaked = 0
    BY DEF SessionInvariant, ProcessesAccountedFor, VerdictFollows
  <2>2. ASSUME mode \in UsbModes
        PROVE  accepted["info1"] = Reply("info1") /\ accepted["info2"] = Reply("info2")
    <3>1. accepted["info1"] # None /\ accepted["info2"] # None
      BY <2>2 DEF VerdictFollows, AnsweredSoFar
    <3> QED
      BY <2>2, <3>1 DEF AnswersMatchRequests, Requests
  <2>3. ASSUME mode \in BleModes PROVE PassedChainIsWhole /\ loop = "ok"
    <3>1. loop = "ok" /\ "S5 OK" \in ToSet(console) /\ (split => splitPaired)
      BY <2>3 DEF VerdictFollows, ChainOfAttempt, SeenIsReal
    <3>2. PICK j \in DOMAIN console : console[j] = "S5 OK"
      BY <3>1 DEF ToSet
    <3>3. EncryptedIn(console) /\ console[j] \in ReadMarkers
      BY <3>2 DEF ChainOfAttempt, OneReadPerConnection, ReadMarkers
    <3>4. PICK i \in DOMAIN console : Apart(console, i, j) /\ console[i] = "S4 OK"
      BY <3>3 DEF EncryptedIn
    <3> QED
      BY <3>1, <3>2, <3>4 DEF PassedChainIsWhole, SameConnection, Apart
  <2> QED
    BY <2>1, <2>2, <2>3
<1> QED
  BY <1>1, VerdictAlwaysFollows, AnswersAlwaysMatch, PTL
=============================================================================
