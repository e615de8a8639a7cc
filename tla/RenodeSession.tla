---------------------------- MODULE RenodeSession ----------------------------
(***************************************************************************)
(* One run of the Renode smoke test: boot an emulation, for the USB modes  *)
(* attach the CDC bridge to it, run the mode's assertions (the "body", see *)
(* Smoke), stop the emulation, and for some modes try once more after a    *)
(* failure.  RenodeSession and boot_* are in renode_harness.py, the        *)
(* attempts and main in renode_smoke.py.                                   *)
(*                                                                         *)
(* External: the Renode process, which may die at any time, and its        *)
(* monitor.  `pause` and `start` return before they have taken effect, and *)
(* one that is issued while another is under way is lost.  Deadlines are   *)
(* wall-clock and may pass at any point.  Assumed: when the boot's settle  *)
(* time is over, its start has taken effect (attach_dual_cdc_bridge: "Call *)
(* this only after the guest has settled").                                *)
(***************************************************************************)
EXTENDS Naturals

CONSTANT max_attempts   \* the whole-emulation attempts of a retrying mode

ASSUME SessionAssumption == max_attempts \in Nat \ {0}

VARIABLES
  mode,      (* host link and split link, by their canonical name          *)
  attempt,
  stage,     (* where the attempt is                                       *)
  process,   (* this attempt's Renode: "none", "up" or "dead"              *)
  leaked,    (* Renodes that are up and that no session will ever stop     *)
  paused,    (* the emulation does not run                                 *)
  command,   (* "pause" or "start" under way, or "none"                    *)
  clients,   (* clients connected to the bridge's two terminals            *)
  attached,  (* AttachDualCdcAcmBridge was called: enumeration starts with *)
             (* the next virtual time that passes                          *)
  exit       (* "none", "ok" (0), "failed" (1) or "crash" (a traceback)    *)

machineVars == <<paused, command>>
bridgeVars == <<clients, attached>>
runVars == <<mode, attempt, leaked, exit>>
sessionVars == <<stage, process, machineVars, bridgeVars, runVars>>

UsbModes == {"usb", "usb_wired"}
BleModes == {"ble", "ble_split"}
Modes == UsbModes \cup BleModes \cup {"wired", "liveness"}
Exceptions == {"AssertionError", "TimeoutError", "OSError", "DecodeError"}
AttachStages == {"settle", "pausing", "terminals", "resuming", "wiring"}
Booted == AttachStages \cup {"body", "relay"}

SessionTypeOK ==
  /\ mode \in Modes /\ attempt \in 1..max_attempts
  /\ stage \in {"spawn", "monitor", "boot", "done"} \cup Booted
  /\ process \in {"none", "up", "dead"} /\ leaked \in 0..max_attempts
  /\ paused \in BOOLEAN /\ command \in {"none", "pause", "start"}
  /\ clients \in 0..2 /\ attached \in BOOLEAN
  /\ exit \in {"none", "ok", "failed", "crash"}

SessionInit ==
  /\ mode \in Modes /\ attempt = 1
  /\ stage = "spawn" /\ process = "none" /\ leaked = 0
  /\ paused = TRUE /\ command = "none"
  /\ clients = 0 /\ attached = FALSE
  /\ exit = "none"

-----------------------------------------------------------------------------
(* The emulation.                                                          *)

Issue(c) == command' = IF command = "none" THEN c ELSE command

CommandTakesEffect ==
  /\ process = "up" /\ command # "none"
  /\ paused' = (command = "pause") /\ command' = "none"
  /\ UNCHANGED <<stage, process, bridgeVars, runVars>>

RenodeDies ==
  /\ process = "up" /\ process' = "dead"
  /\ UNCHANGED <<stage, machineVars, bridgeVars, runVars>>

-----------------------------------------------------------------------------
(* How an attempt ends.                                                    *)

\* Mutant: every mode retries whatever it meets.
RetriesAnything(m, err) == m \in UsbModes \cup {"ble_split"}

\* The exceptions after which a mode tries once more.
Retries(m, err) ==
  \/ m \in UsbModes /\ err # "DecodeError"
  \/ m = "ble_split" /\ err = "AssertionError"

\* The boot functions that stop the session when they fail half-way.
StopsFailedBoot(m) == m \in UsbModes \cup {"liveness"}

AttemptsLeft == attempt < max_attempts

\* An exception leaves the attempt.  USB modes turn what they retried into an
\* AssertionError in the end; main reports that one, any other is a traceback.
Raises(err, stops) ==
  /\ process' = "none"
  /\ leaked' = IF ~stops /\ process = "up" THEN leaked + 1 ELSE leaked
  /\ IF Retries(mode, err) /\ AttemptsLeft
     THEN attempt' = attempt + 1 /\ stage' = "spawn" /\ UNCHANGED exit
     ELSE /\ stage' = "done" /\ UNCHANGED attempt
          /\ exit' = IF Retries(mode, err) \/ err = "AssertionError"
                     THEN "failed" ELSE "crash"
  /\ paused' = TRUE /\ command' = "none"
  /\ clients' = 0 /\ attached' = FALSE
  /\ UNCHANGED mode

\* The attempt's assertions all held: stop, and SMOKE TEST OK.
Returns ==
  /\ process' = "none" /\ stage' = "done" /\ exit' = "ok"
  /\ paused' = TRUE /\ command' = "none"
  /\ clients' = 0 /\ attached' = FALSE
  /\ UNCHANGED <<mode, attempt, leaked>>

-----------------------------------------------------------------------------
(* RenodeSession.start and the boot_* functions.                           *)

Popen ==
  /\ stage = "spawn" /\ stage' = "monitor" /\ process' = "up"
  /\ UNCHANGED <<machineVars, bridgeVars, runVars>>

MonitorComesUp ==
  /\ stage = "monitor" /\ process = "up" /\ stage' = "boot"
  /\ UNCHANGED <<process, machineVars, bridgeVars, runVars>>

\* start kills the process itself before it raises.
MonitorNeverUp == stage = "monitor" /\ Raises("TimeoutError", TRUE)

\* Sockets connected, storage preloaded, go.
BootDone ==
  /\ stage = "boot" /\ process = "up"
  /\ Issue("start")
  /\ stage' = IF mode \in UsbModes THEN "settle" ELSE "body"
  /\ UNCHANGED <<process, paused, bridgeVars, runVars>>

\* A socket that cannot be connected, a monitor that has gone away.
BootFails ==
  /\ stage = "boot"
  /\ \E err \in {"TimeoutError", "OSError"} : Raises(err, StopsFailedBoot(mode))

-----------------------------------------------------------------------------
(* attach_dual_cdc_bridge.                                                 *)

\* Mutant: the terminals are set up without waiting for the pause.
PauseUnseen ==
  /\ stage = "settle" /\ process = "up" /\ ~paused
  /\ Issue("pause") /\ stage' = "terminals"
  /\ UNCHANGED <<process, paused, bridgeVars, runVars>>

\* The guest has settled: it runs (usb_wired: its banner was seen).
Pause ==
  /\ stage = "settle" /\ process = "up" /\ ~paused
  /\ Issue("pause") /\ stage' = "pausing"
  /\ UNCHANGED <<process, paused, bridgeVars, runVars>>

\* wait_paused("True").
SeePaused ==
  /\ stage = "pausing" /\ process = "up" /\ paused
  /\ stage' = "terminals"
  /\ UNCHANGED <<process, machineVars, bridgeVars, runVars>>

ConnectTerminal ==
  /\ stage = "terminals" /\ process = "up" /\ clients < 2
  /\ clients' = clients + 1
  /\ UNCHANGED <<stage, process, machineVars, attached, runVars>>

AttachDualCdcAcmBridge ==
  /\ stage = "terminals" /\ process = "up" /\ clients = 2
  /\ attached' = TRUE
  /\ Issue("start") /\ stage' = "resuming"
  /\ UNCHANGED <<process, paused, clients, runVars>>

\* Mutant: the start is taken for done.
StartUnseen ==
  /\ stage = "resuming" /\ process = "up" /\ stage' = "wiring"
  /\ UNCHANGED <<process, machineVars, bridgeVars, runVars>>

\* wait_paused("False", reissue="start").
SeeRunning ==
  /\ stage = "resuming" /\ process = "up"
  /\ IF paused THEN Issue("start") /\ UNCHANGED stage
     ELSE stage' = "wiring" /\ UNCHANGED command
  /\ UNCHANGED <<process, paused, bridgeVars, runVars>>

\* The first CDC function is wired, its banner seen if there are two.
SeeWired ==
  /\ stage = "wiring" /\ process = "up" /\ ~paused
  /\ stage' = "body"
  /\ UNCHANGED <<process, machineVars, bridgeVars, runVars>>

\* A deadline passes: of wait_paused, of a connection, of the wiring, a banner.
AttachTimesOut ==
  \/ stage \in {"pausing", "resuming", "terminals"} /\ Raises("TimeoutError", TRUE)
  \/ stage = "wiring" /\ Raises("AssertionError", TRUE)
  \/ stage = "settle" /\ mode = "usb_wired" /\ Raises("AssertionError", TRUE)

\* The sockets break when Renode has died.
SocketBreaks ==
  /\ stage \in Booted /\ process = "dead"
  /\ Raises("OSError", TRUE)

EmulatorStep == CommandTakesEffect \/ RenodeDies
HarnessStep ==
  \/ Popen \/ MonitorComesUp \/ MonitorNeverUp \/ BootDone \/ BootFails
  \/ Pause \/ SeePaused \/ ConnectTerminal \/ AttachDualCdcAcmBridge
  \/ SeeRunning \/ SeeWired \/ AttachTimesOut \/ SocketBreaks

-----------------------------------------------------------------------------
\* Enumeration cannot start before both clients are connected, though the
\* monitor's commands return early: while the bridge is set up the emulation
\* stands still and no command is under way that would set it going.
BridgeSetUpFrozen ==
  /\ stage = "terminals" => paused /\ command = "none"
  /\ attached => clients = 2

\* The assertions of a USB mode run against a running emulation, on which no
\* pause is still under way: a start lost to a slow pause freezes none of them.
NeverFrozen ==
  stage \in {"wiring", "body", "relay"} /\ mode \in UsbModes
    => ~paused /\ command # "pause"

\* No retry boots an emulation beside one that was left behind, and one is only
\* left behind with a traceback, never by a run that reports a verdict.
OneEmulationAtATime ==
  /\ leaked + (IF process = "up" THEN 1 ELSE 0) <= 1
  /\ leaked > 0 => exit = "crash"
=============================================================================
