-------------------------------- MODULE Smoke --------------------------------
(***************************************************************************)
(* The smoke tests from boot to verdict: a RenodeSession whose body is, by *)
(* the mode, the Studio RPC conversation (StudioRpcClient) or the hunt for *)
(* the encrypted chain (BleChain), on the emulation RenodeBoot has put     *)
(* together.  The emulated devices only move while it runs; every attempt  *)
(* starts with a fresh one.                                                *)
(***************************************************************************)
EXTENDS RenodeBoot, StudioRpcClient, BleChain

smokeVars == <<sessionVars, bootVars, rpcClientVars, chainVars>>

SmokeTypeOK == SessionTypeOK /\ BootTypeOK /\ RpcClientTypeOK /\ ChainTypeOK

SmokeInit ==
  /\ SessionInit /\ BootInit /\ RpcClientInit /\ ChainInit
  /\ split = (mode = "ble_split")

Running == process = "up" /\ ~paused
InBody(modes) == stage = "body" /\ mode \in modes

\* Whatever was seen in a failed attempt is gone in the next.
FreshBodies == FreshBoot /\ RpcClientReset /\ ChainReset
SameBodies == UNCHANGED <<bootVars, rpcClientVars, chainVars>>

Attempt ==
  /\ HarnessStep
  /\ CASE stage' \in {"done", "spawn"} -> FreshBodies
       [] stage = "boot" /\ stage' \in {"settle", "body"} ->
            BootReturns /\ UNCHANGED <<rpcClientVars, chainVars>>
       [] OTHER -> SameBodies

Boot == (BootStep \/ CarryOut) /\ UNCHANGED <<sessionVars, rpcClientVars, chainVars>>

Emulator == EmulatorStep /\ SameBodies

-----------------------------------------------------------------------------
(* The USB modes.                                                          *)

\* usb goes on to the burst, usb_wired to the relay.
AfterDeviceInfo == IF mode = "usb" THEN "list" ELSE "ok"

Converse ==
  /\ InBody(UsbModes)
  /\ ClientStep
  /\ phase = "info2" /\ phase' \in {"list", "ok"} => phase' = AfterDeviceInfo
  /\ UNCHANGED <<sessionVars, bootVars, chainVars>>

DeviceServes ==
  /\ InBody(UsbModes) /\ Running
  /\ Serve
  /\ UNCHANGED <<sessionVars, bootVars, chainVars>>

ConversationOver ==
  /\ InBody(UsbModes)
  /\ CASE phase = "failed"  -> Raises("AssertionError", TRUE) /\ FreshBodies
       [] phase = "crashed" -> Raises("DecodeError", TRUE) /\ FreshBodies
       [] phase = "ok" /\ mode = "usb" -> Returns /\ SameBodies
       [] phase = "ok" /\ mode = "usb_wired" ->
            /\ stage' = "relay" /\ SameBodies
            /\ UNCHANGED <<process, machineVars, bridgeVars, runVars>>
       [] OTHER -> FALSE

-----------------------------------------------------------------------------
(* The BLE modes.                                                          *)

Machines ==
  /\ InBody(BleModes) /\ Running /\ loop \in Undecided
  /\ EmulationStep
  /\ UNCHANGED <<sessionVars, bootVars, rpcClientVars>>

\* Asking for the time and raising the quantum take a monitor that answers.
Observe ==
  /\ InBody(BleModes)
  /\ LoopStep
  /\ process = "dead" => loop # "clock" /\ coarse' = coarse
  /\ UNCHANGED <<sessionVars, bootVars, rpcClientVars>>

ChainOver ==
  /\ InBody(BleModes)
  /\ CASE loop = "failed" -> Raises("AssertionError", TRUE) /\ FreshBodies
       [] loop = "ok"     -> Returns /\ SameBodies
       [] OTHER -> FALSE

-----------------------------------------------------------------------------
\* A key press relayed over the wired split link, or the liveness sampling:
\* what is asserted either shows in the consoles in time or does not.
OtherBody ==
  /\ InBody({"wired", "liveness"}) \/ stage = "relay"
  /\ \/ Running /\ Returns /\ SameBodies
     \/ Raises("AssertionError", TRUE) /\ FreshBodies

SmokeNext ==
  \/ Attempt \/ Boot \/ Emulator
  \/ Converse \/ DeviceServes \/ ConversationOver
  \/ Machines \/ Observe \/ ChainOver
  \/ OtherBody

\* The harness is a single thread that never waits without a deadline.  Each
\* of the deadlines it re-reads in a loop passes at last: the wall clock runs.
\* Renode completes the command it has begun, unless it dies.
HarnessMoves ==
  Attempt \/ Converse \/ ConversationOver \/ Observe \/ ChainOver \/ OtherBody
DeadlinePasses ==
  \/ AttachTimesOut /\ FreshBodies
  \/ Observe /\ look_at_clock /\ reason'

SmokeSpec ==
  /\ SmokeInit /\ [][SmokeNext]_smokeVars
  /\ WF_smokeVars(HarnessMoves) /\ SF_smokeVars(DeadlinePasses)
  /\ WF_smokeVars(CommandTakesEffect /\ SameBodies)

-----------------------------------------------------------------------------
\* Whatever the attempts before left behind, a started emulation is whole, and
\* every part of the test keeps its type.
BootInvariant == SmokeTypeOK /\ BootedWhole

\* SMOKE TEST OK is only printed with the mode's promise kept by the last
\* attempt: every answer was the answer to its request, or the host was
\* encrypted and read on one connection (and the halves encrypted), and this
\* on an emulation booted for this attempt alone.
OkIsEarned ==
  exit = "ok" =>
    /\ mode \in UsbModes =>
         \A r \in {"info1", "info2"} : accepted[r] = Reply(r)
    /\ mode \in BleModes => PassedChainIsWhole /\ loop = "ok"
    /\ process = "none" /\ leaked = 0

\* Every run comes to an end, with a verdict or a traceback.
RunEnds == <>(stage = "done")
=============================================================================
