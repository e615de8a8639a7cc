------------------------------ MODULE BleChain -------------------------------
(***************************************************************************)
(* The encrypted chain the Renode BLE smoke tests look for, and the loop   *)
(* that looks for it: run_ble_studio_smoke (one keyboard, one host) and    *)
(* _run_ble_split_attempt (two halves that pair with each other, and the   *)
(* host).  The loop drains the halves' and the host's consoles in turns,   *)
(* while the emulation runs on, and decides by the markers it has read.    *)
(*                                                                         *)
(* External: the split link, whose pairing fails or succeeds in any order  *)
(* with the host's (the two cross on the emulated medium), and the clocks, *)
(* which may run out at any check.  Once the time-sync quantum is coarse,  *)
(* no connection and no pairing completes any more.  Failures on the split *)
(* link are left out of its log: the loop only counts them for its report. *)
(***************************************************************************)
EXTENDS RenodeBleHost

CONSTANTS MaxPairingFailures, (* bound: pairings that fail, on both links  *)
          SteadyQuantum       (* --steady-quantum is given                 *)

ASSUME ChainAssumption == MaxPairingFailures \in Nat /\ SteadyQuantum \in BOOLEAN

VARIABLES
  split,           (* the test is the three-machine one                    *)
  splitPaired,     (* the split link is encrypted                          *)
  pairingFailures,
  coarse,          (* steady_raised: the quantum has been raised           *)
  loop,            (* the loop: "rtt", "host", "judge", "clock", "drain",  *)
                   (* "verdict", "ok" or "failed"                          *)
  rtt_buf,         (* "L2": the peripheral's log, as read, shows level 2   *)
  host_buf,        (* the markers in the host's console, as read           *)
  split_l2_at,     (* the loop has seen the split link encrypted           *)
  reason,          (* a reason to fail has been noted                      *)
  order            (* history: the halves' pairing and the host's reads    *)

linkVars == <<hostVars, splitPaired, pairingFailures, order>>
loopVars == <<split, coarse, loop, rtt_buf, host_buf, split_l2_at, reason>>
chainVars == <<linkVars, loopVars>>

Undecided == {"rtt", "host", "judge", "clock", "drain", "verdict"}

ChainTypeOK ==
  /\ HostTypeOK
  /\ split \in BOOLEAN /\ splitPaired \in BOOLEAN
  /\ pairingFailures \in 0..MaxPairingFailures
  /\ coarse \in BOOLEAN
  /\ loop \in Undecided \cup {"ok", "failed"}
  /\ rtt_buf \subseteq {"L2"} /\ host_buf \subseteq Markers
  /\ split_l2_at \in BOOLEAN /\ reason \in BOOLEAN
  /\ order \in Seq({"split", "read"})

FirstLook(three) == IF three THEN "rtt" ELSE "host"

ChainInit ==
  /\ HostInit
  /\ split \in BOOLEAN /\ splitPaired = FALSE
  /\ pairingFailures = 0 /\ coarse = FALSE
  /\ loop = FirstLook(split)
  /\ rtt_buf = {} /\ host_buf = {} /\ split_l2_at = FALSE /\ reason = FALSE
  /\ order = << >>

\* A fresh emulation and a fresh attempt at the same test.
ChainReset ==
  /\ HostReset
  /\ UNCHANGED split /\ splitPaired' = FALSE
  /\ pairingFailures' = 0 /\ coarse' = FALSE
  /\ loop' = FirstLook(split)
  /\ rtt_buf' = {} /\ host_buf' = {} /\ split_l2_at' = FALSE /\ reason' = FALSE
  /\ order' = << >>

-----------------------------------------------------------------------------
(* The emulated machines.                                                  *)

PairingFails ==
  pairingFailures < MaxPairingFailures /\ pairingFailures' = pairingFailures + 1

\* The halves pair, or fail to and try again later.
SplitPairing ==
  /\ split /\ ~splitPaired
  /\ \/ /\ ~coarse /\ splitPaired' = TRUE
        /\ order' = Append(order, "split")
        /\ UNCHANGED pairingFailures
     \/ /\ PairingFails
        /\ UNCHANGED <<splitPaired, order>>
  /\ UNCHANGED hostVars

HostPairing ==
  /\ \/ ~coarse /\ security_changed(TRUE) /\ UNCHANGED pairingFailures
     \/ PairingFails /\ security_changed(FALSE)
  /\ UNCHANGED <<splitPaired, order>>

HostReadEnds ==
  /\ gatt_read_cb
  /\ order' = IF Last(console') = "S5 OK" THEN Append(order, "read") ELSE order
  /\ UNCHANGED <<splitPaired, pairingFailures>>

HostStep ==
  /\ \/ main \/ connected \/ PeerRequestsSecurity \/ disconnected
     \/ ~coarse /\ device_found
  /\ UNCHANGED <<splitPaired, pairingFailures, order>>

EmulationStep ==
  /\ SplitPairing \/ HostPairing \/ HostReadEnds \/ HostStep
  /\ UNCHANGED loopVars

-----------------------------------------------------------------------------
(* The loop.                                                               *)

PeripheralLog == IF splitPaired THEN {"L2"} ELSE {}
BLE_SECURITY_OK == "S4 OK" \in host_buf
BLE_GATT_READ_OK == "S5 OK" \in host_buf
BLE_FAIL_MARKERS == "S5 FAIL" \in host_buf \/ "S3 FAIL" \in host_buf

drain_rtt ==
  /\ loop = "rtt" /\ loop' = "host"
  /\ rtt_buf' = PeripheralLog
  /\ UNCHANGED <<split, coarse, host_buf, split_l2_at, reason>>

drain_host ==
  /\ loop = "host" /\ loop' = "judge"
  /\ host_buf' = ToSet(console)
  /\ UNCHANGED <<split, coarse, rtt_buf, split_l2_at, reason>>

\* Mutant: the split link is not waited for.
ReachedHalfWay(splitSeen) == BLE_SECURITY_OK /\ BLE_GATT_READ_OK

\* Everything the test waits for has been seen.
Reached(splitSeen) ==
  BLE_SECURITY_OK /\ BLE_GATT_READ_OK /\ (split => splitSeen)

\* Mutant: the quantum is raised as soon as one link is up.
RaiseEarly(splitSeen) == SteadyQuantum /\ ~coarse /\ (BLE_SECURITY_OK \/ splitSeen)

\* raise_global_quantum, once the links have been reported encrypted.
Raise(splitSeen) ==
  SteadyQuantum /\ ~coarse /\ BLE_SECURITY_OK /\ (split => splitSeen)

\* A failure marker only ends the two-machine test.
judge ==
  /\ loop = "judge"
  /\ split_l2_at' = (split_l2_at \/ (split /\ "L2" \in rtt_buf))
  /\ coarse' = (coarse \/ Raise(split_l2_at'))
  /\ reason' = (~Reached(split_l2_at') /\ ~split /\ BLE_FAIL_MARKERS)
  /\ loop' = IF Reached(split_l2_at') \/ reason' THEN "drain" ELSE "clock"
  /\ UNCHANGED <<split, rtt_buf, host_buf>>

\* Mutant: only what is read ends the loop.
LookForever ==
  /\ loop = "clock" /\ loop' = FirstLook(split)
  /\ UNCHANGED <<reason, split, coarse, rtt_buf, host_buf, split_l2_at>>

\* The virtual and the wall clock: out of budget, or once more round.
look_at_clock ==
  /\ loop = "clock"
  /\ \/ reason' = TRUE /\ loop' = "drain"
     \/ UNCHANGED reason /\ loop' = FirstLook(split)
  /\ UNCHANGED <<split, coarse, rtt_buf, host_buf, split_l2_at>>

final_drain ==
  /\ loop = "drain" /\ loop' = "verdict"
  /\ rtt_buf' = IF split THEN PeripheralLog ELSE rtt_buf
  /\ host_buf' = ToSet(console)
  /\ UNCHANGED <<split, coarse, split_l2_at, reason>>

\* What arrives in the final drain does not undo a reason to fail, nor does it
\* count as the split link seen.  Trimmed radio frames fail the split test only.
verdict ==
  /\ loop = "verdict"
  /\ loop' \in IF ~reason /\ Reached(split_l2_at)
               THEN IF split THEN {"ok", "failed"} ELSE {"ok"}
               ELSE {"failed"}
  /\ UNCHANGED <<split, coarse, rtt_buf, host_buf, split_l2_at, reason>>

LoopStep ==
  /\ drain_rtt \/ drain_host \/ judge \/ look_at_clock \/ final_drain \/ verdict
  /\ UNCHANGED linkVars

ChainNext == (loop \in Undecided /\ EmulationStep) \/ LoopStep
ChainSpec == ChainInit /\ [][ChainNext]_chainVars

-----------------------------------------------------------------------------
\* A passed test has the whole chain behind it: the host was encrypted and then
\* read on one connection, and with three machines the halves were encrypted too
\* -- whatever failed and was retried before, and whatever was read when.
PassedChainIsWhole ==
  loop = "ok" =>
    /\ \E i, j \in DOMAIN console :
         console[i] = "S4 OK" /\ console[j] = "S5 OK" /\ SameConnection(i, j)
    /\ split => splitPaired

\* The quantum, which nothing pairs under once it is coarse, is never raised
\* while a link of the test has yet to pair for the first time.
CoarseOnlyAfterPairing ==
  coarse => Contains(console, "S4 OK") /\ (split => splitPaired)

\* The encrypted chain step by step, whatever is retried: one read per connection,
\* only once that connection is encrypted, and a coarse quantum only after every
\* link of the test has paired.
ChainInvariant == ChainTypeOK /\ ReadsAreEncrypted /\ CoarseOnlyAfterPairing

\* renode_smoke.py: "assert the full peripheral -> central -> host encrypted
\* chain, IN ORDER".
ChainInOrder == loop = "ok" /\ split => order[1] = "split"
=============================================================================
