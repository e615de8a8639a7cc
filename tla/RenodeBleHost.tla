---------------------------- MODULE RenodeBleHost ----------------------------
(***************************************************************************)
(* renode-ble-host: the simulated computer of the Renode BLE tests.  It    *)
(* scans for the keyboard, connects, asks for encryption and reads the     *)
(* Studio RPC characteristic once per connection, and prints a STAGE       *)
(* marker at each step, which is all the test harness sees of it.          *)
(*                                                                         *)
(* An action is one callback of the Zephyr host stack, which may refuse a  *)
(* call.  External: the stack, the keyboard, and the emulated radio, on    *)
(* which a pairing may fail and a link may drop.                           *)
(***************************************************************************)
EXTENDS Naturals, Sequences, SequencesExt

CONSTANTS MaxHostFaults,    (* bound: callbacks in which a call fails      *)
          MaxHostDrops,     (* bound: links that drop                      *)
          MaxPeerRequests   (* bound: the keyboard asks for security again *)

ASSUME HostAssumption ==
  MaxHostFaults \in Nat /\ MaxHostDrops \in Nat /\ MaxPeerRequests \in Nat

VARIABLES
  up,              (* bt_enable has succeeded                              *)
  scanning,        (* bt_le_scan_start is in effect                        *)
  default_conn,    (* "none", "created", "plain" or "secured"              *)
  pairing,         (* bt_conn_set_security asked, no security_changed yet  *)
  tried_read,
  gattRead,        (* bt_gatt_read asked, no gatt_read_cb yet              *)
  console,         (* the STAGE markers the tests look for, in order       *)
  hostFaults, hostDrops, peerRequests

hostVars == <<up, scanning, default_conn, pairing, tried_read, gattRead, console,
              hostFaults, hostDrops, peerRequests>>

Markers == {"S3 FAIL", "S4 OK", "S5 OK", "S5 FAIL", "DISCONNECT"}

HostTypeOK ==
  /\ up \in BOOLEAN /\ scanning \in BOOLEAN /\ pairing \in BOOLEAN
  /\ default_conn \in {"none", "created", "plain", "secured"}
  /\ tried_read \in BOOLEAN /\ gattRead \in BOOLEAN
  /\ console \in Seq(Markers)
  /\ hostFaults \in 0..MaxHostFaults /\ hostDrops \in 0..MaxHostDrops
  /\ peerRequests \in 0..MaxPeerRequests

HostInit ==
  /\ up = FALSE /\ scanning = FALSE /\ default_conn = "none" /\ pairing = FALSE
  /\ tried_read = FALSE /\ gattRead = FALSE /\ console = << >>
  /\ hostFaults = 0 /\ hostDrops = 0 /\ peerRequests = 0

\* The machine is created anew.
HostReset ==
  /\ up' = FALSE /\ scanning' = FALSE /\ default_conn' = "none" /\ pairing' = FALSE
  /\ tried_read' = FALSE /\ gattRead' = FALSE /\ console' = << >>
  /\ hostFaults' = 0 /\ hostDrops' = 0 /\ peerRequests' = 0

Goes == UNCHANGED hostFaults
Fails == hostFaults < MaxHostFaults /\ hostFaults' = hostFaults + 1

\* A refused scan is printed and nothing else.
start_scan ==
  \/ Goes /\ scanning' = TRUE
  \/ Fails /\ UNCHANGED scanning

\* After bt_enable.  (If bt_enable fails, main returns and nothing follows.)
main ==
  /\ ~up /\ up' = TRUE
  /\ start_scan
  /\ UNCHANGED <<default_conn, pairing, tried_read, gattRead, console, hostDrops, peerRequests>>

\* An advertisement of the keyboard.  Other advertisers change nothing.
device_found ==
  /\ scanning /\ default_conn = "none"
  /\ \/ Goes /\ scanning' = FALSE /\ default_conn' = "created"
     \/ /\ Fails /\ UNCHANGED default_conn
        /\ scanning' \in BOOLEAN  \* FALSE: the creation and then the new scan failed
  /\ UNCHANGED <<up, pairing, tried_read, gattRead, console, hostDrops, peerRequests>>

\* A refused bt_conn_set_security is printed, and the connection stays.
connected ==
  /\ default_conn = "created"
  /\ \/ /\ default_conn' = "plain" /\ UNCHANGED scanning
        /\ \/ Goes /\ pairing' = TRUE
           \/ Fails /\ UNCHANGED pairing
     \/ /\ default_conn' = "none" /\ UNCHANGED pairing
        /\ Fails /\ scanning' \in BOOLEAN  \* FALSE: the new scan failed as well
  /\ UNCHANGED <<up, tried_read, gattRead, console, hostDrops, peerRequests>>

\* Mutant: the read is not remembered.
ReadEveryTime ==
  \/ Goes /\ gattRead' = TRUE /\ UNCHANGED tried_read
     /\ console' = Append(console, "S4 OK")
  \/ Fails /\ UNCHANGED <<gattRead, tried_read>>
     /\ console' = console \o <<"S4 OK", "S5 FAIL">>

\* One encrypted read per connection, tried once.
do_encrypted_read ==
  IF tried_read
  THEN Goes /\ console' = Append(console, "S4 OK") /\ UNCHANGED <<tried_read, gattRead>>
  ELSE /\ tried_read' = TRUE
       /\ \/ Goes /\ gattRead' = TRUE /\ console' = Append(console, "S4 OK")
          \/ Fails /\ console' = console \o <<"S4 OK", "S5 FAIL">> /\ UNCHANGED gattRead

\* The stack reports success only of an encrypted link, BT_SECURITY_L2 or more.
SecurityGranted ==
  /\ default_conn' = "secured"
  /\ do_encrypted_read

\* A failed pairing is printed; the host neither disconnects nor asks again.
SecurityFailed ==
  /\ console' = Append(console, "S3 FAIL")
  /\ UNCHANGED <<default_conn, tried_read, gattRead, hostFaults>>

security_changed(granted) ==
  /\ pairing /\ pairing' = FALSE
  /\ IF granted THEN SecurityGranted ELSE SecurityFailed
  /\ UNCHANGED <<up, scanning, hostDrops, peerRequests>>

\* The keyboard's security request starts the procedure once more.
PeerRequestsSecurity ==
  /\ default_conn \in {"plain", "secured"} /\ ~pairing
  /\ peerRequests < MaxPeerRequests /\ peerRequests' = peerRequests + 1
  /\ pairing' = TRUE
  /\ UNCHANGED <<up, scanning, default_conn, tried_read, gattRead, console, hostFaults,
                 hostDrops>>

gatt_read_cb ==
  /\ gattRead /\ gattRead' = FALSE
  /\ \/ Goes /\ console' = Append(console, "S5 OK")
     \/ Fails /\ console' = Append(console, "S5 FAIL")
  /\ UNCHANGED <<up, scanning, default_conn, pairing, tried_read, hostDrops, peerRequests>>

\* The link drops.  The stack ends a pending read with an error first, and a
\* pending pairing without a word.  The next connection may read again.
disconnected ==
  /\ default_conn \in {"plain", "secured"}
  /\ hostDrops < MaxHostDrops /\ hostDrops' = hostDrops + 1
  /\ default_conn' = "none" /\ pairing' = FALSE /\ gattRead' = FALSE
  /\ tried_read' = FALSE
  /\ console' = console \o (IF gattRead THEN <<"S5 FAIL">> ELSE << >>) \o <<"DISCONNECT">>
  /\ start_scan
  /\ UNCHANGED <<up, peerRequests>>

-----------------------------------------------------------------------------
\* The markers since the last disconnection before position i.
SameConnection(j, i) ==
  j < i /\ \A k \in j..i : console[k] # "DISCONNECT"

\* A read is only ever reported on a link that was reported encrypted before,
\* on the same connection, and only once per connection: what lets the tests
\* look for the two markers anywhere in the console.
ReadsAreEncrypted ==
  \A i \in DOMAIN console : console[i] \in {"S5 OK", "S5 FAIL"} =>
    /\ \E j \in DOMAIN console : SameConnection(j, i) /\ console[j] = "S4 OK"
    /\ \A j \in DOMAIN console :
         SameConnection(j, i) => console[j] \notin {"S5 OK", "S5 FAIL"}
=============================================================================
