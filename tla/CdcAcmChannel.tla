---------------------------- MODULE CdcAcmChannel ----------------------------
(***************************************************************************)
(* Host-to-device data of a CDC channel (CdcAcmBridgeChannel in            *)
(* DualCdcAcmBridge.cs).  The thread of the channel's TCP client calls     *)
(* WriteChar; the CPU thread calls Wire once enumeration has found the     *)
(* endpoints.  Both decide what to do under innerLock and call the         *)
(* endpoint's WriteData only after releasing it.                           *)
(*                                                                         *)
(* A byte is its ordinal: the k-th byte the client writes to a channel is  *)
(* the number k.                                                           *)
(***************************************************************************)
EXTENDS CdcChannels

CONSTANT MaxHostBytes    (* bound: bytes the client writes to a channel    *)

ASSUME ChannelAssumption == MaxHostBytes \in Nat

VARIABLES
  wrote,            (* wrote[c]: bytes given to WriteChar so far           *)
  device,           (* device # null: the channel is wired                 *)
  pendingHostData,  (* bytes written before the channel was wired          *)
  charInHand,       (* WriteChar's byte between unlock and WriteData, or 0 *)
  flush,            (* Wire's local copy of the queue, until WriteData     *)
  endpointData      (* the bytes WriteData has been called with, in order  *)

channelVars ==
  <<wrote, device, pendingHostData, charInHand, flush, endpointData>>

ChannelTypeOK ==
  /\ wrote           \in [Channel -> Nat]
  /\ device          \in [Channel -> BOOLEAN]
  /\ pendingHostData \in [Channel -> Seq(Nat)]
  /\ charInHand      \in [Channel -> Nat]
  /\ flush           \in [Channel -> Seq(Nat)]
  /\ endpointData    \in [Channel -> Seq(Nat)]

ChannelInit ==
  /\ wrote           = [c \in Channel |-> 0]
  /\ device          = [c \in Channel |-> FALSE]
  /\ pendingHostData = [c \in Channel |-> << >>]
  /\ charInHand      = [c \in Channel |-> 0]
  /\ flush           = [c \in Channel |-> << >>]
  /\ endpointData    = [c \in Channel |-> << >>]

IsWired(c) == device[c]

\* WriteChar's critical section: queue the byte, or go on to write it.
WriteChar(c) ==
  /\ charInHand[c] = 0
  /\ wrote[c] < MaxHostBytes
  /\ wrote' = [wrote EXCEPT ![c] = @ + 1]
  /\ IF ~device[c]
     THEN /\ pendingHostData' =
               [pendingHostData EXCEPT ![c] = Append(@, wrote[c] + 1)]
          /\ UNCHANGED charInHand
     ELSE /\ charInHand' = [charInHand EXCEPT ![c] = wrote[c] + 1]
          /\ UNCHANGED pendingHostData
  /\ UNCHANGED <<device, flush, endpointData>>

\* WriteChar's WriteData call, after innerLock has been released.
WriteCharData(c) ==
  /\ charInHand[c] # 0
  /\ endpointData' = [endpointData EXCEPT ![c] = Append(@, charInHand[c])]
  /\ charInHand' = [charInHand EXCEPT ![c] = 0]
  /\ UNCHANGED <<wrote, device, pendingHostData, flush>>

\* Mutant: Wire forgets to empty the queue it has copied.
WireKeepingQueue(c) ==
  /\ ~device[c]
  /\ device' = [device EXCEPT ![c] = TRUE]
  /\ flush' = [flush EXCEPT ![c] = pendingHostData[c]]
  /\ UNCHANGED <<wrote, pendingHostData, charInHand, endpointData>>

\* Mutant: Wire empties the queue without keeping its contents.
WireForgettingQueue(c) ==
  /\ ~device[c]
  /\ device' = [device EXCEPT ![c] = TRUE]
  /\ pendingHostData' = [pendingHostData EXCEPT ![c] = << >>]
  /\ UNCHANGED <<wrote, flush, charInHand, endpointData>>

\* Wire's critical section: the channel is wired, the queue becomes the
\* thread's own.
Wire(c) ==
  /\ ~device[c]
  /\ device' = [device EXCEPT ![c] = TRUE]
  /\ flush' = [flush EXCEPT ![c] = pendingHostData[c]]
  /\ pendingHostData' = [pendingHostData EXCEPT ![c] = << >>]
  /\ UNCHANGED <<wrote, charInHand, endpointData>>

\* Wire's WriteData call, after innerLock has been released.
FlushPending(c) ==
  /\ flush[c] # << >>
  /\ endpointData' = [endpointData EXCEPT ![c] = @ \o flush[c]]
  /\ flush' = [flush EXCEPT ![c] = << >>]
  /\ UNCHANGED <<wrote, device, pendingHostData, charInHand>>

(***************************************************************************)
(* Properties                                                              *)
(***************************************************************************)

\* Everything the client wrote is in exactly one place, once: still queued, in
\* the hands of one of the two threads, or passed to the endpoint.  "Bytes
\* written before the channel is wired are queued and flushed on wiring."
HostBytesConserved ==
  \A c \in Channel :
    LET held == pendingHostData[c] \o flush[c] \o endpointData[c]
                  \o (IF charInHand[c] = 0 THEN << >> ELSE <<charInHand[c]>>)
    IN  /\ Len(held) = wrote[c]
        /\ {held[i] : i \in DOMAIN held} = 1..wrote[c]

\* A UART is a byte stream: the endpoint gets the client's bytes in the order
\* the client wrote them.
HostBytesInOrder ==
  \A c \in Channel :
    \A i, j \in DOMAIN endpointData[c] :
      i < j => endpointData[c][i] < endpointData[c][j]
=============================================================================
