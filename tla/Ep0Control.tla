----------------------------- MODULE Ep0Control ------------------------------
(***************************************************************************)
(* Control transfers on endpoint 0 of the emulated controller              *)
(* (NRF_USBD_Full.cs).  The controller latches one SETUP packet and its    *)
(* completion callback; the guest reads the packet, moves the data stage   *)
(* through TASKS_STARTEPIN0 (device to host) or TASKS_EP0RCVOUT and        *)
(* TASKS_STARTEPOUT0 (host to device), and ends the transfer with          *)
(* TASKS_EP0STATUS or TASKS_EP0STALL.  What the host does when a transfer  *)
(* completes is the other module's business (CdcBridge): here HandleEp0-   *)
(* Status only gives the callback up.                                      *)
(*                                                                         *)
(* A request <<kind, c>> is one transfer of the host; c is the channel it  *)
(* is about, 0 when none.  The guest's driver is an external, modelled from*)
(* the registers it uses.                                                  *)
(***************************************************************************)
EXTENDS Naturals, Sequences

CONSTANTS Request,        (* the control requests a host may issue         *)
          NoRequest,      (* no SETUP packet latched, no callback pending  *)
          MaxPacket,      (* maximumPacketSize                             *)
          PayloadLength,  (* PayloadLength[r]: bytes of r's OUT data stage *)
          ResponseChunks, (* ResponseChunks[r]: IN packets of r's answer   *)
          MaxStalls       (* bound: how often the guest refuses a request  *)

ASSUME Ep0Assumption ==
  /\ NoRequest \notin Request
  /\ MaxPacket \in Nat \ {0}
  /\ PayloadLength \in [Request -> Nat]
  /\ ResponseChunks \in [Request -> Nat]
  /\ MaxStalls \in Nat

VARIABLES
  setupPacket,              (* the latched SETUP packet                    *)
  setupPacketResultCallback,(* the request whose completion is awaited     *)
  ep0SetupPayloadOffset,    (* OUT payload already moved to the guest      *)
  ep0InAccumulator,         (* IN packets so far, each as its request      *)
  sizeEpOut0,               (* SIZE.EPOUT[0]                               *)
  ep0Setup,                 (* EVENTS_EP0SETUP                             *)
  guestControl,             (* the guest's control transfer, see below     *)
  guestRequest,             (* the request the guest is serving            *)
  guestMoved,               (* packets (IN) or bytes (OUT) it has moved    *)
  stalls                    (* how often it has stalled                    *)

ep0Vars == <<setupPacket, setupPacketResultCallback, ep0SetupPayloadOffset,
             ep0InAccumulator, sizeEpOut0, ep0Setup, guestControl,
             guestRequest, guestMoved, stalls>>

controllerVars == <<setupPacket, setupPacketResultCallback,
                    ep0SetupPayloadOffset, ep0InAccumulator, sizeEpOut0, ep0Setup>>
guestVars == <<guestControl, guestRequest, guestMoved, stalls>>

Lesser(a, b) == IF a < b THEN a ELSE b

Ep0TypeOK ==
  /\ setupPacket               \in Request \cup {NoRequest}
  /\ setupPacketResultCallback \in Request \cup {NoRequest}
  /\ ep0SetupPayloadOffset     \in Nat
  /\ ep0InAccumulator          \in Seq(Request)
  /\ sizeEpOut0                \in 0..MaxPacket
  /\ ep0Setup                  \in BOOLEAN
  /\ guestControl              \in {"idle", "data", "receive"}
  /\ guestRequest              \in Request \cup {NoRequest}
  /\ guestMoved                \in Nat
  /\ stalls                    \in 0..MaxStalls

Ep0Init ==
  /\ setupPacket = NoRequest
  /\ setupPacketResultCallback = NoRequest
  /\ ep0SetupPayloadOffset = 0
  /\ ep0InAccumulator = << >>
  /\ sizeEpOut0 = 0
  /\ ep0Setup = FALSE
  /\ guestControl = "idle"
  /\ guestRequest = NoRequest
  /\ guestMoved = 0
  /\ stalls = 0

\* Mutant: a SETUP packet that arrives while a callback is pending does not
\* replace that callback.
LatchKeepingCallback(r) ==
  /\ setupPacket' = r
  /\ setupPacketResultCallback' =
       IF setupPacketResultCallback = NoRequest THEN r ELSE setupPacketResultCallback
  /\ ep0SetupPayloadOffset' = 0
  /\ ep0InAccumulator' = << >>
  /\ sizeEpOut0' = 0
  /\ ep0Setup' = TRUE

\* HandleSetupPacket for everything but SET_ADDRESS: latch packet, callback and
\* payload over whatever was latched before, and raise EP0SETUP.
HandleSetupPacket(r) ==
  /\ setupPacket' = r
  /\ setupPacketResultCallback' = r
  /\ ep0SetupPayloadOffset' = 0
  /\ ep0InAccumulator' = << >>
  /\ sizeEpOut0' = 0
  /\ ep0Setup' = TRUE

\* The host-to-device payload not yet served.
PayloadLeft ==
  IF setupPacket = NoRequest THEN 0
  ELSE PayloadLength[setupPacket] - ep0SetupPayloadOffset

(***************************************************************************)
(* The guest's side of a transfer, one register access after the other     *)
(***************************************************************************)

\* EP0SETUP: clear the event and read the latched packet's registers.
GuestReadSetup ==
  /\ ep0Setup
  /\ guestControl = "idle"
  /\ ep0Setup' = FALSE
  /\ guestControl' = "data"
  /\ guestRequest' = setupPacket
  /\ guestMoved' = 0
  /\ UNCHANGED <<setupPacket, setupPacketResultCallback, ep0SetupPayloadOffset,
                 ep0InAccumulator, sizeEpOut0, stalls>>

\* TASKS_STARTEPIN0: GetData(0) adds the packet to the accumulator.
GetControlData ==
  /\ guestControl = "data"
  /\ guestMoved < ResponseChunks[guestRequest]
  /\ ep0InAccumulator' = Append(ep0InAccumulator, guestRequest)
  /\ guestMoved' = guestMoved + 1
  /\ UNCHANGED <<setupPacket, setupPacketResultCallback, ep0SetupPayloadOffset,
                 sizeEpOut0, ep0Setup, guestControl, guestRequest, stalls>>

\* TASKS_EP0RCVOUT: the next packet of the payload is there to be fetched.
HandleEp0RcvOut ==
  /\ guestControl = "data"
  /\ guestMoved < PayloadLength[guestRequest]
  /\ PayloadLeft > 0
  /\ sizeEpOut0' = Lesser(MaxPacket, PayloadLeft)
  /\ guestControl' = "receive"
  /\ UNCHANGED <<setupPacket, setupPacketResultCallback, ep0SetupPayloadOffset,
                 ep0InAccumulator, ep0Setup, guestRequest, guestMoved, stalls>>

\* TASKS_STARTEPOUT0 with MAXCNT = SIZE.EPOUT[0]: the packet goes to guest RAM.
StartEpOut0 ==
  LET chunk == Lesser(Lesser(MaxPacket, PayloadLeft), sizeEpOut0) IN
  /\ guestControl = "receive"
  /\ PayloadLeft > 0
  /\ ep0SetupPayloadOffset' = ep0SetupPayloadOffset + chunk
  /\ guestMoved' = guestMoved + chunk
  /\ guestControl' = "data"
  /\ UNCHANGED <<setupPacket, setupPacketResultCallback, ep0InAccumulator,
                 sizeEpOut0, ep0Setup, guestRequest, stalls>>

DataStageDone ==
  /\ guestControl = "data"
  /\ guestMoved = ResponseChunks[guestRequest] + PayloadLength[guestRequest]

\* TASKS_EP0STALL: the guest refuses the request; the callback is dropped.
HandleEp0Stall ==
  /\ guestControl = "data"
  /\ guestMoved = 0
  /\ stalls < MaxStalls
  /\ setupPacketResultCallback' = NoRequest
  /\ stalls' = stalls + 1
  /\ guestControl' = "idle"
  /\ UNCHANGED <<setupPacket, ep0SetupPayloadOffset, ep0InAccumulator, sizeEpOut0,
                 ep0Setup, guestRequest, guestMoved>>

\* TASKS_EP0STATUS: the pending callback is taken and set to null, then invoked
\* with the accumulated answer.  The guest is in this register write until the
\* callback returns.  (Without a pending callback the code only warns; a guest
\* that serves the latched packet never gets there.)
CallbackInvoked ==
  /\ DataStageDone
  /\ setupPacketResultCallback # NoRequest
  /\ guestControl' = "idle"
  /\ UNCHANGED <<guestRequest, guestMoved, stalls>>

\* The controller after a callback that issues no request of its own.
CallbackReturns ==
  /\ setupPacketResultCallback' = NoRequest
  /\ ep0InAccumulator' = << >>
  /\ UNCHANGED <<setupPacket, ep0SetupPayloadOffset, sizeEpOut0, ep0Setup>>

\* Mutant: the callback is set to null after it has returned.
CallbackClobbers(r) ==
  /\ setupPacket' = r
  /\ setupPacketResultCallback' = NoRequest
  /\ ep0SetupPayloadOffset' = 0
  /\ ep0InAccumulator' = << >>
  /\ sizeEpOut0' = 0
  /\ ep0Setup' = TRUE

\* The controller after a callback that issues the request r: since the field
\* was cleared before the invocation, r's callback stays latched.
CallbackIssues(r) == HandleSetupPacket(r)

\* A step of the transfer that leaves the pending callback alone.
GuestDataStep ==
  \/ GuestReadSetup
  \/ GetControlData
  \/ HandleEp0RcvOut
  \/ StartEpOut0
=============================================================================
