----------------------------- MODULE StudioHost ------------------------------
(***************************************************************************)
(* ble-studio-host: the simulated computer that talks ZMK Studio RPC to a  *)
(* keyboard over BLE.  It scans, connects, encrypts, exchanges the MTU,    *)
(* discovers the RPC characteristic step by step, subscribes, and then     *)
(* writes the case's requests, the next one whenever a frame has been      *)
(* decoded from the keyboard's indications.                                *)
(*                                                                         *)
(* Each action is one callback of the Zephyr host stack.  The stack and    *)
(* the keyboard are external: the stack may refuse a call, the keyboard    *)
(* may answer late, notify unasked, split a frame over indications at any  *)
(* byte, or drop the link at any moment; a subscription may survive the    *)
(* disconnection (bonded peer) or not.                                     *)
(*                                                                         *)
(* The decoder and the request counters are statics: a disconnection does  *)
(* not reset them.                                                         *)
(***************************************************************************)
EXTENDS StudioFraming

CONSTANTS Response,    (* Response[i]: the payload that answers request i  *)
          Notification,(* the payload the keyboard sends unasked           *)
          FrameBuf,    (* sizeof(frame_buf)                                *)
          MaxIndication,    (* bound: bytes in one indication              *)
          MaxNotifications, (* bound: notifications                        *)
          MaxDisconnects,   (* bound: disconnections                       *)
          MaxFaults         (* bound: calls the stack refuses, errors,     *)
                            (* security changed unasked                    *)

STUDIO_REQUESTS_COUNT == Len(Response)
Request == 1..STUDIO_REQUESTS_COUNT

\* The answer to a request is never what a notification looks like.
ASSUME StudioAssumption ==
  /\ Response \in Seq(Seq(Byte)) /\ Notification \in Seq(Byte)
  /\ \A i \in Request : Response[i] # Notification
  /\ FrameBuf \in Nat /\ MaxIndication \in Nat /\ MaxNotifications \in Nat
  /\ MaxDisconnects \in Nat /\ MaxFaults \in Nat

VARIABLES
  running,         (* main has not returned early and exit was not called  *)
  scanning,        (* bt_le_scan_start is in effect                        *)
  default_conn,    (* the connection: "none", "created", "plain", "secured"*)
  awaiting,        (* the answer of the stack the host waits for, if any   *)
  value_handle,    (* rpc_value_handle is set                              *)
  subscribed,      (* indications reach indicate_func                      *)
  requests_sent,
  responses_received,
  decoder,         (* in_frame, escaped, frame_buf[0..frame_len-1]         *)
  announced,       (* "[ALL RESPONSES RECEIVED]" has been logged           *)
  att,             (* the host's queued ATT writes: 0 the CCC, i request i *)
  kb_subscribed,   (* keyboard: the CCC asks for indications               *)
  asked,           (* keyboard: requests it has yet to answer              *)
  wire,            (* keyboard: bytes it has yet to indicate               *)
  faults, notifications, disconnects,   (* how often each has happened     *)
  subscriptions,   (* history: how often the host has subscribed           *)
  taken,           (* history: the requests the keyboard took, in order    *)
  due,             (* history: payloads put on the wire, not yet handled   *)
  answered,        (* history: handled payloads that were responses        *)
  misread,         (* history: a handled payload was not the one due       *)
  cutInEscape      (* history: a link dropped between ESC and its byte     *)

linkVars == <<running, scanning, default_conn, awaiting>>
rpcVars == <<requests_sent, responses_received, decoder, announced>>
kbVars == <<kb_subscribed, asked, wire>>
countVars == <<faults, notifications, disconnects>>
histVars == <<taken, due, answered, misread>>
vars == <<linkVars, value_handle, subscribed, rpcVars, att, kbVars, countVars,
          subscriptions, histVars, cutInEscape>>

TypeOK ==
  /\ running \in BOOLEAN /\ scanning \in BOOLEAN
  /\ default_conn \in {"none", "created", "plain", "secured"}
  /\ awaiting \in {"boot", "nothing", "security", "mtu", "service", "characteristic", "ccc"}
  /\ value_handle \in BOOLEAN /\ subscribed \in BOOLEAN
  /\ requests_sent \in 0..STUDIO_REQUESTS_COUNT
  /\ responses_received \in Nat
  /\ decoder \in Decoder
  /\ announced \in BOOLEAN
  /\ att \in Seq({0} \cup Request)
  /\ kb_subscribed \in BOOLEAN
  /\ asked \in Seq(Request) /\ wire \in Seq(Byte)
  /\ faults \in 0..MaxFaults
  /\ notifications \in 0..MaxNotifications
  /\ disconnects \in 0..MaxDisconnects
  /\ subscriptions \in Nat
  /\ taken \in Seq(Request)
  /\ due \in Seq(Seq(Byte))
  /\ answered \in Nat
  /\ misread \in BOOLEAN /\ cutInEscape \in BOOLEAN

-----------------------------------------------------------------------------
(* A call into the stack either succeeds or, as long as the bound allows,  *)
(* is refused.                                                             *)

Accepted == UNCHANGED faults
Refused == faults < MaxFaults /\ faults' = faults + 1

\* start_scan: a refusal is logged and nothing else.
start_scan ==
  \/ Accepted /\ scanning' = TRUE
  \/ Refused /\ UNCHANGED scanning

Init ==
  /\ running = TRUE /\ scanning = FALSE
  /\ default_conn = "none" /\ awaiting = "boot"
  /\ value_handle = FALSE /\ subscribed = FALSE
  /\ requests_sent = 0 /\ responses_received = 0
  /\ decoder = FreshDecoder /\ announced = FALSE
  /\ att = << >>
  /\ kb_subscribed = FALSE /\ asked = << >> /\ wire = << >>
  /\ faults = 0 /\ notifications = 0 /\ disconnects = 0
  /\ subscriptions = 0 /\ taken = << >> /\ due = << >>
  /\ answered = 0 /\ misread = FALSE /\ cutInEscape = FALSE

-----------------------------------------------------------------------------
(* Looking for the keyboard.                                               *)

main ==
  /\ running /\ awaiting = "boot"
  /\ awaiting' = "nothing"
  /\ \/ start_scan /\ UNCHANGED running
     \/ Refused /\ running' = FALSE /\ UNCHANGED scanning    \* bt_enable
  /\ UNCHANGED <<default_conn, value_handle, subscribed, rpcVars, att, kbVars,
                 notifications, disconnects, subscriptions, histVars, cutInEscape>>

\* A connectable advertisement with the HID service: the scan stops and the
\* connection is created.  If the stop is refused, or the creation is and the
\* scan restarts, the host keeps scanning; if the restart is refused too, it
\* does nothing any more.
device_found ==
  /\ running /\ scanning
  /\ \/ Accepted /\ scanning' = FALSE /\ default_conn' = "created"
     \/ Refused /\ UNCHANGED <<scanning, default_conn>>
     \/ /\ faults + 2 <= MaxFaults /\ faults' = faults + 2
        /\ scanning' = FALSE /\ UNCHANGED default_conn
  /\ UNCHANGED <<running, awaiting, value_handle, subscribed, rpcVars, att, kbVars,
                 notifications, disconnects, subscriptions, histVars, cutInEscape>>

\* The connection attempt succeeds, and the host asks for encryption, or it
\* fails and the host scans again.  A refused bt_conn_set_security is not looked at.
connected ==
  /\ running /\ default_conn = "created"
  /\ \/ /\ default_conn' = "plain" /\ UNCHANGED scanning
        /\ \/ Accepted /\ awaiting' = "security"
           \/ Refused /\ UNCHANGED awaiting
     \/ /\ default_conn' = "none" /\ UNCHANGED awaiting
        /\ Refused /\ scanning' = TRUE
     \/ /\ default_conn' = "none" /\ UNCHANGED awaiting
        /\ faults + 2 <= MaxFaults /\ faults' = faults + 2 /\ UNCHANGED scanning
  /\ UNCHANGED <<running, value_handle, subscribed, rpcVars, att, kbVars,
                 notifications, disconnects, subscriptions, histVars, cutInEscape>>

-----------------------------------------------------------------------------
(* Setting the connection up.  `awaiting' is the one answer outstanding.   *)

\* bt_gatt_discover for the next attribute.
discover(what) ==
  \/ Accepted /\ awaiting' = what
  \/ Refused /\ awaiting' = "nothing"

\* A failed pairing ends the program.  For a subscription that has survived, the
\* stack writes the CCC again (its automatic resubscription).
security_changed ==
  /\ running /\ default_conn = "plain" /\ awaiting = "security"
  /\ \/ /\ default_conn' = "secured" /\ UNCHANGED running
        /\ \/ Accepted /\ awaiting' = "mtu"
           \/ Refused /\ awaiting' = "service"                \* discover_conn at once
           \/ /\ faults + 2 <= MaxFaults /\ faults' = faults + 2
              /\ awaiting' = "nothing"
        /\ att' = IF subscribed THEN <<0>> ELSE << >>
     \/ /\ Refused /\ running' = FALSE
        /\ UNCHANGED <<default_conn, awaiting, att>>
  /\ UNCHANGED <<scanning, value_handle, subscribed, rpcVars, kbVars,
                 notifications, disconnects, subscriptions, histVars, cutInEscape>>

\* The keyboard may ask for security itself, also on a link that is encrypted: the
\* callback makes no difference.  Bounds: it counts as a fault, and comes when the
\* host waits for nothing.
security_changed_unasked ==
  /\ running /\ default_conn \in {"plain", "secured"} /\ awaiting = "nothing"
  /\ Refused
  /\ \/ /\ default_conn' = "secured" /\ awaiting' \in {"mtu", "service"}
        /\ att' = IF default_conn = "plain" /\ subscribed THEN <<0>> ELSE att
        /\ UNCHANGED running
     \/ running' = FALSE /\ UNCHANGED <<default_conn, awaiting, att>>
  /\ UNCHANGED <<scanning, value_handle, subscribed, rpcVars, kbVars,
                 notifications, disconnects, subscriptions, histVars, cutInEscape>>

\* Whatever became of the exchange, discovery starts.
mtu_exchanged ==
  /\ running /\ default_conn = "secured" /\ awaiting = "mtu"
  /\ discover("service")
  /\ UNCHANGED <<running, scanning, default_conn, value_handle, subscribed, rpcVars,
                 att, kbVars, notifications, disconnects, subscriptions, histVars,
                 cutInEscape>>

\* What the callbacks share: the request counters, the decoder, the ATT queue
\* and the history of what was handled.
Rpc == [sent |-> requests_sent, received |-> responses_received, decoder |-> decoder,
        announced |-> announced, att |-> att, due |-> due, answered |-> answered,
        misread |-> misread]

SetRpc(h) ==
  /\ requests_sent' = h.sent
  /\ responses_received' = h.received
  /\ decoder' = h.decoder
  /\ announced' = h.announced
  /\ att' = h.att
  /\ due' = h.due
  /\ answered' = h.answered
  /\ misread' = h.misread

\* Mutants: the same request again, all requests at once.
SendUncounted(h, takes) == [h EXCEPT !.att = Append(@, 1)]
SendAllRequests(h, takes) == [h EXCEPT !.sent = STUDIO_REQUESTS_COUNT]

\* The next request is counted as sent whether or not bt_gatt_write takes it.
send_next_request(h, takes) ==
  IF h.sent >= STUDIO_REQUESTS_COUNT THEN h
  ELSE [h EXCEPT !.sent = @ + 1,
                 !.att = IF takes THEN Append(@, h.sent + 1) ELSE @]

service_found == awaiting = "service" /\ discover("characteristic") /\ UNCHANGED value_handle

characteristic_found ==
  awaiting = "characteristic" /\ discover("ccc") /\ value_handle' = TRUE

\* bt_gatt_subscribe queues the write of the CCC, unless the subscription is
\* there already (-EALREADY, which the host accepts).
Subscribe(h) == IF subscribed THEN h ELSE [h EXCEPT !.att = Append(@, 0)]

\* Mutant: the first request is left to somebody else.
SubscribeOnly ==
  /\ awaiting = "ccc" /\ awaiting' = "nothing"
  /\ Accepted
  /\ SetRpc(Subscribe(Rpc))
  /\ subscribed' = TRUE
  /\ subscriptions' = subscriptions + 1

\* The first request follows the write of the CCC.
ccc_found ==
  /\ awaiting = "ccc" /\ awaiting' = "nothing"
  /\ \/ /\ \E takes \in BOOLEAN :
             /\ IF takes THEN Accepted ELSE Refused /\ requests_sent < STUDIO_REQUESTS_COUNT
             /\ SetRpc(send_next_request(Subscribe(Rpc), takes))
        /\ subscribed' = TRUE
        /\ subscriptions' = subscriptions + 1
     \/ /\ Refused /\ SetRpc(Rpc)
        /\ UNCHANGED <<subscribed, subscriptions>>

attribute_missing ==
  /\ awaiting \in {"service", "characteristic", "ccc"}
  /\ Refused /\ awaiting' = "nothing"
  /\ UNCHANGED value_handle

\* The service leads to the characteristic and that to its CCC; with the CCC
\* the host subscribes and sends the next request.
discover_func ==
  /\ running /\ default_conn = "secured"
  /\ \/ /\ service_found \/ characteristic_found \/ attribute_missing
        /\ SetRpc(Rpc)
        /\ UNCHANGED <<subscribed, subscriptions>>
     \/ ccc_found /\ UNCHANGED value_handle
  /\ UNCHANGED <<running, scanning, default_conn, kbVars, notifications, disconnects,
                 taken, cutInEscape>>

-----------------------------------------------------------------------------
(* Requests and frames.                                                    *)

\* Mutant: the last request counts as answered when it is sent.
HandleFrameEagerly(h, payload, takes) ==
  LET next == send_next_request([h EXCEPT !.received = @ + 1, !.due = Tail(@),
                                          !.answered = @ + 1], takes)
  IN IF next.sent < STUDIO_REQUESTS_COUNT THEN next ELSE [next EXCEPT !.announced = TRUE]

\* Every frame counts as a response, whatever it carries.
handle_frame(h, payload, takes) ==
  LET fits == SubSeq(Head(h.due), 1, Min({FrameBuf, Len(Head(h.due))}))
      seen == [h EXCEPT !.received = @ + 1,
                        !.due      = IF @ = << >> THEN @ ELSE Tail(@),
                        !.answered = IF h.due # << >> /\ Head(h.due) = Notification
                                     THEN @ ELSE @ + 1,
                        !.misread  = @ \/ h.due = << >> \/ payload # fits]
  IN IF seen.sent < STUDIO_REQUESTS_COUNT
     THEN send_next_request(seen, takes)
     ELSE [seen EXCEPT !.announced = TRUE]

frame_rx_byte(h, byte, takes) ==
  LET after == [h EXCEPT !.decoder = DecodeByte(@, byte, FrameBuf)]
  IN IF EndsFrame(h.decoder, byte)
     THEN handle_frame(after, h.decoder.payload, takes)
     ELSE after

\* An indication's bytes go through the decoder one by one.
indicate_func ==
  /\ running /\ default_conn = "secured" /\ subscribed /\ kb_subscribed
  /\ \E n \in 1..Min({MaxIndication, Len(wire)}) : \E takes \in BOOLEAN :
       LET rx(h, byte) == frame_rx_byte(h, byte, takes)
           h == FoldLeft(rx, Rpc, SubSeq(wire, 1, n))
       IN /\ IF takes THEN Accepted ELSE Refused /\ h.sent # requests_sent
          /\ SetRpc(h)
          /\ wire' = SubSeq(wire, n + 1, Len(wire))
  /\ UNCHANGED <<linkVars, value_handle, subscribed, kb_subscribed, asked, notifications,
                 disconnects, subscriptions, taken, cutInEscape>>

\* The oldest queued write reaches the keyboard, which takes it or rejects it.
\* A rejected subscription ends with indicate_func(NULL); a rejected request
\* is only logged (write_func).
AttWrite ==
  /\ running /\ default_conn = "secured" /\ att # << >>
  /\ att' = Tail(att)
  /\ \/ Accepted /\ Head(att) = 0 /\ kb_subscribed' = TRUE
        /\ UNCHANGED <<asked, taken, subscribed>>
     \/ Accepted /\ Head(att) # 0
        /\ asked' = Append(asked, Head(att))
        /\ taken' = Append(taken, Head(att))
        /\ UNCHANGED <<kb_subscribed, subscribed>>
     \/ Refused
        /\ subscribed' = (subscribed /\ Head(att) # 0)
        /\ kb_subscribed' = (kb_subscribed /\ Head(att) # 0)
        /\ UNCHANGED <<asked, taken>>
  /\ UNCHANGED <<linkVars, value_handle, rpcVars, wire, notifications, disconnects,
                 subscriptions, due, answered, misread, cutInEscape>>

\* The keyboard puts a frame on the wire if somebody has subscribed.
Indicates(payload) ==
  IF kb_subscribed
  THEN wire' = wire \o Frame(payload) /\ due' = Append(due, payload)
  ELSE UNCHANGED <<wire, due>>

KeyboardAnswers ==
  /\ asked # << >>
  /\ asked' = Tail(asked)
  /\ Indicates(Response[Head(asked)])
  /\ UNCHANGED <<linkVars, value_handle, subscribed, rpcVars, att, kb_subscribed, countVars,
                 subscriptions, taken, answered, misread, cutInEscape>>

KeyboardNotifies ==
  /\ default_conn = "secured" /\ kb_subscribed
  /\ notifications < MaxNotifications /\ notifications' = notifications + 1
  /\ Indicates(Notification)
  /\ UNCHANGED <<linkVars, value_handle, subscribed, rpcVars, att, kb_subscribed, asked,
                 faults, disconnects, subscriptions, taken, answered, misread, cutInEscape>>

\* The link drops.  What was queued on it is gone; the request counters and
\* the decoder stay as they are.
disconnected ==
  /\ running /\ default_conn \in {"plain", "secured"}
  /\ disconnects < MaxDisconnects /\ disconnects' = disconnects + 1
  /\ default_conn' = "none" /\ awaiting' = "nothing"
  /\ start_scan
  /\ att' = << >> /\ asked' = << >> /\ wire' = << >> /\ due' = << >>
  /\ \E bonded \in BOOLEAN :
       /\ subscribed' = (subscribed /\ bonded)
       /\ kb_subscribed' = (kb_subscribed /\ bonded)
  /\ cutInEscape' = (cutInEscape \/ decoder.escaped)
  /\ UNCHANGED <<running, value_handle, rpcVars, notifications, subscriptions, taken,
                 answered, misread>>

HostStep ==
  \/ main \/ device_found \/ connected \/ security_changed \/ mtu_exchanged
  \/ discover_func \/ indicate_func \/ AttWrite \/ KeyboardAnswers

Next == HostStep \/ KeyboardNotifies \/ security_changed_unasked \/ disconnected

\* The keyboard advertises, answers and indicates, and the stack delivers what
\* it has; nothing makes the keyboard notify or ask for security, or the link drop.
Spec == Init /\ [][Next]_vars /\ WF_vars(HostStep)

-----------------------------------------------------------------------------
Increasing(s) == \A i, j \in DOMAIN s : i < j => s[i] < s[j]

\* The requests among queued writes.
Queued(writes) ==
  FlattenSeq([i \in DOMAIN writes |-> IF writes[i] = 0 THEN << >> ELSE <<writes[i]>>])

\* Over any number of connections the keyboard gets the requests in the order
\* of the case's file and none of them twice (requests_sent is not reset when
\* a connection ends), and what is still queued follows what it has got.
RequestsInOrder == Increasing(taken \o Queued(att))

\* A request is only ever queued on an encrypted connection and with the handle
\* of the RPC characteristic known, also when a frame arrives on a subscription
\* that outlived its connection, before the discovery has been repeated.
RequestsOnlyWhenReady ==
  \A i \in DOMAIN att : att[i] # 0 =>
    default_conn = "secured" /\ value_handle

\* Every request is owed to a subscription or to a decoded frame: the callbacks
\* never run ahead of the keyboard on their own.
RequestsAreEarned == requests_sent <= subscriptions + responses_received

\* What the run checks of the requests: on an encrypted connection whose
\* characteristic is known, and never ahead of the answers.
StudioInvariant == TypeOK /\ RequestsOnlyWhenReady /\ RequestsAreEarned

\* However the keyboard cuts its frames into indications, and wherever links
\* dropped, each frame handled is the next one sent on this connection, up to
\* the size of frame_buf -- unless a link dropped between an ESC and its byte.
FramesAsSent == misread => cutInEscape

\* "[ALL RESPONSES RECEIVED]" is logged only when every request of the case has been
\* answered, if nothing fails and nothing comes unasked; and whatever fails, comes
\* unasked or drops, it runs ahead of the answers by no more than the notifications,
\* each of which passes for a response, and the subscriptions after the first, each
\* of which sends a request that no response has earned.
AnnouncedWhenComplete ==
  announced =>
    /\ answered + notifications + subscriptions > STUDIO_REQUESTS_COUNT
    /\ faults = 0 /\ notifications = 0 /\ disconnects = 0
         => answered = STUDIO_REQUESTS_COUNT

\* However often the link drops, and whatever comes unasked, every request of
\* the case is written sooner or later, unless the stack refused a call or
\* pairing failed.
EveryRequestWritten ==
  <>(requests_sent = STUDIO_REQUESTS_COUNT \/ faults > 0)
=============================================================================
