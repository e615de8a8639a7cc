--------------------------- MODULE StudioRpcClient ---------------------------
(***************************************************************************)
(* The Studio RPC conversation of the USB smoke tests: RpcSocket           *)
(* (rpc_client.py) decodes frames from a TCP socket under a deadline, and  *)
(* renode_smoke.py asks for the device info twice, looks for the devtool   *)
(* subsystem, then locks and unlocks Studio to provoke two device-to-host  *)
(* transfers in a row.                                                     *)
(*                                                                         *)
(* read_frame keeps its decoder in local variables: a deadline that passes *)
(* inside a frame loses the frame's head, and the next call starts in its  *)
(* middle.  Deadlines are wall-clock, the device is emulated: a deadline   *)
(* may pass at any point.                                                  *)
(*                                                                         *)
(* External: the device, which answers requests in order and notifies a    *)
(* change of its lock state, and the transport, which may drop a frame.    *)
(***************************************************************************)
EXTENDS StudioFraming

CONSTANTS Payload,    (* Payload[m]: the bytes of message m                *)
          MaxLost     (* bound: frames the transport drops                 *)

Requests == {"info1", "info2", "list", "lock", "unlock"}
Messages == [type : {"request_response"}, request : Requests]
              \cup [type : {"notification"}, locked : BOOLEAN]
Reply(r) == [type |-> "request_response", request |-> r]
Notice(l) == [type |-> "notification", locked |-> l]
None == [type |-> "none"]          \* read_frame's answer at the deadline
Garbage == [type |-> "garbage"]    \* a frame protobuf cannot parse

\* Messages that differ are encoded differently.
ASSUME RpcAssumption ==
  /\ Payload \in [Messages -> Seq(Byte)]
  /\ \A m, n \in Messages : Payload[m] = Payload[n] => m = n
  /\ MaxLost \in Nat

VARIABLES
  phase,       (* the request the test is at; "drain" after "lock"         *)
  reading,     (* inside read_frame                                        *)
  rx,          (* read_frame's in_frame, escaped, payload                  *)
  saw,         (* the burst's saw_notification and saw_response            *)
  wire,        (* bytes on their way, the socket's buffer and _rx included *)
  inbox,       (* device: requests not yet served                          *)
  locked,      (* device: Studio's lock state                              *)
  emitted,     (* device: messages put on the wire, in order               *)
  lost,        (* messages the transport dropped                           *)
  due,         (* history: messages on the wire no call has got to the end *)
  misread,     (* history: a frame was returned that was not the next one  *)
  cut,         (* history: a deadline passed inside a frame                *)
  accepted     (* history: phase -> the message it took for its answer     *)

readVars == <<reading, rx, due, misread, cut>>
deviceVars == <<inbox, locked, emitted, lost>>
rpcClientVars == <<phase, saw, wire, accepted, readVars, deviceVars>>

Finished == {"ok", "failed", "crashed"}

RpcClientTypeOK ==
  /\ phase \in Requests \cup {"drain"} \cup Finished
  /\ reading \in BOOLEAN /\ rx \in Decoder
  /\ saw \in [notification : BOOLEAN, response : BOOLEAN]
  /\ wire \in Seq(Byte) /\ inbox \in Seq(Requests)
  /\ locked \in BOOLEAN
  /\ emitted \in Seq(Messages) /\ lost \in Seq(Messages) /\ due \in Seq(Messages)
  /\ misread \in BOOLEAN /\ cut \in BOOLEAN
  /\ accepted \in [Requests -> Messages \cup {None}]

RpcClientInit ==
  /\ phase = "info1" /\ reading = FALSE /\ rx = FreshDecoder
  /\ saw = [notification |-> FALSE, response |-> FALSE]
  /\ wire = << >> /\ inbox = << >> /\ locked \in BOOLEAN
  /\ emitted = << >> /\ lost = << >> /\ due = << >>
  /\ misread = FALSE /\ cut = FALSE
  /\ accepted = [r \in Requests |-> None]

\* A fresh emulation, and a test that starts from its first request.
RpcClientReset ==
  /\ phase' = "info1" /\ reading' = FALSE /\ rx' = FreshDecoder
  /\ saw' = [notification |-> FALSE, response |-> FALSE]
  /\ wire' = << >> /\ inbox' = << >> /\ locked' \in BOOLEAN
  /\ emitted' = << >> /\ lost' = << >> /\ due' = << >>
  /\ misread' = FALSE /\ cut' = FALSE
  /\ accepted' = [r \in Requests |-> None]

-----------------------------------------------------------------------------
(* The device.                                                             *)

\* The bytes of messages, framed.
Bytes(messages) == [i \in DOMAIN messages |-> Payload[messages[i]]]

\* Messages go out in the order given, except for those dropped on the way.
Emit(messages, kept) ==
  LET Only(places) ==
        FlattenSeq([i \in DOMAIN messages |->
                      IF i \in places THEN <<messages[i]>> ELSE << >>])
      delivered == Only(kept)
  IN /\ wire' = wire \o Frames(Bytes(delivered))
     /\ due' = due \o delivered
     /\ emitted' = emitted \o delivered
     /\ lost' = lost \o Only(DOMAIN messages \ kept)
     /\ Len(lost') <= MaxLost

\* A request that changes the lock state is notified as well as answered.
Serve ==
  /\ inbox # << >>
  /\ inbox' = Tail(inbox)
  /\ LET r       == Head(inbox)
         wanted  == IF r = "lock" THEN TRUE ELSE IF r = "unlock" THEN FALSE ELSE locked
         answers == IF wanted = locked THEN {<<Reply(r)>>}
                    ELSE {<<Reply(r), Notice(wanted)>>, <<Notice(wanted), Reply(r)>>}
     IN /\ locked' = wanted
        /\ \E messages \in answers : \E kept \in SUBSET DOMAIN messages : Emit(messages, kept)
  /\ UNCHANGED <<phase, saw, accepted, reading, rx, misread, cut>>

-----------------------------------------------------------------------------
(* read_frame.                                                             *)

\* Every call starts with a decoder of its own.
StartReading == reading' = TRUE /\ rx' = FreshDecoder

SendRequest ==
  /\ phase \in Requests /\ ~reading
  /\ inbox' = Append(inbox, phase)
  /\ phase' = IF phase = "lock" THEN "drain" ELSE phase
  /\ StartReading
  /\ UNCHANGED <<saw, wire, accepted, due, misread, cut, locked, emitted, lost>>

\* What the caller does with a frame, or with None at the deadline.  Its reply
\* to the four shapes: nothing came, protobuf cannot parse it (the exception is
\* not caught), another kind of message, the kind it waits for.
Judge(result, kind, next) ==
  /\ phase' \in CASE result = None    -> {"failed"}
                  [] result = Garbage -> {"failed", "crashed"}
                  [] OTHER -> IF result \in kind THEN next ELSE {"failed"}
  /\ accepted' = IF result \in kind THEN [accepted EXCEPT ![phase] = result] ELSE accepted
  /\ reading' = FALSE /\ rx' = FreshDecoder
  /\ UNCHANGED saw

\* Mutant: a deadline that passes is answered by asking once more.
AskAgain(result) ==
  /\ phase \in {"info1", "info2"}
  /\ reading' = FALSE /\ rx' = FreshDecoder
  /\ phase' = IF result = None THEN phase
              ELSE IF result \notin {Reply("info1"), Reply("info2")} THEN "failed"
              ELSE IF phase = "info1" THEN "info2" ELSE "list"
  /\ accepted' = IF result = None THEN accepted ELSE [accepted EXCEPT ![phase] = result]
  /\ UNCHANGED saw

\* _assert_get_device_info looks at the kind of the answer, not at its id; the
\* name in an answer of that kind may be empty, which fails as well.
get_device_info(result) ==
  /\ phase \in {"info1", "info2"}
  /\ Judge(result, {Reply("info1"), Reply("info2")},
           IF phase = "info1" THEN {"info2", "failed"} ELSE {"list", "ok", "failed"})

\* Without a devtool subsystem the burst is skipped.
list_custom_subsystems(result) ==
  /\ phase = "list"
  /\ Judge(result, {Reply("list"), Reply("lock"), Reply("unlock")}, {"lock", "ok"})

_drain_frames(result) ==
  /\ phase = "drain"
  /\ IF result = None
     THEN phase' = "unlock" /\ reading' = FALSE /\ rx' = FreshDecoder
     ELSE phase' = "drain" /\ StartReading
  /\ UNCHANGED <<saw, accepted>>

\* Any lock-state notification counts, and the response with the unlock's id.
unlock_burst(result) ==
  /\ phase = "unlock"
  /\ saw' = [notification |-> saw.notification \/ result \in {Notice(l) : l \in BOOLEAN},
             response     |-> saw.response \/ result = Reply("unlock")]
  /\ accepted' = IF result = Reply("unlock")
                 THEN [accepted EXCEPT !["unlock"] = result] ELSE accepted
  /\ IF saw'.notification /\ saw'.response
     THEN phase' = "ok" /\ reading' = FALSE /\ rx' = FreshDecoder
     ELSE IF result = None
     THEN phase' = "failed" /\ reading' = FALSE /\ rx' = FreshDecoder
     ELSE phase' = "unlock" /\ StartReading

Take(result) ==
  \/ get_device_info(result) \/ list_custom_subsystems(result)
  \/ _drain_frames(result) \/ unlock_burst(result)

Parsed(payload) ==
  IF \E m \in Messages : Payload[m] = payload
  THEN CHOOSE m \in Messages : Payload[m] = payload
  ELSE Garbage

\* One byte goes through the decoder; the byte that ends a frame returns it.
ReadByte ==
  /\ reading /\ wire # << >>
  /\ wire' = Tail(wire)
  /\ IF EndsFrame(rx, Head(wire))
     THEN /\ Take(Parsed(rx.payload))
          /\ misread' = (misread \/ due = << >> \/ rx.payload # Payload[Head(due)])
          /\ due' = IF due = << >> THEN due ELSE Tail(due)
     ELSE /\ rx' = DecodeByte(rx, Head(wire), Len(rx.payload) + 1)
          /\ UNCHANGED <<phase, reading, saw, accepted, misread, due>>
  /\ UNCHANGED <<cut, deviceVars>>

\* The deadline passes, whatever is on its way.
ReadTimeout ==
  /\ reading
  /\ Take(None)
  /\ cut' = (cut \/ rx.in_frame)
  /\ due' = IF rx.in_frame /\ due # << >> THEN Tail(due) ELSE due
  /\ UNCHANGED <<wire, misread, deviceVars>>

ClientStep == SendRequest \/ ReadByte \/ ReadTimeout
RpcClientNext == ClientStep \/ Serve

\* read_frame looks at the clock in every round of its loop.
RpcClientSpec ==
  RpcClientInit /\ [][RpcClientNext]_rpcClientVars /\ WF_rpcClientVars(ClientStep)

-----------------------------------------------------------------------------
\* Every frame read_frame returns is the next one the device sent, whole, as
\* long as no deadline has passed inside a frame: nothing is merged, split or
\* invented although SOF, ESC and EOF occur in payloads.
FramesAreReal == misread => cut

\* The answer taken for a request is that request's, although only its kind is
\* looked at: one request is outstanding at a time, and a deadline that passes
\* ends the test before the late answer can be taken for the next one's.
AnswersMatchRequests ==
  \A r \in Requests : accepted[r] # None => accepted[r] = Reply(r)

\* renode_smoke.py: "assert both are delivered", the notification of the unlock
\* and its response.
BurstDelivered ==
  phase = "ok" /\ accepted["unlock"] # None => Contains(emitted, Notice(FALSE))
=============================================================================
