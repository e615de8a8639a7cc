----------------------------- MODULE MCCdcBridge -----------------------------
(***************************************************************************)
(* CdcBridge with a small device: SET_LINE_CODING's 7 bytes take two       *)
(* packets of 4, the configuration descriptor two IN packets.              *)
(***************************************************************************)
EXTENDS CdcBridge

MCRequest == BridgeRequests

MCPayloadLength ==
  [r \in BridgeRequests |-> IF r[1] = "lineCoding" THEN 7 ELSE 0]

MCResponseChunks ==
  [r \in BridgeRequests |->
     CASE r[1] \in {"device", "header"} -> 1
       [] r[1] = "full" -> 2
       [] OTHER -> 0]

\* No function: a keyboard, and a data interface without a bulk OUT endpoint.
Keyboard ==
  <<Other, Interface(0, "hid"), Endpoint(1, "in", FALSE),
    Interface(1, "data"), Endpoint(2, "in", TRUE), Endpoint(3, "out", FALSE)>>

\* One: a HID interface between its two halves, alternate settings with and
\* without endpoints, an interrupt endpoint among the bulk ones, and a second
\* function behind a descriptor of length 0.
OneFunction ==
  <<Other, Interface(0, "comm"), Endpoint(1, "in", FALSE), Interface(1, "hid"),
    Interface(2, "data"), Interface(2, "data"),
    Endpoint(2, "out", TRUE), Endpoint(4, "in", FALSE), Endpoint(3, "in", TRUE), Other>>
    \o <<End, Interface(4, "data"), Endpoint(5, "in", TRUE), Endpoint(5, "out", TRUE)>>

\* Three, one more than the bridge has channels; the last has no control interface.
ThreeFunctions ==
  <<Other, Interface(0, "comm"), Endpoint(1, "in", FALSE), Interface(1, "data"),
    Endpoint(2, "in", TRUE), Endpoint(2, "out", TRUE),
    Other, Interface(2, "comm"), Interface(3, "data"),
    Endpoint(3, "out", TRUE), Endpoint(4, "in", TRUE),
    Interface(4, "data"), Endpoint(5, "in", TRUE), Endpoint(5, "out", TRUE)>>

MCDescriptors == {Keyboard, OneFunction, ThreeFunctions}

\* The parser against its definition: every descriptor of five entries, and every
\* one of up to four of these fragments.
Entries ==
  {Interface(0, "comm"), Interface(1, "data"), Interface(2, "hid"), Interface(3, "comm"),
   Endpoint(1, "in", TRUE), Endpoint(2, "out", TRUE), Endpoint(3, "in", FALSE), Other, End}
Fragments ==
  {<<Interface(0, "comm")>>, <<Interface(2, "comm"), Endpoint(1, "in", FALSE)>>,
   <<Interface(1, "data")>>, <<Interface(4, "hid"), Endpoint(6, "in", TRUE)>>,
   <<Interface(1, "data"), Endpoint(2, "in", TRUE), Endpoint(2, "out", TRUE)>>,
   <<Interface(3, "data"), Endpoint(4, "out", TRUE), Other, Endpoint(3, "in", TRUE)>>,
   <<Endpoint(5, "in", TRUE)>>, <<End>>}

ASSUME ParserMeetsDefinition ==
  \A d \in UNION {[1..n -> Entries] : n \in 0..5}
            \cup {FlattenSeq(f) : f \in UNION {[1..n -> Fragments] : n \in 0..4}}
            \cup Descriptors :
    ParsedAsDeclared(d)
=============================================================================
