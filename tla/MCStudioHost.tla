---------------------------- MODULE MCStudioHost -----------------------------
(***************************************************************************)
(* StudioHost on a small instance: three requests.  The first response     *)
(* needs an escape, the second does not fit frame_buf and ends in a        *)
(* special byte.                                                           *)
(***************************************************************************)
EXTENDS StudioHost

CONSTANTS a, b

Responses == <<<<a, EOF>>, <<a, b, SOF>>, <<b>>>>
Unasked == <<ESC>>
Plain == {a, b}
=============================================================================
