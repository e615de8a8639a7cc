---------------------------- MODULE MCUsbBulkOut -----------------------------
(***************************************************************************)
(* UsbBulkOut on a small instance: on one endpoint the host writes more    *)
(* than a packet, in pieces that leave a short last chunk, on the other a  *)
(* single byte that competes for the DMA and the interrupt.                *)
(***************************************************************************)
EXTENDS UsbBulkOut

CONSTANTS e1, e2

Bytes == [e \in Endpoint |-> IF e = e1 THEN 3 ELSE 1]
=============================================================================
