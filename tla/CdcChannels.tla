----------------------------- MODULE CdcChannels ------------------------------
(***************************************************************************)
(* The CDC channels of a bridge, in the order of their functions in the    *)
(* configuration descriptor (DualCdcAcmBridge.cs numbers them from 0).     *)
(***************************************************************************)
EXTENDS Naturals, Sequences

CONSTANT ChannelCount    (* DualCdcAcmBridge.ChannelCount                  *)

ASSUME ChannelCountAssumption == ChannelCount \in Nat

Channel == 1..ChannelCount
=============================================================================
