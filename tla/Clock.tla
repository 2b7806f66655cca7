------------------------------- MODULE Clock -------------------------------
(***************************************************************************)
(* The block timestamp every contract reads with get_block_timestamp().    *)
(* Several transactions may be executed under one timestamp, and the       *)
(* timestamp may stand still for as long as no block is produced; it never *)
(* decreases.  The instance starts late enough that "0 + delay" lies in    *)
(* the past, as it does for Unix timestamps.                               *)
(***************************************************************************)
EXTENDS Naturals

CONSTANTS StartTime,   \* timestamp of the first modelled block
          MaxTime      \* bound: no block after this timestamp

ASSUME ClockAssumption == /\ StartTime \in Nat \ {0}
                          /\ MaxTime \in Nat
                          /\ StartTime <= MaxTime

VARIABLE now

ClockInit == now = StartTime

Tick == now < MaxTime /\ now' = now + 1
=============================================================================
