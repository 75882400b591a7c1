------------------------------ MODULE MCBitmap -------------------------------
(***************************************************************************)
(* A ring of 12 ticks in words of 2 bits: 6 leaf words under 3 summary     *)
(* words, so that a scan steps over whole groups of words; the code has    *)
(* 128 leaf words under 2.  Every subset of the ring is reached.           *)
(***************************************************************************)
EXTENDS Bitmap

\* A window's worth of ticks, starting off the beginning of the ring.
WindowOfTicks == 4 .. 15
=============================================================================
