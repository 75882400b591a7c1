-------------------------------- MODULE Clob ---------------------------------
(***************************************************************************)
(* The whole program: every instruction that reads or writes the book, one *)
(* at a time, the clock between them.                                      *)
(***************************************************************************)
EXTENDS Custody, Taker, Hygiene

\* The runtime runs the instruction in flight; nothing else can.
Step == MergeStep \/ TakeStep \/ HygieneStep

Next ==
  \/ CustodyNext
  \/ MakerNext
  \/ TakerNext
  \/ HygieneNext
  \/ Step
  \/ NextSlot
  \/ Refused

Spec == Init /\ [][Next]_vars

\* An instruction the runtime has started is run to its end: the runtime does
\* not suspend a transaction between two of its operations.
FairSpec == Spec /\ WF_vars(Step)
=============================================================================
