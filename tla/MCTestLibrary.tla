--------------------------- MODULE MCTestLibrary ---------------------------
(* Instances of TestLibrary for TLC.                                       *)
EXTENDS TestLibrary, TLC

CONSTANTS t1, t2, i1, i2, i3

Written(text, byHand) ==
  [text |-> text, manual |-> byHand, scenario |-> IF byHand THEN text ELSE NoText]

\* One generated test; one manual test; both.
OneGenerated == [i \in Ids |-> IF i = i1 THEN Written("first", FALSE) ELSE Blank]
OneManual    == [i \in Ids |-> IF i = i1 THEN Written("first", TRUE) ELSE Blank]
OneOfEach    == [i \in Ids |-> IF i = i1 THEN Written("first", FALSE)
                              ELSE IF i = i2 THEN Written("first", TRUE) ELSE Blank]
ThreadSymmetry == Permutations(Threads)
=============================================================================
