----------------------------- MODULE MCTrainJob -----------------------------
EXTENDS TrainJob

\* The longest conditioning is in the last chunk; two of the small examples fit
\* into memory, or one of the large.
MCLength == [i \in Examples |-> IF i = 4 THEN 2 ELSE 1]
MCFrames == [i \in Examples |-> IF i = 1 THEN 3 ELSE 1]
MCName == [i \in Examples |-> i]
MCShuffled == [e \in 0 .. Epochs - 1 |-> IF e = 0 THEN <<0, 1, 2, 3, 4>> ELSE <<2, 0, 1, 4, 3>>]
=============================================================================
