----------------------- MODULE MCTranscriptionQueue -----------------------
EXTENDS TranscriptionQueue, TLC

\* Every job submitted alone, or all of them in one request.
NoBatch  == [j \in Jobs |-> None]
OneBatch == [j \in Jobs |-> "batch"]

WorkerSymmetry == Permutations(Workers)
JobSymmetry    == Permutations(Jobs)
=============================================================================
