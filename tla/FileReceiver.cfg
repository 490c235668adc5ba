\* Three files of two chunks, in every interleaving and with every disk failure.
CONSTANTS
    Files = {f1, f2, f3}
    Chunks = 2
SPECIFICATION Spec
INVARIANTS
    TypeOK
    AcceptedWasSentWhole
    AcceptedMissesAtMostOne
    DroppedBufferIsOnDisk
