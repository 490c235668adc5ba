CONSTANTS
    Files = {f1, f2}
    Chunks = 2
SPECIFICATION Spec
INVARIANT ReceivedAllFiles
