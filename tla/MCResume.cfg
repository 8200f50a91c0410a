\* Files of up to 5 bytes over two byte values, chunks of 2: up to three chunks,
\* the last one whole or short, and a stat that may be out of date.
CONSTANTS
    Byte = {0, 1}
    Zero = 0
    None = None
    ChunkSize = 2
    MaxLen = 5
    Edited = TRUE
SPECIFICATION Spec
INVARIANTS
    ClosedFormIsTheLoop
    ResumePointSound
    ResumePointMaximal
    SkipKeepsPrefix
CHECK_DEADLOCK FALSE
