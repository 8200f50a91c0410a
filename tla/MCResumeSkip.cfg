\* The same instance with a source that nobody edits.
CONSTANTS
    Byte = {0, 1}
    Zero = 0
    None = None
    ChunkSize = 2
    MaxLen = 5
    Edited = FALSE
SPECIFICATION Spec
INVARIANT CompleteMeansPresentAndCorrect
CHECK_DEADLOCK FALSE
