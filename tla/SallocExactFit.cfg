\* A heap of 16 words, in which a request can fit a free block exactly.
SPECIFICATION Spec
CONSTANTS
    Words = 16
    MaxGrowths = 0
    Requests = {4, 6}
    MaxAllocs = 4
    WordSize = 65536
PROPERTIES
    HeldUntouched
