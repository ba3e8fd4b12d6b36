\* Both modes: a queue that keeps its bytes gets blocks up to one longer than
\* the ring, a queue that overwrites gets single bytes.
CONSTANTS
    Byte = {1, 2}
    Size = 3
    MaxBlock = 4
    MaxCoverBlock = 1
SPECIFICATION Spec
INVARIANTS TypeOK RingConsistent
PROPERTY FifoSpec
