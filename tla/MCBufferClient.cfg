SPECIFICATION Spec
CONSTANTS
    Capacity = 5
    Byte <- MCByte
    Messages <- MCMessages
    Lengths <- MCLengths
    Zero = 0
INVARIANTS
    TypeOK
    RegionsApart
PROPERTIES
    StoredBytesStay
    ImplementsQueue
