SPECIFICATION Spec
CONSTANTS
    Group = 2
    Width = 5
    FixedSize = 2
    HostLittle = TRUE
    m_blocksize = 2
    Written = {31}
    StringLens = {0, 1}
    Junk = Junk
    MaxRead = 3
    MaxCapacity = 5
CHECK_DEADLOCK FALSE
INVARIANTS ChainIsSound ToStringIsData FieldsReadBack
PROPERTIES ImplementsFlatBytes
