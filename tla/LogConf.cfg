SPECIFICATION Spec
CONSTANTS
    Configured = {a, root}
    Private = {p}
    Root = root
    OwnAppenders = {o}
    Setters = {s}
    Threads = {t}
    LogNodes <- Nodes
    MaxAppenders = 1
INVARIANTS LoggersMatchConfig AppendersFollow PatternReadsBack
 
