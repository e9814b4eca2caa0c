CONSTANTS
    Device = {null, uart}
    FileSystem = {fs}
    DevNull = null
    None = None
    FdCount = 5
    Thread = {t1, t2}
    Asked = {{"rd"}, {"rd", "wr"}}
    Arg = {{"rd"}, {"rd", "nonblock"}}
    Used = {2, 3, 4}
SYMMETRY Symmetry
SPECIFICATION Spec
INVARIANTS
    Exclusive
