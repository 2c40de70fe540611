SPECIFICATION Spec
CONSTANTS
    o = o
    a = a
    w1 = w1
    NoRow = NoRow
PROPERTIES
    
    OverdueIsTold
