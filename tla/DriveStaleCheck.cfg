CONSTANTS
    c1 = c1
    c2 = c2
    c3 = c3
    i1 = i1
    i2 = i2
    f1 = f1
    f2 = f2
    f3 = f3
    f4 = f4
    NoFile = NoFile
    NoCall = NoCall
    Instances = {i1}
    Calls = {c1, c2}
    Files = {f1, f2, f3}
    Grounds <- SavesGround
SPECIFICATION Spec
SYMMETRY CallsAlike
PROPERTIES
    NeverLaidOverOurs
