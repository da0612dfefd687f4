CONSTANTS
    n1 = n1
    n2 = n2
    w1 = w1
    a1 = a1
    a2 = a2
    fake = fake
    dom = dom
    x = x
    y = y
    z = z
    None = None
    Writers = {n1, n2}
    Lengths = {2, 8}
    Limits = {5, 7, 8}
    FirstSize = 8
    HeaderSize = 3
    MaxFrames = 3
    MaxPackets = 2
SPECIFICATION MCSpec
INVARIANTS
    ScreensAgree
    RepliesAttributed
    InverseMaps
    PacketsWhole
