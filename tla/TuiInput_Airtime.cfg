SPECIFICATION Spec
CONSTANTS
    all = all
    mesh = mesh
    peer = peer
    say = say
    long = long
    act = act
    msg = msg
    critical = critical
    toAll = toAll
    toPeer = toPeer
    second = second
    close = close
    reboot = reboot
    confirm = confirm
    mouseText = mouseText
    quit = quit
    help = help
    Empty = empty
    Home = all
    Channels = {}
    Direct = {peer}
    Texts = {say, critical, toPeer}
    Scarce = {"broadcast", "normal"}
    HistoryMax = 2
    MaxEnters = 2
    MaxTicks = 2
    Kind <- KindDef
    To <- ToDef
INVARIANTS
    LockoutIsCurrent
PROPERTIES
    NoDepletedSend
    LockoutLifts
    ChainsDieOut
