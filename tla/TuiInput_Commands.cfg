SPECIFICATION Spec
CONSTANTS
    all = all
    mesh = mesh
    peer = peer
    say = say
    long = long
    act = act
    msg = msg
    critical = critical
    toAll = toAll
    toPeer = toPeer
    second = second
    close = close
    reboot = reboot
    confirm = confirm
    mouseText = mouseText
    quit = quit
    help = help
    Empty = empty
    Home = all
    Channels = {mesh}
    Direct = {}
    Texts = {long, second, reboot, confirm, mouseText, quit}
    Scarce = {}
    HistoryMax = 1
    MaxEnters = 3
    MaxTicks = 0
    Kind <- KindDef
    To <- ToDef
CHECK_DEADLOCK FALSE
INVARIANTS
    RefusedIsRecallable
    RebootsWereAsked
