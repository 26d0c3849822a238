SPECIFICATION Spec
CONSTANTS
    tui = tui
    cli = cli
    a1 = a1
    a2 = a2
    h1 = h1
    h2 = h2
    k1 = k1
    k2 = k2
    None = None
    Empty = Empty
    Torn = Torn
    Ble = Ble
    Port = Port
    Detected = Detected
    Tui = tui
    Mdns = h2
    Procs = {tui, cli}
    Aliases = {a1, a2}
    Hosts <- MCHosts
    Tokens <- MCTokens
    Entries <- MCEntries
    Typed <- MCTyped
    Secret <- MCSecret
    CommandLines <- MCCommandLines
CHECK_DEADLOCK FALSE
INVARIANT ReconnectSameTarget
