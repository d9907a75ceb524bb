CONSTANTS
    public = public
    home = home
    ipv6 = ipv6
    host = host
    range = range
    lan = lan
    host6 = host6
    t1 = t1
    t2 = t2
    Address = {public, home, ipv6}
    Private = {home}
    Cidr = {host, range, lan, host6}
    Ruled = {host, range, lan, host6}
    Trusted = {host, range}
    Covers <- AddressesOf
    Base <- WrittenWith
    Target = {t1, t2}
    Untaken = {host6}
    Slots <- FreeSlots
    Caps = {1, 2}
    NoHash = NoHash
    NoTarget = NoTarget
    MaxChanges = 2
    MaxEdits = 1
    MaxManual = 1
    MaxFaults = 1
SPECIFICATION FairSpec
CHECK_DEADLOCK FALSE
INVARIANTS
    RowTellsTheFirewall
    DeletedDropsNothing
PROPERTY
    FirewallFollowsRules
