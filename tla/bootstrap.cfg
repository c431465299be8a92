CONSTANTS
    Codes = {1, 2}
    a = a
    b = b
    constant = constant
    utility = utility
    script = script
    noElement = noElement
    Names = {constant, utility, script}
    Dirs = {a, b}
    Unseen = Unseen
    Missing = Missing
    Addresses = {d1, d2}
    NoDuel = NoDuel
    Requests = {script}
    Null = noElement
    Bootstrap <- MCBootstrap
    DbPaths = {"main", "extra"}
    ByteBase = 2
    TYPE_LINK = 4
    Databases <- PlainDatabases
    Configurations <- PlainConfigurations
    Disks <- PlainDisks
    MaxEngines = 1
    MaxChanges = 0
SPECIFICATION Spec
CHECK_DEADLOCK FALSE
INVARIANT BootstrapFailureLogged
