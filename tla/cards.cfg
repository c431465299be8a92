CONSTANTS
    Codes = {1, 2, 15}
    a = a
    b = b
    constant = constant
    utility = utility
    script = script
    noElement = noElement
    Names = {}
    Dirs = {a, b}
    Unseen = Unseen
    Missing = Missing
    Addresses = {d1}
    NoDuel = NoDuel
    Requests = {}
    Null = noElement
    Bootstrap <- NoBootstrap
    DbPaths = {"main", "extra"}
    ByteBase = 2
    TYPE_LINK = 4
    Databases <- OddDatabases
    Configurations <- OddConfigurations
    Disks <- NoScripts
    MaxEngines = 1
    MaxChanges = 0
SPECIFICATION Spec
CHECK_DEADLOCK FALSE
INVARIANT CardsMeanFiles
