SPECIFICATION Spec
CONSTANTS
    Channels = {0, 3}
    AddrSpace = 2
    MaxUnits <- MCMaxUnits
    Addresses = {1}
    Counts = {0}
    Controls <- MCControls
INVARIANTS NothingPending EnabledHasUnits
PROPERTIES ImplementsChannels BusComesBack
