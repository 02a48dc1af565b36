SPECIFICATION Spec
CONSTANTS
    MAX_MEMORY_SIZE = 2
    Octet = {0, 1}
    Loadable = {"addr", "app"}
    Sizes = {1, 3}
    Elements = {1}
    Written <- MCWritten
    Read <- MCRead
    Addresses <- MCAddresses
    EraseCodes = {0, 2, 4, 6}
    Fixed = {"DeviceDescriptorRead"}
    Header = {h1, h2}
    Orderly = TRUE
VIEW view
INVARIANTS SegmentsApart RuntimeFollowsLoaded
PROPERTIES Implements
