SPECIFICATION Spec
CONSTANTS
    KernelErrors = {9, 25, 111, 524}
    HostErrors = {0, 11}
    LayerErrors = {4}
    Sizes = {1, 2}
INVARIANTS
    ServesOrSays
    ErrorIsOwn
    OptionsReadBack
CHECK_DEADLOCK FALSE
