\* One source bridged to two destinations (wctdm_dacs_connect refuses only a
\* second source): undoing one bridge restores the source's transmit slot
\* while the other destination still listens on the bridge slot.
CONSTANTS
    Cards = {0, 1, 2, 3}
    modtype <- FxsLayout
    nativebridge = 1
SPECIFICATION Spec
INVARIANT BridgeHeard
