\* Bridges between ProSLIC ports made and undone in any order, with a QRV
\* card that the connect call refuses.
CONSTANTS
    Cards = {0, 1, 2, 3}
    modtype <- FxsLayout
    nativebridge = 1
SPECIFICATION Spec
INVARIANT TypeOK Restored
