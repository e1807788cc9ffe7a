\* A DAA port and a ProSLIC port bridged and unbridged: undoing a bridge
\* from the DAA rewrites registers of the destination, and the DAA keeps
\* transmitting on its bridge slot.
CONSTANTS
    Cards = {0, 1}
    modtype <- FxoLayout
    nativebridge = 1
SPECIFICATION Spec
INVARIANT Restored
