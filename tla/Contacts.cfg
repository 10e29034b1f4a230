SPECIFICATION ContactsSpec
CONSTANTS
    Users = {alex, nathan, zoe, max}
    Keys = {k1, k2, k3}
    NoUser = NoUser
    NoKey = NoKey
INVARIANTS
    AcceptedIsPinned
    OneKeyPerContact
PROPERTIES
    PinNeverReplaced
