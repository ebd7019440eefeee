\* Three player slots: a red and a blue player, and one more to name instead.
CONSTANTS
    MAX_CLIENTS = 3
    MaxRcon = 2
    Unasked = Unasked
    Nobody = Nobody
SPECIFICATION Spec
INVARIANTS
    TypeOK
    AcceptanceIsOfSlot
    AgreementIsActedOn
PROPERTY SwitchIsNamed
