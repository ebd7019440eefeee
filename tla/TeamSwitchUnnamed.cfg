\* Two player slots: the bot switches a player nobody has named.
CONSTANTS
    MAX_CLIENTS = 2
    MaxRcon = 2
    Unasked = Unasked
    Nobody = Nobody
SPECIFICATION Spec
PROPERTY NamedPlayersExecute
