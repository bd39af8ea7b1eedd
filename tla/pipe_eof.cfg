SPECIFICATION Spec
CONSTANTS
    Capacity = 3
    Lengths = {1, 2}
    Rounds = 2
    Nobody = Nobody
PROPERTIES
    EofIsTheEnd
