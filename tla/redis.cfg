CONSTANTS
    Ids = {"a"}
    MaxLife = 2
    MaxCount = 2
SPECIFICATION Spec
INVARIANTS
    TypeOK
    SpacesExpire
PROPERTY StoreSpec
