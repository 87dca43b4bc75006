SPECIFICATION Spec
CONSTANTS
    Users = {u1, u2}
    NoUser = NoUser
    Unsure = Unsure
    NoList = NoList
INVARIANTS TypeOK
PROPERTIES DeleteAsConfirmed EditAsShown SearchActsAsShown CreatedAsEntered
SYMMETRY Symmetry
VIEW View
