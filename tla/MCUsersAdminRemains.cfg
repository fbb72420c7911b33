SPECIFICATION Spec
CONSTANTS
    UserIDs = {u1, u2, u3}
    Handlers = {h1, h2}
    NoUser = NoUser
PROPERTIES
    AdminRemains
