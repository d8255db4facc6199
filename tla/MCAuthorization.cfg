SPECIFICATION AllSpec
CONSTANTS
    Objects <- MCObjects
    Users = {alice, authenticated}
    Authenticated = authenticated
    Groups = {group}
    Principals = {alice, group}
    User = alice
    Similar <- MCNone
    AllSettings <- MCSettings
    MaxEntries = 2
INVARIANTS BackendsAgree DecisionsAgree
