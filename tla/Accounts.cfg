SPECIFICATION Spec
CONSTANTS
  Handlers = {h1, h2}
  Logins = {admin, ann, bob}
  Admin = admin
  NoLogin = NoLogin
  Emails = {mail}
  NoEmail = NoEmail
  Externals = {ext}
  Nobody = Nobody
  States = {s1}
  MaxUsers = 3
  MaxRows = 3
SYMMETRY Symmetry
INVARIANTS
  TypeOK
  NoDuplicates
  WholeAccounts
  SameAccount
PROPERTIES
  RolesNotReplaced
