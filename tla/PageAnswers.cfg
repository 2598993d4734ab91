\* Two users and a name without an account; three things the user does; a post fails.
SPECIFICATION Spec
CONSTANTS
  Accounts = {u1, u2}
  Strangers = {x}
  None = None
  MaxActs = 3
  MaxErrors = 1
INVARIANTS
  ButtonComesBack
  OnePerson
  KnownIsFollowed
SYMMETRY Symmetry
CHECK_DEADLOCK FALSE
