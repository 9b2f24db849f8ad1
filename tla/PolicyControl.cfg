\* A weakening edit and another, three commits; re-arms between and during ceremonies.
CONSTANTS
  Edit = {w, e}
  Weak = {w}
  NoEdit = NoEdit
  MaxCommits = 3
SPECIFICATION Spec
CHECK_DEADLOCK FALSE
INVARIANTS GateIsAnchored RowsAreAnchored ConfirmedAsProposed
