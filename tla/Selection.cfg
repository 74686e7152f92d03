\* Policies, pods and their edits.
SPECIFICATION Spec
CONSTANTS
  None = None
  Star = Star
  Names = {1, 2, 3}
  Default <- MCDefault
  Templates <- MCTemplates
  Lists <- MCLists
  DetSpecs <- MCDetSpecs
  Fleets <- MCFleets
INVARIANTS
  OrderIrrelevant
  DroppedCannotTrip
  WatchedOrWarned
PROPERTIES
  OverrideIsLocal
