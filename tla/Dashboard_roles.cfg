SPECIFICATION Spec
CONSTANTS
  terminal = terminal
  firefox = firefox
  nautilus = nautilus
  App <- McApp
  DefaultApps <- McApp
  ShippedApps <- McShippedApps
  TypedLists <- McTypedLists
  ShippedRoles <- McShippedRoles
  MaxFaults = 1
INVARIANTS
  TypeOK
  OneMaestro
  SavedRolesAreLoaded
  SavedAllowlistGivesRows
PROPERTIES
  RolesSpec
