SPECIFICATION Spec
CONSTANTS
  Requests = {r1, r2}
  Nothing = Nothing
  Unset = Unset
  Null = Null
  Columns <- RoomColumns
  Values <- RoomValues
  Default <- RoomDefault
  AlwaysUpdates = FALSE
  Idol = idol
  Fans = {fan}
  Actions = {"idle", "sing"}
  Coordinates = {c1, c2}
  Layouts = {l1}
SYMMETRY Symmetry
INVARIANTS
  TypeOK
  StateIsLogged
PROPERTIES
  ChangesAreAsked
  CommitsApply
