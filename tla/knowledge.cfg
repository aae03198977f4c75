CONSTANTS
  pay = pay
  payment = payment
  api = api
  Names = {pay, payment, api}
  Within <- Contained
  Limit = 3
  Depth = 2
  MaxActiveSkills = 2
  NoteSize = 1
  Repositories <- FourFiles
  Catalogs <- ThreeScopes
  Situations <- AllSituations
  Rooms = {3, 4, 9}
  Numbers <- SmallNumbers
  Nothing = Nothing

SPECIFICATION Spec

INVARIANTS
  ImpactIsExact
  SearchFindsDefinitions
  SkillsReachThePrompt
CHECK_DEADLOCK FALSE
