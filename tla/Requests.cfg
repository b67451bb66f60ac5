CONSTANTS
  c1 = c1
  c2 = c2
  c3 = c3
  c4 = c4
  n1 = n1
  n2 = n2
  n3 = n3
  k1 = k1
  client1 = client1
  client2 = client2
  Calls = {c1, c2, c3, c4}
  Bodies = {"a", "b", "d"}
  BodyOf <- BodiesOf
  Nonces = {n1, n2, n3}
  NonceOf <- NoncesOf
  Keys = {k1}
  KeyOf <- KeysOf
  NoKey = NoKey
  Clients = {client1, client2}
  ClientOf <- ClientsOf
  Direct = {"a", "b"}
  WithUrl = {"d"}
  Treasuries = {1, 2}
  Default = 1
  Wanted <- WalletsWanted
  Preferences <- PreferencesChosen
  Settings <- SettingsChosen
  MaxOpen = 2
  MaxChanges = 1
  MaxEnds = 1
  MaxAborts = 1
SPECIFICATION Spec
CHECK_DEADLOCK FALSE
INVARIANTS
  NonceAdmitsOne
  KeyHasOneAnswer
  OneRequestPerKey
  OneActivePerClient
  SpreadIsBounded
  AnsweredIsAnnounced
