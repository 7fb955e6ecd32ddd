SPECIFICATION AllSpec
CONSTANTS
  Changes = {"c1", "c2", "c3"}
  StoredKeys = {"k1", "k2"}
  KeyOf <- MCKeyOf
  Removes = {"c3"}
  CredentialCrashes = 1
  Packagers = {"w1", "w2"}
  Versions = {1, 2}
  MarketCrashes = 1
  Leavings = {"f", "g"}
  Commits = {"b", "c", "d", "m", "w", "s"}
  Base = "b"
  Ancestors <- MCAncestors
  TreeOf <- MCTreeOf
  Merges = {"m"}
  Permitted = {"b", "c", "m", "w"}
  UserCommits = {"u", "w"}
  Permissions = {"q"}
  MaxCalls = 2
  MaxMessages = 3
  MaxQueued = 2
CHECK_DEADLOCK FALSE
INVARIANTS StoresAgree ToldAsKept
PROPERTY ChangesAreExact
