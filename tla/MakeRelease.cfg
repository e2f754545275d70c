SPECIFICATION Spec
CONSTANTS
  foo = foo
  bar = bar
  i386 = i386
  all = all
  latest = latest
  NoAlias = NoAlias
  Names = {foo, bar}
  Archs = {i386, all}
  Architectures = {i386}
  AliasNames = {latest}
  Paths = {"f", "g"}
  MaxRelease = 1
  MaxMarred = 1
  Versions <- MCVersions
  Compare <- MCCompare
  Text <- MCText
  FilesOf <- MCFilesOf
  Scenarios <- MCScenarios
INVARIANTS NeverUpgrades NewestAllowed NothingMissed TablesSuffice VerifiedTogether LatestByPolicy
