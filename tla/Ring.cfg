SPECIFICATION Spec
CONSTANTS
  n1 = n1  n2 = n2  n3 = n3
  Node <- Nodes3
  Id = {0, 1, 2, 3, 4, 5, 6}
  Position <- Positions
  Hashes <- AllHashes
  HashKey <- IdAt
  NoCache = NoCache
  NoNode = NoNode
SYMMETRY Alike
INVARIANTS TypeOK PointsAreActive PointsAreOfNodes RouteExact
PROPERTIES MovesAreMinimal
