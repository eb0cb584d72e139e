SPECIFICATION LockFairSpec
CONSTANTS
  Resolvers = {"ra", "rb"}
  Gaters = {"g"}
  Posters = {"pa", "pb"}
PROPERTY ResolverReturns
