\* Concurrent lookups only: nothing is removed, invocations may be killed.
SPECIFICATION Spec
CONSTANTS
  p1 = p1
  p2 = p2
  v1 = v1
  v2 = v2
  a1 = a1
  a2 = a2
  Proc = {p1, p2}
  Version = {v1, v2}
  Archive = {a1, a2}
  Pinned = {a1}
  GoSum <- OneSum
  Inode = {i1, i2, i3}
  Ops <- LookupOps
  MaxDebris = 1
  Absent = Absent
  NoInode = NoInode
  NoVersion = NoVersion
SYMMETRY Symmetry
INVARIANTS
  EntriesWhole
  AliasResolves
  LookupWhole
PROPERTIES
  KeepsPromise
