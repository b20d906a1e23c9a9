\* Lookups racing with cache commands.
SPECIFICATION Spec
CONSTANTS
  p1 = p1
  p2 = p2
  v1 = v1
  v2 = v2
  a1 = a1
  a2 = a2
  Proc = {p1, p2}
  Version = {v1}
  Archive = {a1, a2}
  Pinned = {a1}
  GoSum <- NoSums
  Inode = {i1, i2, i3}
  Ops <- CacheCommandOps
  MaxDebris = 0
  Absent = Absent
  NoInode = NoInode
  NoVersion = NoVersion
SYMMETRY InodeSymmetry
INVARIANTS
  TypeOK
  LookupVerified
  NeverMixed
  NoDebris
