CONSTANTS
  a1 = a1  a2 = a2  b1 = b1
  A = A  B = B
  NoOwner = NoOwner
  Clients <- ThreeCallers
  Owners = {A, B}
  OwnerOf <- SessionOf
  Ttl = 1
  AllowForce = TRUE
  LostAcks = TRUE
  Etags = TRUE
  MaxTime = 2
  MaxRev = 3
SPECIFICATION Spec
INVARIANTS TypeOK MutualExclusion
PROPERTY ImplementsRegister
SYMMETRY Interchangeable
