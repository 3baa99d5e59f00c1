SPECIFICATION Spec
CONSTANTS
  u1 = u1
  u2 = u2
  p1 = p1
  p2 = p2
  i1 = i1
  i2 = i2
  price = price
  image = image
  v1 = v1
  v2 = v2
  s1 = s1
  s2 = s2
  Session = {s1, s2}
  User = {u1, u2}
  Responsible = {u1}
  RemoteSupport = {u2}
  Binding <- BindingDef
  NoUser = NoUser
  Item = {i1}
  NoItem = NoItem
  Field = {price, image}
  Value = {v1, v2}
  Image = {image}
  Proposal <- ProposalDef
  Edit <- EditDef
  NewItem <- NewItemDef
  MaxRequests = 2
  MaxEdits = 1
SYMMETRY Symmetric
INVARIANT ConfirmedBySubmitter
PROPERTIES AppliedOnReviewedBase ReversalRestores KeepsPromise AuditReplays
