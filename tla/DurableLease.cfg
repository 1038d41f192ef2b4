SPECIFICATION Spec
CONSTANTS
  e1 = e1
  e2 = e2
  Proc = {p1, p2, p3}
  Entry = {e1, e2}
  LinkAtStart <- MCPlain
  Fact = {f1, f2}
  NoProc = NoProc
INVARIANTS
  TypeOK
  HolderIsOnRecord
  PendingWriteIsOwn
PROPERTY
  EmbodimentSpec
