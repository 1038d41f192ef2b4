SPECIFICATION Spec
CONSTANTS
  e1 = e1
  e2 = e2
  Proc = {p1, p2}
  Entry = {e1, e2}
  LinkAtStart <- MCLinked
  Fact = {f1, f2}
  NoProc = NoProc
INVARIANT OneWriterHoweverSpelled
