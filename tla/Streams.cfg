SPECIFICATION Spec
CONSTANTS
  Stream = {s1, s2, s3}
  NoStream = NoStream
  Line = {l1}
  Limits = {0, 2}
  Cap = 3
  Shown = 2
  MaxLines = 5
  MaxWrites = 5
SYMMETRY Interchangeable
INVARIANTS TypeOK EveryStreamShown RecordsStayWritable PagesReadWhole ShowHasTheTail
PROPERTY EndIsTheEnd
CHECK_DEADLOCK FALSE
