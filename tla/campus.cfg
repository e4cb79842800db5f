SPECIFICATION CampusSpec
CONSTANTS
  Workers = {w1, w2}
  Students = {s1}
  Subjects = {v1, v2}
  Scores = {85, 88, 92}
  Sent = {"null"}
  Batches <- MCBatches
  Keys = {k1, k2}
  Values = {v1, v2}
  Lessons = {x1}
  Days = {d1}
  NIPs = {n1}
  Certificates = {c1}
  Leaves = {l1}
  AdmissionBatches = {b1}
  Applications = {m1}
  Users = {u1}
  Entries = {o1, o2}
  Static = {o1}
SYMMETRY Interchangeable
INVARIANTS
  OneLessonPerStart
  ApprovedHasApprover
  MemoryMatchesTable
PROPERTIES
  BatchIsRecorded
  PhoneIsLostOnlyToChanges
  PhonesPartOnlyByOthers
  RevokedChangesOnlyByStaleReads
  ClosedBatchesGrowOnlyByStaleReads
  RaiseCountsInBracket
CHECK_DEADLOCK FALSE
