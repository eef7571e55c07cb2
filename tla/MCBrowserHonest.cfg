SPECIFICATION HonestSpec
CONSTANTS
  s1 = s1
  s2 = s2
  s3 = s3
  k1 = k1
  Sources = {s1, s2, s3}
  NoSource = NoSource
  Slots = {k1}
  Attempts <- HonestAttempts
  Requests = {r1}
  NoRequest = NoRequest
  Questions = {q1}
  NoQuestion = NoQuestion
  MaxEvents = 16
  MaxQuestions = 2
PROPERTIES HonestRecorded
CHECK_DEADLOCK FALSE
