\* Two old requests, two new ones, every kind of row and a failure.
CONSTANTS
    Ids = {h1, h2}
    Nonces = {n1, n2}
    Answers = {yes}
    NoAnswer = NoAnswer
    Absent = Absent
    NotRead = NotRead
    Unreadable = Unreadable
    MaxDeliveries = 2
    MaxFaults = 1
SPECIFICATION FairSpec
INVARIANTS TypeOK MarkerLast
PROPERTIES ActsAsCache AnswersNotRebought ReadsAdvance EventuallyReadable
