SPECIFICATION Spec
CONSTANTS
  Account = {a1, a2, a3}
  Subject = {s1, s2}
  Caller = {c1, c2}
  NoId = NoId
  Token = {t1, t2, t3}
  Holder = {h1}
  NoHolder = NoHolder
  expoBatchSize = 2
  MaxTickets = 2
INVARIANTS
  OneAccountPerSubject
  NoOrphanAccounts
  NoWaitChain
  RecordsAddUp
  EachTokenOnce
  PrunedTokensAreDead
PROPERTIES
  SignInsEnd
  BroadcastsEnd
CHECK_DEADLOCK FALSE
