SPECIFICATION MCSpec
CONSTANTS
  t1 = t1
  t2 = t2
  m1 = m1
  salt1 = salt1
  Names = {t1, t2}
  Secrets = {m1}
  Salts = {salt1}
  IdContexts = {x1}
  NumEntries = 2
  Objects <- KeyObjects
  Begins = {}
  MaxObjects = 2
INVARIANTS UniqueTokens StorageAgrees  RecipientsDistinct ReadersServed
