CONSTANTS
  post = post pic = pic reply = reply quote = quote like = like del = del
  Attempts = {post, pic, reply, quote, like, del}
  ActionOf <- Actions
  MediaOf <- Media
  TextOf <- Texts
  NoOne = NoOne
  Stray = Stray
  Workloads <- Loads
SPECIFICATION FairSpec
INVARIANTS ClickIsApproved OutcomeIsTrue StagedMeansHeld NothingHeldAfterwards
CHECK_DEADLOCK FALSE
PROPERTIES AttemptEnds
