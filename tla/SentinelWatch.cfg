SPECIFICATION FairSpec
CONSTANTS
  a = a
  Clusters = {a}
  Sizes <- OneOrTwo
  MaxSentinels = 2
  Buffer = 1
  MaxPromotions = 1
  MaxEdits = 1
  MaxFaults = 1
INVARIANTS TypeOK NothingOutlivesStart OneSubscriptionEach PromotionIsFollowed
PROPERTIES SubscriptionsFollow ShutdownCompletes
CHECK_DEADLOCK FALSE
