SPECIFICATION FairSpec
CONSTANTS
  api = api
  models = models
  custom = custom
  NumRouters = 2
  Paths = {api, models, custom}
  Standard = {models}
  Beneath <- MCBeneath
  Root <- MCRoot
  Methods = {"get", "put", "ws"}
  MaxHandled = 1
  NoRequest = NoRequest
INVARIANTS TypeOK AnswersDoNotCollide ForwardedAsValidated
PROPERTIES EveryRequestAnswered
CHECK_DEADLOCK FALSE
