SPECIFICATION All
CONSTANTS
  o1 = o1
  o2 = o2
  t1 = t1
  m1 = m1
  Ops = {o1, o2}
  Kinds = {"list", "act", "auto", "signIn"}
  Trades = {t1}
  Listings = {}
  Critical = {}
  None = None
  MaxEras = 1
  Account = Account
  Held = {h1, h2}
  MaxEntries = 1
  MaxUnreadable = 1
  MaxPushes = 4
  Stays = Stays
  Guest = Guest
  Asked = Asked
  Lost = Lost
  MaxClicks = 2
  MaxFailures = 1
  Retries = 1
SYMMETRY AnyCall
INVARIANTS
  NothingKeptFromBefore
PROPERTIES
  AnswersAsConsented
  WarningsReachTheUser
  ClicksAreServed
CHECK_DEADLOCK FALSE
