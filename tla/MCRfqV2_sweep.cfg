SPECIFICATION Spec
CONSTANTS
  q1 = q1 q2 = q2
  k1 = k1 k2 = k2 k3 = k3 k4 = k4
  c1 = c1 c2 = c2 t1 = t1
  NoQuote = NoQuote NoTicket = NoTicket
  Quotes = {q1, q2}
  Confirms = {k1, k2, k3, k4}
  QuoteOf <- Twice
  Crews = {{k1, k3}}
  Cids = {c1}
  Tickets = {}
  MaxInputs = 1
  Funds = 2
  ReserveAttempts = 2
  MaxRestarts = 0
  SweepMeetsTTL = FALSE
  WatcherPrompt = TRUE
  ConfirmsPrompt = TRUE
INVARIANT EnvelopeBacked
SYMMETRY Symmetry
CHECK_DEADLOCK FALSE
