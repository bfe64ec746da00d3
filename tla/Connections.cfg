SPECIFICATION Spec
CONSTANTS
  P = P
  R = R
  Peers = {P, R}
  None = None
  Offers <- MCOffers
  Bootstrap <- MCBootstrap
  Remotes <- MCRemotes
  Allow <- MCAllow
  Lan <- MCLan
  Width = 2
  RelayCapable = {R}
  Mdns = TRUE
  MaxConns = 2
  MaxDials = 1
  MaxListeners = 2
VIEW View
CONSTRAINT Small
INVARIANTS
    PolicyHolds
    BooksAreExact
CHECK_DEADLOCK FALSE
