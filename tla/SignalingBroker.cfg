CONSTANTS
  Session = {s1, s2}
  Handle = {h1, h2, h3}
  None = None
  MaxSessions = 1
  SessionTtl = 1
  TicketTtls = {1}
SPECIFICATION BrokerSpec
SYMMETRY Symmetry
INVARIANTS RoutingSound DeliveryScoped
PROPERTIES KeepsPromise
