SPECIFICATION HandlerSpec
CONSTANTS
    Workers = {w1, w2, w3}
    Events = {e1, e2}
    Channels = {log, push}
    NoEvent = NoEvent
INVARIANTS
    InboxMatchesNotifications
    NotifiedOnce
    HandlerInv
PROPERTIES
    HandledAtomically
    CallsEnd
