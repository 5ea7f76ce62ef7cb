CONSTANTS
    MaxOpens = 3
    Requests = {1001, 1003, 9900, 10001, 10002, 10003}
SPECIFICATION Spec
INVARIANTS
    TypeOK
    TicketNamesOneTrade
    BookMatchesAnswers
    AnnouncedIsOnRecord
