SPECIFICATION GatewaySpec
CONSTANTS
    Publishes = {p1}
    Subscribes = {s1}
    Readies = {r1}
    NoProxy = NoProxy
CHECK_DEADLOCK FALSE
PROPERTY PublishedIsSent
