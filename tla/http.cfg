CONSTANTS
    Messages <- MCMessages
    Streamed <- MCStreamed
    Lines <- MCLines
    Fields <- MCFields
    MaxSent = 3
    MaxAhead = 8
    MaxRequests = 2
    MaxHeaders = 3
    LineMax = 17
    UrlMax = 3
    NameMax = 3
    ValueMax = 4
    HeaderMax = 10
    BodyMax = 22
    MessageMax = 40
    SizeRange = 1000
SPECIFICATION Spec
INVARIANTS
    DeliversMessage
    HeadDelivered
    ServesAll
    BufferHoldsRest
CHECK_DEADLOCK FALSE
