SPECIFICATION Spec
CONSTANTS
    IntMax = 12
    MaxDepth = 2
    MaxBytes = 62
    Calls <- MCCalls
    Texts <- MCTexts
    Doubles <- MCDoubles
    RawValues <- MCRawValues
    MaxCalls = 4
INVARIANTS MessageRoundTrip PartialMessageIsRefused ExtractionStaysInside MembersAreFound ValuesSurvive
