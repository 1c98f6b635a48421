SPECIFICATION Spec
CONSTANTS
    Words = {"", "a", "b"}
    Payloads <- MCPayloads
    Values <- MCValues
    Depth <- MCDepth
    Urls <- MCUrls
    MaxListed = 2
    MaxRecipients = 1
    MaxPayload = 5
INVARIANT
    OneBudgetPerHost
