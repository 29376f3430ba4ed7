\* The free tier's 3 requests, a window of 4 ticks, Redis failing at will until it recovers.
SPECIFICATION QuotaSpec
CONSTANTS
    MaxRequests = 3
    Window = 4
PROPERTIES GrantsWithinQuota QuotaComesBack
