\* Texts of up to four bytes, most of them at the ends of the digit ranges.
SPECIFICATION FairSpec
CONSTANTS
    Texts <- MCTexts
    Digests <- MCDigests
    DigestLen = 2
INVARIANTS
    TypeOK
    ComparisonsAgree
PROPERTY
    DecodeReturns
\* decode() returns once and stops.
CHECK_DEADLOCK FALSE
