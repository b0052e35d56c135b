\* One or two entries and two backends are enough for a DID_NOT_CONNECT
\* followed by an OK or a BAD_ADDRESS.
CONSTANTS
  MaxEntries = 2
  NumBackends = 2
  ErrorPtrs = {TRUE, FALSE}
SPECIFICATION Spec
INVARIANT NoErrorLeak
