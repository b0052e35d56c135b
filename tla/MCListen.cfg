\* Up to two address entries, the three backends of a DBUS_BUILD_TESTS
\* build, with and without an error location: every sequence of backend
\* answers of that size.
CONSTANTS
  MaxEntries = 2
  NumBackends = 3
  ErrorPtrs = {TRUE, FALSE}
SPECIFICATION Spec
INVARIANTS
  TypeOK
  ListenResult
