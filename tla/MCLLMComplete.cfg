\* Two calls over one connection, which streams take too: a call meets the pool
\* timeout while another or a stream is in flight.  Two attempts are the fewest
\* with a retry and an end of the loop.
SPECIFICATION CompleteSpec
CONSTANTS
  Calls = {k1, k2}
  MaxRetries = 2
  Pool = 1
INVARIANTS
  ResponsesNotRetried
  DuplicatesInDoubt
CHECK_DEADLOCK FALSE
