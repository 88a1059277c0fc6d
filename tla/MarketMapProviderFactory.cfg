CONSTANTS
  EndpointCounts = {0, 1, 2, 3}
SPECIFICATION Spec
INVARIANT NoEndpointPanic
\* Construction is one call: after Build the factory has returned and
\* nothing in this module moves again.
CHECK_DEADLOCK FALSE
