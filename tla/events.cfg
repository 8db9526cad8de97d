\* Every interleaving of an append, its retry, the end of a session, a batch and a forwarded request.
SPECIFICATION MCSpec
CONSTANTS
  Calls = {append, retry, end, batch, forward}
  Streams = {s1, s2}
  Keys = {k1, k2, k3, k4}
  NoKey = NoKey
  Script <- MCScript
  StopsOnError <- MCStops
  append = append
  retry = retry
  end = end
  batch = batch
  forward = forward
  s1 = s1
  s2 = s2
  k1 = k1
  k2 = k2
  k3 = k3
  k4 = k4
INVARIANTS OneEventPerKey AnswersAreTrue HistoryIsLinear
 
CHECK_DEADLOCK FALSE
