----------------------------- MODULE MCRtpCheck -----------------------------
EXTENDS RtpCheck
MCCheckerOptions ==
  {[strict |-> TRUE, decode |-> TRUE, ptime |-> 20],
   [strict |-> TRUE, decode |-> TRUE, ptime |-> 0],
   [strict |-> FALSE, decode |-> TRUE, ptime |-> 0]}
MCLimits ==
  {[ptime |-> -1, strict |-> TRUE, decode |-> TRUE, maxStreams |-> 0,
    maxSkipped |-> -1],
   [ptime |-> 20, strict |-> TRUE, decode |-> TRUE, maxStreams |-> 1,
    maxSkipped |-> 0]}
=============================================================================
