------------------------------ MODULE MCRtpWeb ------------------------------
EXTENDS RtpWeb

\* 30 is a sample the codec renders too faintly, 1 one it loses; 20 and 21 come
\* out one apart.
MCStrictLevel == [x \in {0, 1, 20, 21, 30} |->
                    CASE x = 20 -> 18 [] x = 21 -> 19 [] x = 30 -> 1 [] OTHER -> 0]
MCEnhancedLevel == [x \in {0, 1, 20, 21, 30} |->
                      CASE x = 20 -> 21 [] x = 21 -> 22 [] x = 30 -> 5 [] OTHER -> 0]

\* Four loud samples with one a level off, shifted by one, have a ratio of 972 or
\* 1009 to 1, which is more than an exact match counts as here.
MCExactRatio == <<500, 1>>

MCRecordings ==
  { <<>>, <<1>>, <<30, 30>>, <<0, 0>>, <<20>>, <<20, 0, 30>>, <<1, 20, 20, 0>>,
    <<21, 20, 20, 20>>, <<20, 20, 20, 21>>,
    <<20, 20, 0, 0, 20>>, <<0, 20, 30, 20, 20, 1>>, <<20, 1, 20, 30, 20, 0, 20>> }

\* FFmpeg is missing (no samples), agrees, is up to two samples late, loses the
\* last frame, or is far too loud.
MCReferences(s) ==
  { <<>>, [i \in DOMAIN s |-> 40],
    SubSeq(s, 1, IF Len(s) < 2 THEN 0 ELSE Len(s) - 2) }
  \union { [i \in DOMAIN s |-> IF i <= d THEN 0 ELSE s[i - d]] : d \in 0 .. 2 }
=============================================================================
