---------------------------- MODULE MCGainSearch ----------------------------
EXTENDS GainSearch

\* The codebooks of internal/tables at every other entry, in Q2 and Q1.
MCGBK1 == << [gp |-> 0, gamma |-> 0], [gp |-> 0, gamma |-> 1],
             [gp |-> 1, gamma |-> 2], [gp |-> 0, gamma |-> 7] >>
MCGBK2 == << [gp |-> 0, gamma |-> 1], [gp |-> 1, gamma |-> 0],
             [gp |-> 2, gamma |-> 1], [gp |-> 3, gamma |-> 0],
             [gp |-> 4, gamma |-> 3], [gp |-> 5, gamma |-> 1] >>

\* A target far above what the two vectors can reach makes a long linear term.
MCVectors ==
  [x : {<<0, 0>>, <<3, -2>>, <<250, -190>>},
   y : {<<0, 0>>, <<1, 0>>, <<3, -2>>, <<2, 3>>},
   z : {<<0, 0>>, <<3, -2>>, <<-3, 3>>, <<2, 3>>, <<-1, -3>>}]
=============================================================================
