---------------------------- MODULE MCLspMirror -----------------------------
(***************************************************************************)
(* An instance of LspMirror for TLC.  The rows are those the code's tables *)
(* hold under the indices in the comments.  The sum of rows 103, 4 and 29  *)
(* is so far out of order that the two rearrangements do not repair it;    *)
(* rows 121 and 11 reach the upper edge.                                   *)
(***************************************************************************)
EXTENDS LspMirror

MCCodebookL1 ==
  0 :> <<3256, 4791, 6601, 7521, 8644, 9707, 13398, 16078, 19102, 20249>>  \* 103
  @@ 1 :> <<1187, 2227, 4737, 7214, 9622, 12633, 15404, 17968, 20262, 23533>>
                                                                          \* 121

MCCodebookL2 ==
  0 :> <<171, -350, 294, 1660, 453>>        \* 4
  @@ 1 :> <<-435, -815, -742, 1033, -518>>  \* 0

MCCodebookL3 ==
  0 :> <<-1182, -744, 1340, 262, 63>>       \* 29
  @@ 1 :> <<450, -466, -108, 1010, 2223>>   \* 11

MCColdSpectrum ==
  <<3388, 5359, 7169, 8973, 10849, 12869, 14888, 16764, 18567, 20378>>

MCSpectra ==
  {<<3100, 4500, 6900, 8900, 9300, 9900, 13000, 16900, 19200, 20400>>}

\* A voiced spectrum after silence, and three rows it is compared with: the
\* distance of the second is a little more than 2^31.
MCVoicedSpectra ==
  {<<388, 866, 1785, 2688, 3273, 4250, 7916, 9097, 18123, 20482>>}

MCVoicedL1 ==
  0 :> <<2147, 3106, 4475, 6511, 8227, 9765, 10984, 12161, 18971, 21300>>  \* 41
  @@ 1 :> <<3460, 5741, 9596, 11742, 14413, 16080, 18173, 19090, 20845, 21601>>
                                                                          \* 80
  @@ 2 :> <<2860, 3735, 4838, 6044, 7254, 8402, 14031, 16381, 18037, 19410>>
                                                                          \* 111

\* Squares of an eighth of the difference.
MCWeightedError(omega, lsf, coordinates) ==
  LET d(i) == (omega[i] - lsf[i]) \div 8
      sum[i \in 0..10] ==
        IF i = 0 THEN 0
        ELSE sum[i - 1] + (IF i \in coordinates THEN d(i) * d(i) ELSE 0)
  IN sum[10]

MCLsfToLsp(w) == 32767 - (5 * w) \div 2
=============================================================================
