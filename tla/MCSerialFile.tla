---------------------------- MODULE MCSerialFile ---------------------------
EXTENDS SerialFile
MCWidths == <<1, 7, 5, 5, 8, 1, 13, 4, 3, 4, 5, 13, 4, 3, 4>>
MCFrameValues ==
  {<<1, 100, 3, 17, 200, 1, 5001, 9, 6, 11, 21, 4096, 6, 1, 8>>,
   <<0, 0, 0, 0, 0, 1, 0, 0, 0, 0, 0, 0, 0, 0, 0>>}
=============================================================================
