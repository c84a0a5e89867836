CONSTANTS
  Proc = {0, 1}
  Messages <- MCMessages
  nglobalverts = 4
  FLT_MAX = 99
  Programs <- MCPrograms
SPECIFICATION FairSpec
INVARIANTS  RightIsAccepted
 
