-------------------------------- MODULE Pages --------------------------------
(***************************************************************************)
(* What the lists of both services share.                                   *)
(***************************************************************************)
CONSTANTS
  Limits,       \* page sizes that clients ask for, after NormalizeLimit
  None          \* the absent value
=============================================================================
