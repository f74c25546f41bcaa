------------------------------ MODULE MCBitDomain ------------------------------
(* Words of two bits and six values: three words, the last one full, so that  *)
(* counts end at a word boundary and past the array.  The domain starts below *)
(* zero and arguments reach one past both ends.                               *)
EXTENDS BitDomain

MCIMin == -2
MCArguments == (IMin - 1)..(IMin + N)
================================================================================
