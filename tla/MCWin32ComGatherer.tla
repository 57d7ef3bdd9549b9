------------------------- MODULE MCWin32ComGatherer -------------------------
(* Model-checking instance of Win32ComGatherer. *)
EXTENDS Win32ComGatherer

(* Property values 1 and 5, and uninitialised fields 0 or 6.  uint16    *)
(* and uint32 are 3 bits wide and uint64 4 bits, so two values of 5 wrap *)
(* a uint16 or uint32 sum; a DWORD is 8 bits, room for a percentage.    *)
(* getMaxNetSpeed's bases are 1, 2 and 4 (for the code's 10^4 .. 10^11, *)
(* scaled), so a speed of 3 lies between two of them and 5 beyond the  *)
(* last one.                                                           *)
PropertyValues == {1, 3, 5}
StackValues == {0, 6}
ScaledBits == [u16 |-> 3, u32 |-> 3, u64 |-> 4, dword |-> 8]
LoadValues == {0, 50}
=============================================================================
