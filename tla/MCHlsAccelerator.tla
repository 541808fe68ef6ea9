-------------------------- MODULE MCHlsAccelerator --------------------------
(* Values of the constants of HlsAccelerator that a configuration cannot    *)
(* express.                                                                 *)
EXTENDS HlsAccelerator

\* The pooled outputs of the two convolutions.
MCShapes == {[rows |-> 14, cols |-> 14], [rows |-> 5, cols |-> 5]}

\* Where a byte wraps, where each layer's scaled sum reaches 1 and 128, where a
\* sum no longer fits 16 bits, and the largest sum of each layer.  The first
\* one exceeds what any layer's weights permit.
MCSums ==
  { -6553600, -1063680, -102144, -65537, -65536, -65535, -505, -504, -1, 0, 1,
    195, 196, 206, 504, 505, 736, 737, 1000, 25041, 25042, 64527, 64528, 94000,
    94255, 94256, 102144, 519296, 1063680 }
=============================================================================
