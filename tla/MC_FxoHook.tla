----------------------------- MODULE MC_FxoHook -----------------------------
\* One FXO module with the line voltage below, near 0 and above battthresh
\* in both polarities, and the ring-detect bits idle or crossing.  The
\* millisecond parameters are scaled down so that every debounce takes a
\* few checks: ringdebounce 32 (2 checks to RING with the default detector,
\* 2 with the firmware one), battdebounce 1, battalarm 2, polarity 2; neon
\* MWI at level 2 with envelope 1, NEONMWI_ON_DEBOUNCE 1 and an off limit
\* of 3 checks.  The further configurations keep battdebounce 2, battalarm 4.
EXTENDS FxoHook

MC_Voltages == {-3, 0, 3}
MC_RingBits == {0, 32, 64}
====
