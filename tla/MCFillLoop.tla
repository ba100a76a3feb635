----------------------------- MODULE MCFillLoop -----------------------------
\* The smallest instance of the taker's fill loop: one lot, one run, V1 deals.
EXTENDS FillLoop
=============================================================================
