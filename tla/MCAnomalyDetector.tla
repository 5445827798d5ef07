-------------------------- MODULE MCAnomalyDetector --------------------------
EXTENDS AnomalyDetector, TLC

\* One rate in each band, each on the upper edge of its band where it has one.
MCRates == {NaN, 1, 6, 14, 15}

\* No action tells two SLOs apart.
MCSymmetry == Permutations(Keys)
=============================================================================
