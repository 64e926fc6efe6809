-------------------------- MODULE MCTraceSampling --------------------------
EXTENDS TraceSampling

\* Two sources whose limits exceed the global limit together, and one
\* that is never recorded.
MCLimits == [i2c |-> 1, button |-> 2, adc |-> 0]
=============================================================================
