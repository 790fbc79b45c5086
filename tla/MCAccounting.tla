---------------------------- MODULE MCAccounting ----------------------------
(* Accounting with three processes on two harts.                           *)
EXTENDS Accounting

\* A negative argument of setusagelimit() removes the limit.
MCLimits == {-1, 1}

\* A negative argument of pause() counts as 0.
MCNaps == {-1, 2}

\* Limits, reports and pauses touch one another only through the clock and
\* the process table, which all programs share.
MCWorkloads ==
  {{"fork", "setusagelimit", "kill"}, {"fork", "pause", "kill"},
   {"fork", "getsyshealth"}, {"fork", "proccost"}}
=============================================================================
