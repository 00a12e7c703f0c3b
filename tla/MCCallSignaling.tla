-------------------------- MODULE MCCallSignaling --------------------------
(* The instances of CallSignaling that TLC checks.                         *)
EXTENDS CallSignaling

Budget(t, f, r) == [taps |-> t, faults |-> f, restarts |-> r]

\* Long conversations about recording on a session that loses nothing, and
\* shorter ones with a lost send, a restart or both.
MCBudgets == {Budget(2, 0, 0), Budget(1, 1, 0), Budget(1, 0, 1), Budget(0, 1, 1)}

\* Enough taps for a second request after a withdrawn one.
MCLongBudgets == {Budget(3, 0, 0)}

=============================================================================
