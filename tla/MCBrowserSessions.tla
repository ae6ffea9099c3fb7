-------------------------- MODULE MCBrowserSessions --------------------------
(***************************************************************************)
(* Values for the constants of BrowserSessions.                            *)
(***************************************************************************)
EXTENDS BrowserSessions, TLC

CONSTANTS t1, t2, b1, b2, ann, bob

OneTab == t1 :> b1
TwoTabs == t1 :> b1 @@ t2 :> b1
TwoBrowsers == t1 :> b1 @@ t2 :> b2

\* The accounts may be exchanged, and the tabs together with their browsers.
Symmetric ==
  {f \in Permutations({t1, t2, b1, b2, ann, bob}) :
     /\ {f[ann], f[bob]} = {ann, bob} /\ {f[t1], f[t2]} = {t1, t2}
     /\ \A t \in Tabs : f[BrowserOf[t]] = BrowserOf[f[t]]}
=============================================================================
