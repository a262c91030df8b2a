------------------------------- MODULE Browser -------------------------------
(***************************************************************************)
(* A browser with the frontend open: the queries, the wallet and the       *)
(* transactions of a tab beside its windows.  The two share nothing but    *)
(* the fetch of a query that a window mounts, which Streams lets happen at *)
(* any time; so the windows move in the behaviours that follow no query.   *)
(***************************************************************************)
EXTENDS Tab, Desktop

browserVars == <<tabVars, desktopVars>>

\* A behaviour that follows a query starts, and stays, at the bare desktop.
BrowserInit == TabInit /\ DesktopInit /\ (feed # "none" => ids = <<>>)

BrowserNext ==
  \/ TabNext /\ UNCHANGED desktopVars
  \/ feed = "none" /\ DesktopNext /\ UNCHANGED tabVars

BrowserSpec == BrowserInit /\ [][BrowserNext]_browserVars /\ TabFairness
=============================================================================
