------------------------- MODULE MCTabObjectScrub --------------------------
(* Two tabs, two origins, and one path: the origin is all that the       *)
(* permission checks read, and kScrubTabUrlToOrigin, the only behaviour  *)
(* that would tell paths apart, is never chosen by the code.  The        *)
(* extension lacks the "tabs" permission, which would let it read every  *)
(* tab; its access comes from activeTab and host grants.                 *)
EXTENDS TabObjectScrub

MCOrigins == {"o1", "o2"}
MCPaths == {"/"}
MCTabs == {1, 2}
=============================================================================
