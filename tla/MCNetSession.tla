---------------------------- MODULE MCNetSession ----------------------------
(***************************************************************************)
(* Small tables for TLC: two user objects for two connections, so that     *)
(* objects are reused while others are in use, and one live id per stream  *)
(* type, so that a type fills up and a second start may be refused.        *)
(***************************************************************************)
EXTENDS NetSession

CONSTANTS a, b
TwoConns == {a, b}

\* Live streams beside P2P packets, everything else, and talk beside P2P.  All
\* requests at once are some tens of millions of states; the theorems are for
\* any menus.
SmallMenus == {{"video", "p2p"}, {"talk", "playback", "update"}, {"talk", "p2p"}}
=============================================================================
