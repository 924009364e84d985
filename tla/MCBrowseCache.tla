--------------------------- MODULE MCBrowseCache ----------------------------
(* The movie list, the hot movies it also fills, and one search.           *)
EXTENDS BrowseCache
=============================================================================
