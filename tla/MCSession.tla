------------------------------ MODULE MCSession ------------------------------
(***************************************************************************)
(* A small instance of Session.tla for TLC: the API below the site's path. *)
(* The other instances are parts of MCShop.tla and MCProgress.tla.         *)
(***************************************************************************)
EXTENDS Session, TLC

CONSTANTS t1, t2, r1, r2

\* Two tabs with one request each.
OneEach == r1 :> t1 @@ r2 :> t2

\* VITE_API_URL of .env.example, and the default of the client: /api.
ApiBelowSite == <<"api">>
=============================================================================
