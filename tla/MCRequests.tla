----------------------------- MODULE MCRequests -----------------------------
(* Two routers, one on the API's root and one beneath it on a path of a    *)
(* plug-in's own, with every choice of options, middlewares and handlers.  *)
EXTENDS Requests, TLC

CONSTANTS api, models, custom

MCBeneath == api :> {api, models, custom} @@ models :> {models} @@ custom :> {custom}
MCRoot == <<api, custom>>
=============================================================================
