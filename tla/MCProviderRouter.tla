-------------------------- MODULE MCProviderRouter --------------------------
(* A configuration like config/provider/routes.yaml: a route with a pool   *)
(* and a chain of fallbacks that ends in the local rules engine, and a     *)
(* route whose provider has no key.                                        *)
EXTENDS ProviderRouter

CONSTANTS main, second, unkeyed, local, stale

Provider(r) == CASE r = main -> "gemini" [] r = second -> "deepseek"
                 [] r = unkeyed -> "groq" [] OTHER -> "local"
Pool(r) == CASE r = main -> <<"m1", "m2">> [] r = second -> <<"m3">>
             [] r = unkeyed -> <<"m4">> [] OTHER -> <<"rules">>
Chained(r) == CASE r = main -> <<stale, unkeyed>> [] r = unkeyed -> <<second>>
                [] OTHER -> <<>>
Cost(r) == CASE r = main -> 2 [] r = second -> 1 [] OTHER -> 0
=============================================================================
