----------------------------- MODULE MCAdoption -----------------------------
(* Instance of the adoption model: one registered root with two folders,   *)
(* one of them not media, and a second root that may be registered later.  *)
EXTENDS Adoption

MCDisk == {<<"movies", "film">>, <<"movies", "photos">>, <<"tv", "show">>}

=============================================================================
