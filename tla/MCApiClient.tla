----------------------------- MODULE MCApiClient -----------------------------
(* Two tabs of one browser, each of which can refresh. *)
EXTENDS ApiClient

==============================================================================
