---------------------------- MODULE MCApiRequest ----------------------------
(* Values of the constants of ApiRequest for TLC. *)
EXTENDS ApiRequest

(* A server at the root and below one and two names, with and without the  *)
(* slash at the end, and a URL that does not parse.                        *)
SmallEndpoints ==
  [base : {<< >>, <<"proxy">>, <<"proxy", "signer">>}, slash : BOOLEAN, valid : {TRUE}]
  \cup {[base |-> << >>, slash |-> FALSE, valid |-> FALSE]}
=============================================================================
