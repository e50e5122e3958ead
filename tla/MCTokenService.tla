--------------------------- MODULE MCTokenService ---------------------------
(* TokenService on clients of one tenant: their grants, and their           *)
(* administration.                                                          *)
EXTENDS TokenService, TLC

CONSTANTS web, cli, acme, read, write, k1, r1, r2, t1, t2, c1, c2

MCClientTenant == [client \in Clients |-> acme]

\* Interactive clients keep no secret; a machine client starts with its first.
MCPublic == [client \in Clients |-> "none"]
MCConfidential == [client \in Clients |-> "shared_secret"]

Call(kind, client, scopes, token) ==
  [kind |-> kind, client |-> client, secret |-> 1, asserted |-> FALSE, scopes |-> scopes,
   token |-> token, proof |-> TRUE]

\* web takes a code and redeems it and what it gets; cli tries the same code.
GrantInputs ==
  {Call("authorize", web, {read, write}, NoToken),
   Call("authorization_code", web, {read, write}, k1),
   Call("authorization_code", cli, {read, write}, k1),
   Call("refresh_token", web, {read}, r1)}

\* Machine clients, their tokens, and their administration.
AdminInputs ==
  {Call("client_credentials", web, {read, write}, NoToken),
   [Call("client_credentials", web, {read}, NoToken) EXCEPT !.asserted = TRUE],
   [kind |-> "bearer", client |-> web, token |-> t1],
   [kind |-> "update", client |-> web, patch |-> [active |-> FALSE]],
   [kind |-> "update", client |-> web, patch |-> [method |-> "private_key_jwt"]],
   [kind |-> "update", client |-> web, patch |-> <<>>],
   [kind |-> "rotate", client |-> web]}

Interchangeable == Permutations({c1, c2}) \cup Permutations(AccessIds)
TwoCalls == Permutations({c1, c2})

NoPatches == {}
MCPatches ==
  {[scopes |-> {read}], [active |-> FALSE], [method |-> "private_key_jwt"], <<>>}

=============================================================================
