----------------------------- MODULE MCProtect -----------------------------
(***************************************************************************)
(* What the coordinator keeps safe over restarts and overlapping requests, *)
(* for TLC: the sealed values of Secrets, the tokens and certificates of   *)
(* Credentials, and the ceremonies of WebAuthn.  The three share no state: *)
(* a behaviour is of one part, the variables of the others keep their      *)
(* first value.                                                            *)
(***************************************************************************)
EXTENDS Secrets, Credentials, WebAuthn, TLC

CONSTANTS t1, t2, t3, c1, c2

VARIABLES part

mcVars == <<part, vars, credentialVars, ceremonyVars>>

Tokens == {t1, t2, t3}
Handlers == {c1, c2}

\* Two tokens that matter: an unbound one of a job, and an admin's bound to a
\* certificate and backed by WebAuthn.
Asks == {[role |-> "admin", cn |-> "alice", method |-> "webauthn"],
         [role |-> "job", cn |-> "", method |-> ""]}

Symmetric == Permutations(Tokens) \cup Permutations(Handlers)

MCInit ==
    /\ part \in {"secrets", "credentials", "webauthn"}
    /\ Init /\ CredentialsInit /\ WebAuthnInit
    /\ part # "secrets" => conf = NoRing

MCNext ==
    \/ part = "secrets" /\ Next /\ UNCHANGED <<part, credentialVars, ceremonyVars>>
    \/ part = "credentials" /\ CredentialsNext /\ UNCHANGED <<part, vars, ceremonyVars>>
    \/ part = "webauthn" /\ WebAuthnNext /\ UNCHANGED <<part, vars, credentialVars>>

MCSpec == MCInit /\ [][MCNext]_mcVars

=============================================================================
