------------------------------ MODULE WebAuthn ------------------------------
(***************************************************************************)
(* The WebAuthn ceremonies of one operator, who may have several requests  *)
(* in flight: register-begin, register-finish, login-begin, login-finish,  *)
(* and the revocation of a credential.                                     *)
(*                                                                         *)
(* Sessions (one per purpose) and the registration metadata are two maps   *)
(* in memory with their own locks; credentials are in Badger.  The signed  *)
(* answers of the authenticators are external: any credential may sign any *)
(* challenge it was shown, with any counter (a cloned key repeats one).    *)
(***************************************************************************)
EXTENDS Naturals, FiniteSets, Sequences

CONSTANTS Requests,      \* requests of the operator that can be in flight
          Credentials,   \* credential IDs of the operator's authenticators
          CNs,           \* certificate names a credential may be bound to
          MaxChallenge,  \* ceremonies begun
          MaxCount       \* largest signature counter

Unbound    == ""  \* required_cn of a credential bound to no certificate
NoID       == ""

ASSUME WebAuthnAssumption ==
    /\ MaxChallenge \in Nat /\ MaxCount \in Nat
    /\ Unbound \notin CNs

Bindings   == CNs \cup {Unbound}
Challenges == 1 .. MaxChallenge
NoSession  == 0
NoMeta     == "none"

VARIABLES sessions,  \* [register, login]: the challenge of the pending session
          meta,      \* the binding stashed by register-begin, or NoMeta
          creds,     \* the stored credentials: [cn, count, by], by the challenge
          issued,    \* challenges handed out so far
          asked,     \* the binding each register-begin asked for
          signed,    \* authenticator answers the operator holds
          reqs,      \* progress of the requests
          minted     \* the tokens minted, in order: [chal, n, cn, by]

ceremonyVars == <<sessions, meta, creds, issued, asked, signed, reqs, minted>>

NoCred == [cn |-> Unbound, count |-> 0, by |-> 0]
Idle   == [pc |-> "idle", chal |-> 0, cred |-> NoID, n |-> 0, cn |-> Unbound, by |-> 0]

WebAuthnInit ==
    /\ sessions = [register |-> NoSession, login |-> NoSession]
    /\ meta = NoMeta
    /\ creds = [k \in Credentials |-> NoCred]
    /\ issued = 0 /\ asked = [c \in Challenges |-> Unbound]
    /\ signed = {}
    /\ reqs = [r \in Requests |-> Idle]
    /\ minted = <<>>

Stored == {k \in Credentials : creds[k] # NoCred}

\* SessionStore.Put overwrites the pending session of that purpose.
Put(purpose, chal) == sessions' = [sessions EXCEPT ![purpose] = chal]

\* Mutant: the session stays for a second use.
Pop_Keeps(purpose) == sessions' = sessions

\* SessionStore.Pop removes the session whatever comes of it.
Pop(purpose) == sessions' = [sessions EXCEPT ![purpose] = NoSession]

Begin(purpose) ==
    /\ issued < MaxChallenge
    /\ issued' = issued + 1
    /\ Put(purpose, issued + 1)

-----------------------------------------------------------------------------
(* Registration.                                                           *)

\* The session is put, and only then is the metadata stashed.
RegisterBegin(r) ==
    /\ reqs[r].pc = "idle"
    /\ Begin("register")
    /\ \E cn \in Bindings :
          /\ asked' = [asked EXCEPT ![issued + 1] = cn]
          /\ reqs' = [reqs EXCEPT ![r] = [Idle EXCEPT !.pc = "stash", !.chal = issued + 1, !.cn = cn]]
    /\ UNCHANGED <<meta, creds, signed, minted>>

stashRegisterMetadata(r) ==
    /\ reqs[r].pc = "stash"
    /\ meta' = reqs[r].cn
    /\ reqs' = [reqs EXCEPT ![r] = Idle]
    /\ UNCHANGED <<sessions, creds, issued, asked, signed, minted>>

\* FinishRegistration accepts an answer to the challenge of the session.
RegisterFinish(r, a) ==
    /\ reqs[r].pc = "idle"
    /\ Pop("register")
    /\ reqs' = IF sessions.register = a.chal
               THEN [reqs EXCEPT ![r] = [Idle EXCEPT !.pc = "create", !.chal = a.chal, !.cred = a.cred, !.n = a.n]]
               ELSE reqs
    /\ UNCHANGED <<meta, creds, issued, asked, signed, minted>>

\* The metadata is popped and the record created; an ID known to the store
\* is an error, and missing metadata is no binding.
RegisterCreate(r) ==
    /\ reqs[r].pc = "create"
    /\ meta' = NoMeta
    /\ creds' = IF reqs[r].cred \in Stored THEN creds
                ELSE [creds EXCEPT ![reqs[r].cred] =
                        [cn |-> IF meta = NoMeta THEN Unbound ELSE meta, count |-> reqs[r].n, by |-> reqs[r].chal]]
    /\ reqs' = [reqs EXCEPT ![r] = Idle]
    /\ UNCHANGED <<sessions, issued, asked, signed, minted>>

-----------------------------------------------------------------------------
(* Login.                                                                  *)

LoginBegin(r) ==
    /\ reqs[r].pc = "idle"
    /\ Stored # {}
    /\ Begin("login")
    /\ UNCHANGED <<meta, creds, asked, signed, reqs, minted>>

\* FinishLogin, over the credentials listed now.  The library keeps the
\* larger of the listed and the signed counter.
LoginFinish(r, a) ==
    /\ reqs[r].pc = "idle"
    /\ Pop("login")
    /\ reqs' = IF sessions.login = a.chal /\ a.cred \in Stored
               THEN [reqs EXCEPT ![r] =
                       [Idle EXCEPT !.pc = "count", !.chal = a.chal, !.cred = a.cred,
                                    !.n = IF a.n > creds[a.cred].count THEN a.n ELSE creds[a.cred].count]]
               ELSE reqs
    /\ UNCHANGED <<meta, creds, issued, asked, signed, minted>>

\* Mutant: an equal counter passes.
verifyNotReplay_AtLeast(stored, observed) == observed >= stored

\* Two zeros are a key without a counter.
verifyNotReplay(stored, observed) == (stored = 0 /\ observed = 0) \/ observed > stored

\* UpdateSignCount reads, compares and writes in one Badger transaction.
UpdateSignCount(r) ==
    /\ reqs[r].pc = "count"
    /\ IF reqs[r].cred \in Stored /\ verifyNotReplay(creds[reqs[r].cred].count, reqs[r].n)
       THEN /\ creds' = [creds EXCEPT ![reqs[r].cred].count = reqs[r].n]
            /\ reqs' = [reqs EXCEPT ![r].pc = "load", ![r].by = creds[reqs[r].cred].by]
       ELSE /\ reqs' = [reqs EXCEPT ![r] = Idle]
            /\ UNCHANGED creds
    /\ UNCHANGED <<sessions, meta, issued, asked, signed, minted>>

\* The record is read again for its binding; by now it may be revoked.
LoginLoad(r) ==
    /\ reqs[r].pc = "load"
    /\ reqs' = IF reqs[r].cred \in Stored
               THEN [reqs EXCEPT ![r].pc = "mint", ![r].cn = creds[reqs[r].cred].cn]
               ELSE [reqs EXCEPT ![r] = Idle]
    /\ UNCHANGED <<sessions, meta, creds, issued, asked, signed, minted>>

\* GenerateTokenWithClaims: required_cn is the binding, the method webauthn.
LoginMint(r) ==
    /\ reqs[r].pc = "mint"
    /\ minted' = Append(minted, [chal |-> reqs[r].chal, n |-> reqs[r].n,
                                 cn |-> reqs[r].cn, by |-> reqs[r].by])
    /\ reqs' = [reqs EXCEPT ![r] = Idle]
    /\ UNCHANGED <<sessions, meta, creds, issued, asked, signed>>

-----------------------------------------------------------------------------
\* handleWebAuthnRevokeCredential: both keys go in one transaction.
RevokeCredential ==
    /\ \E k \in Stored : creds' = [creds EXCEPT ![k] = NoCred]
    /\ UNCHANGED <<sessions, meta, issued, asked, signed, reqs, minted>>

\* The five minutes of a session, or of the metadata, run out.
Expire ==
    /\ \/ \E purpose \in {"register", "login"} :
            sessions[purpose] # NoSession /\ Pop(purpose) /\ UNCHANGED meta
       \/ meta # NoMeta /\ meta' = NoMeta /\ UNCHANGED sessions
    /\ UNCHANGED <<creds, issued, asked, signed, reqs, minted>>

\* An authenticator of the operator answers a challenge it has been sent: a
\* begin request sends it once it is done.
Sign ==
    /\ \E chal \in 1 .. issued, k \in Credentials, n \in 0 .. MaxCount :
          /\ \A r \in Requests : reqs[r].pc = "stash" => reqs[r].chal # chal
          /\ \A a \in signed : a.chal # chal
          /\ signed' = signed \cup {[chal |-> chal, cred |-> k, n |-> n]}
    /\ UNCHANGED <<sessions, meta, creds, issued, asked, reqs, minted>>

Restart ==
    /\ sessions' = [register |-> NoSession, login |-> NoSession]
    /\ meta' = NoMeta
    /\ reqs' = [r \in Requests |-> Idle]
    /\ UNCHANGED <<creds, issued, asked, signed, minted>>

WebAuthnNext ==
    \/ \E r \in Requests :
          \/ RegisterBegin(r) \/ stashRegisterMetadata(r) \/ RegisterCreate(r)
          \/ LoginBegin(r) \/ UpdateSignCount(r) \/ LoginLoad(r) \/ LoginMint(r)
          \/ \E a \in signed : RegisterFinish(r, a) \/ LoginFinish(r, a)
    \/ RevokeCredential \/ Expire \/ Sign \/ Restart

WebAuthnSpec == WebAuthnInit /\ [][WebAuthnNext]_ceremonyVars

-----------------------------------------------------------------------------
WebAuthnTypeOK ==
    /\ sessions \in [register: 0 .. MaxChallenge, login: 0 .. MaxChallenge]
    /\ meta \in Bindings \cup {NoMeta}
    /\ creds \in [Credentials -> [cn: Bindings, count: 0 .. MaxCount, by: 0 .. MaxChallenge]]
    /\ issued \in 0 .. MaxChallenge
    /\ asked \in [Challenges -> Bindings]
    /\ signed \subseteq [chal: Challenges, cred: Credentials, n: 0 .. MaxCount]
    /\ reqs \in [Requests -> [pc: {"idle", "stash", "create", "count", "load", "mint"},
                              chal: 0 .. MaxChallenge, cred: Credentials \cup {NoID},
                              n: 0 .. MaxCount, cn: Bindings, by: 0 .. MaxChallenge]]

\* One challenge is good for one ceremony: no two tokens, and no token and a
\* stored credential, come from the same challenge, although the requests of
\* the operator overlap and answers are sent twice (SessionStore.Pop).
ChallengeUsedOnce ==
    /\ \A i, j \in DOMAIN minted : minted[i].chal = minted[j].chal => i = j
    /\ \A i \in DOMAIN minted, k \in Stored : minted[i].chal # creds[k].by

\* A cloned key is noticed: no two tokens rest on the same counter of one
\* registration of a credential (by is the challenge that registered it), but
\* for keys without a counter, although the check of the counter, the load of
\* the record and the mint are separate steps of overlapping logins, between
\* which the credential may be revoked and registered anew (UpdateSignCount).
CounterUsedOnce ==
    \A i, j \in DOMAIN minted :
        i # j /\ minted[i].by = minted[j].by => minted[i].n # minted[j].n \/ minted[i].n = 0

\* A credential is bound to the certificate that its own register-begin asked
\* for (handlers_webauthn.go: the metadata is stashed alongside the session).
BoundAsAsked == \A k \in Stored : creds[k].cn = asked[creds[k].by]

=============================================================================
