---------------------------- MODULE Credentials ----------------------------
(***************************************************************************)
(* The credentials of the REST surface: JWTs and their JTI records, the    *)
(* root token that every boot of the coordinator rotates, the operator     *)
(* certificates with their revocation records, and the three middlewares   *)
(* a request passes (client certificate, bearer token, admin).             *)
(*                                                                         *)
(* The token store and the revocation records are on disk; the CA and the  *)
(* cache of revoked serials are not.  A crash may fall between any two     *)
(* steps of a boot or of a revocation.                                     *)
(***************************************************************************)
EXTENDS Naturals, FiniteSets, Authz

CONSTANTS Ids,       \* JTIs a mint can draw (uuid: never drawn twice)
          Serials,   \* serial numbers of operator certificates
          OperatorCNs,  \* common names
          Offered,   \* the claims admins ask for
          Callers,   \* handlers of POST /admin/operator-certs/{serial}/revoke
          CertTiers, HardwareTiers,  \* values of the two enforcement knobs
          MaxBoots,
          None

\* The empty string: no common name, no method, no role.
Blank == ""

Claims == [role: {"admin", "node", "job"}, cn: OperatorCNs \cup {Blank},
           method: {Blank, "webauthn"}]

ASSUME CredentialsAssumption ==
    /\ Offered \subseteq Claims
    /\ MaxBoots \in Nat \ {0}
    /\ CertTiers \cup HardwareTiers \subseteq {"off", "warn", "on"}
    /\ Blank \notin OperatorCNs /\ "refused" \notin OperatorCNs
    /\ None \notin Claims /\ None \notin Ids /\ None \notin Callers

VARIABLES phase,      \* where the coordinator is in its boot, or "up"
          boot,       \* number of this process; also the identity of its CA
          tiers,      \* [cert, hardware]: the knobs of this process
          claims,     \* what each minted token says (its signature protects it)
          jtis,       \* the JTI records on disk
          rootKey,    \* the root token on disk, or None
          root,       \* the root token this boot will hand out, or None
          published,  \* root tokens a boot has written to the token file
          killed,     \* tokens whose revocation has been answered
          certs,      \* what each serial was issued for
          onDisk,     \* revocation records: which caller's record is stored
          cache,      \* the same, in memory
          loaded,     \* whether this boot has a revocation store
          calls,      \* progress of the revocation handlers
          answers     \* the records that revocations of a serial returned

tokenVars == <<claims, jtis, rootKey, root, published, killed>>
certVars  == <<certs, onDisk, cache, loaded, calls, answers>>
credentialVars == <<phase, boot, tiers, tokenVars, certVars>>

NoCert == [cn |-> Blank, ca |-> 0]
NoCall   == [pc |-> "idle", serial |-> None, answer |-> None]

CredentialsInit ==
    /\ phase = "down" /\ boot = 0
    /\ tiers = [cert |-> "off", hardware |-> "off"]
    /\ claims = [t \in Ids |-> None] /\ jtis = {} /\ rootKey = None /\ root = None
    /\ published = {} /\ killed = {}
    /\ certs = [s \in Serials |-> NoCert]
    /\ onDisk = [s \in Serials |-> None] /\ cache = [s \in Serials |-> None]
    /\ loaded = FALSE
    /\ calls = [c \in Callers |-> NoCall]
    /\ answers = [s \in Serials |-> {}]

-----------------------------------------------------------------------------
(* Tokens.                                                                 *)

\* GenerateTokenWithClaims: a fresh JTI is signed, then its record is put.
Minted(t, c) ==
    /\ claims[t] = None
    /\ claims' = [claims EXCEPT ![t] = c]
    /\ jtis' = jtis \cup {t}

\* ValidateToken: ours, not expired, and its JTI record is there.
ValidToken(t) == claims[t] # None /\ t \in jtis

\* The TTL of a JTI record is the token's own, so both end together.
ExpireToken ==
    /\ \E t \in jtis : jtis' = jtis \ {t}
    /\ UNCHANGED <<phase, boot, tiers, claims, rootKey, root, published, killed, certVars>>

-----------------------------------------------------------------------------
(* The boot: RotateRootToken, step by step, then the revocation cache.     *)

\* HELION_ROTATE_TOKEN=false keeps a stored root token as it is.
Start ==
    /\ phase = "down" /\ boot < MaxBoots
    /\ boot' = boot + 1
    /\ \E ct \in CertTiers, hw \in HardwareTiers : tiers' = [cert |-> ct, hardware |-> hw]
    /\ \/ /\ phase' = (IF rootKey = None THEN "generate" ELSE "revoke")
          /\ root' = None
       \/ /\ rootKey # None
          /\ phase' = "publish" /\ root' = rootKey
    /\ UNCHANGED <<claims, jtis, rootKey, published, killed, certVars>>

\* Mutant: the old token's record is left alone, only the key is replaced.
RotateRevoke_KeyOnly ==
    /\ phase = "revoke" /\ phase' = "clear"
    /\ UNCHANGED <<boot, tiers, tokenVars, certVars>>

RotateRevoke ==
    /\ phase = "revoke" /\ phase' = "clear"
    /\ jtis' = IF ValidToken(rootKey) THEN jtis \ {rootKey} ELSE jtis
    /\ UNCHANGED <<boot, tiers, claims, rootKey, root, published, killed, certVars>>

RotateClear ==
    /\ phase = "clear" /\ phase' = "generate"
    /\ rootKey' = None
    /\ UNCHANGED <<boot, tiers, claims, jtis, root, published, killed, certVars>>

RotateGenerate ==
    /\ phase = "generate" /\ phase' = "store"
    /\ \E t \in Ids : /\ Minted(t, [role |-> "admin", cn |-> Blank, method |-> Blank])
                      /\ root' = t
    /\ UNCHANGED <<boot, tiers, rootKey, published, killed, certVars>>

RotateStore ==
    /\ phase = "store" /\ phase' = "publish"
    /\ rootKey' = root
    /\ UNCHANGED <<boot, tiers, claims, jtis, root, published, killed, certVars>>

\* WriteRootToken: the token file now holds this boot's root token.
Publish ==
    /\ phase = "publish" /\ phase' = "load"
    /\ published' = published \cup {root}
    /\ UNCHANGED <<boot, tiers, claims, jtis, rootKey, root, killed, certVars>>

\* NewBadgerRevocationStore scans the records before the listener opens.
LoadRevocations ==
    /\ phase = "load" /\ phase' = "up"
    /\ cache' = onDisk /\ loaded' = TRUE
    /\ UNCHANGED <<boot, tiers, tokenVars, certs, onDisk, calls, answers>>

\* When the scan fails the coordinator goes on without a revocation store.
LoadRevocationsFails ==
    /\ phase = "load" /\ phase' = "up"
    /\ UNCHANGED <<boot, tiers, tokenVars, certVars>>

CoordinatorCrash ==
    /\ phase # "down" /\ phase' = "down"
    /\ root' = None
    /\ cache' = [s \in Serials |-> None] /\ loaded' = FALSE
    /\ calls' = [c \in Callers |-> NoCall]
    /\ UNCHANGED <<boot, tiers, claims, jtis, rootKey, published, killed, certs, onDisk, answers>>

-----------------------------------------------------------------------------
(* A request and the middlewares.                                          *)

\* How a request arrives: without a certificate, over TLS with one, or from
\* the loopback proxy, which forwards the CN and perhaps the serial.
Peers == {[via |-> "none", serial |-> None]}
         \cup [via: {"tls", "proxy", "proxySerial"}, serial: Serials]

\* extractVerifiedPeer.  The handshake accepts only this process's CA; the
\* proxy verified the certificate against its own CA file.
verified(p) ==
    /\ p.via # "none"
    /\ certs[p.serial] # NoCert
    /\ p.via = "tls" => certs[p.serial].ca = boot

\* IsRevoked reads the cache; without a serial the proxy is trusted.
revoked(p) == p.via \in {"tls", "proxySerial"} /\ cache[p.serial] # None

\* clientCertMiddleware: the operator CN stamped on the request, "" for none.
clientCert(p) ==
    CASE tiers.cert = "off"                       -> Blank
      [] tiers.cert # "off" /\ p.via = "tls" /\ ~verified(p) -> "refused"
      [] tiers.cert # "off" /\ verified(p) /\ revoked(p)
             -> IF tiers.cert = "on" THEN "refused" ELSE Blank
      [] tiers.cert # "off" /\ verified(p) /\ ~revoked(p) -> certs[p.serial].cn
      [] OTHER -> IF tiers.cert = "on" THEN "refused" ELSE Blank

\* authMiddleware: the token validates and, when bound, the CN matches.
authenticated(t, cn) ==
    cn # "refused" /\ ValidToken(t) /\ claims[t].cn \in {Blank, cn}

\* The principal of the request: the certificate's, with no role, before
\* the token's.
principalOf(t, cn) ==
    IF cn # Blank THEN Operator(cn, Blank)
    ELSE CASE claims[t].role = "node" -> Node(t)
           [] claims[t].role = "job"  -> Job(t)
           [] OTHER                   -> User(t, claims[t].role)

\* adminMiddleware on any route but the four WebAuthn ceremony routes.
administers(t, p) ==
    LET cn == clientCert(p)
    IN  /\ authenticated(t, cn)
        /\ Allow(principalOf(t, cn), "admin", SystemResource)
        /\ tiers.hardware = "on" => claims[t].method = "webauthn"

AdminCall == phase = "up" /\ \E t \in Ids, p \in Peers : administers(t, p)

-----------------------------------------------------------------------------
(* The admin handlers.                                                     *)

\* handleIssueToken, and the WebAuthn login that mints with its own method.
IssueToken ==
    /\ AdminCall
    /\ \E t \in Ids, c \in Offered : Minted(t, c)
    /\ UNCHANGED <<phase, boot, tiers, rootKey, root, published, killed, certVars>>

\* handleRevokeToken: the record is deleted before the answer.
RevokeToken ==
    /\ AdminCall
    /\ \E t \in {u \in Ids : claims[u] # None} :
          jtis' = jtis \ {t} /\ killed' = killed \cup {t}
    /\ UNCHANGED <<phase, boot, tiers, claims, rootKey, root, published, certVars>>

\* handleIssueOperatorCert: the CA is wired only when the tier is not off.
IssueOperatorCert ==
    /\ AdminCall /\ tiers.cert # "off"
    /\ \E s \in Serials, cn \in OperatorCNs :
          /\ certs[s] = NoCert
          /\ certs' = [certs EXCEPT ![s] = [cn |-> cn, ca |-> boot]]
    /\ UNCHANGED <<phase, boot, tiers, tokenVars, onDisk, cache, loaded, calls, answers>>

\* handleRevokeOperatorCert.  Revoke reads the cache under the read lock.
RevokeCheck(c) ==
    /\ AdminCall /\ loaded
    /\ calls[c].pc = "idle"
    /\ \E s \in Serials :
          calls' = [calls EXCEPT ![c] =
                      [pc |-> IF cache[s] = None THEN "persist" ELSE "audit",
                       serial |-> s, answer |-> cache[s]]]
    /\ UNCHANGED <<phase, boot, tiers, tokenVars, certs, onDisk, cache, loaded, answers>>

\* Mutant: the record goes to the cache and is never written.
RevokePersist_CacheOnly(c) ==
    /\ calls[c].pc = "persist"
    /\ calls' = [calls EXCEPT ![c].pc = "cache"]
    /\ UNCHANGED <<phase, boot, tiers, tokenVars, certs, onDisk, cache, loaded, answers>>

\* The record is put before the write lock is taken; no lock covers both.
RevokePersist(c) ==
    /\ calls[c].pc = "persist"
    /\ onDisk' = [onDisk EXCEPT ![calls[c].serial] = c]
    /\ calls' = [calls EXCEPT ![c].pc = "cache"]
    /\ UNCHANGED <<phase, boot, tiers, tokenVars, certs, cache, loaded, answers>>

RevokePersistFails(c) ==
    /\ calls[c].pc = "persist"
    /\ calls' = [calls EXCEPT ![c] = NoCall]
    /\ UNCHANGED <<phase, boot, tiers, tokenVars, certs, onDisk, cache, loaded, answers>>

\* Under the write lock the first record stays, and is the one returned.
RevokeCache(c) ==
    /\ calls[c].pc = "cache"
    /\ LET s   == calls[c].serial
           rec == IF cache[s] = None THEN c ELSE cache[s]
       IN  /\ cache' = [cache EXCEPT ![s] = rec]
           /\ calls' = [calls EXCEPT ![c].pc = "audit", ![c].answer = rec]
    /\ UNCHANGED <<phase, boot, tiers, tokenVars, certs, onDisk, loaded, answers>>

\* The audit event comes before the answer; without it the answer is a 500.
RevokeAudit(c) ==
    /\ calls[c].pc = "audit"
    /\ \/ answers' = [answers EXCEPT ![calls[c].serial] = @ \cup {calls[c].answer}]
       \/ UNCHANGED answers
    /\ calls' = [calls EXCEPT ![c] = NoCall]
    /\ UNCHANGED <<phase, boot, tiers, tokenVars, certs, onDisk, cache, loaded>>

\* What GET /admin/operator-certs/revocations and the CRL list: the cache.
List == {s \in Serials : cache[s] # None}

\* CreateCRLPEM: one entry per record; only a boot with a CA signs.
CRL == IF tiers.cert = "off" THEN {} ELSE List

-----------------------------------------------------------------------------
Booting == \/ Start \/ RotateRevoke \/ RotateClear \/ RotateGenerate \/ RotateStore
           \/ Publish \/ LoadRevocations \/ LoadRevocationsFails

Revoking(c) == \/ RevokeCheck(c) \/ RevokePersist(c) \/ RevokePersistFails(c)
               \/ RevokeCache(c) \/ RevokeAudit(c)

CredentialsNext ==
    \/ Booting \/ CoordinatorCrash \/ ExpireToken
    \/ IssueToken \/ RevokeToken \/ IssueOperatorCert
    \/ \E c \in Callers : Revoking(c)

CredentialsSpec == CredentialsInit /\ [][CredentialsNext]_credentialVars

-----------------------------------------------------------------------------
CredentialsTypeOK ==
    /\ phase \in {"down", "revoke", "clear", "generate", "store", "publish", "load", "up"}
    /\ boot \in 0 .. MaxBoots
    /\ tiers \in [cert: CertTiers \cup {"off"}, hardware: HardwareTiers \cup {"off"}]
    /\ claims \in [Ids -> Claims \cup {None}]
    /\ jtis \subseteq Ids /\ published \subseteq Ids /\ killed \subseteq Ids
    /\ rootKey \in Ids \cup {None} /\ root \in Ids \cup {None}
    /\ certs \in [Serials -> [cn: OperatorCNs \cup {Blank}, ca: 0 .. MaxBoots]]
    /\ onDisk \in [Serials -> Callers \cup {None}]
    /\ cache \in [Serials -> Callers \cup {None}] /\ loaded \in BOOLEAN
    /\ calls \in [Callers -> [pc: {"idle", "persist", "cache", "audit"},
                              serial: Serials \cup {None}, answer: Callers \cup {None}]]
    /\ answers \in [Serials -> SUBSET Callers]

\* A token whose revocation was answered never validates again, and once the
\* coordinator serves, the only root token of any token file that validates is
\* the one this boot handed out: whatever step of an earlier rotation a crash
\* cut off (RotateRootToken, handleRevokeToken).
DeadTokensStayDead ==
    /\ \A t \in killed : ~ValidToken(t)
    /\ phase = "up" => \A t \in published : ValidToken(t) => t = root

\* A certificate whose revocation was answered stamps no operator on any
\* request that shows its serial, and is on the CRL, now and after a restart
\* that loaded the records (BadgerRevocationStore.Revoke writes the disk before
\* the cache).
RevocationHolds ==
    phase = "up" /\ loaded =>
        \A s \in Serials : answers[s] # {} =>
            /\ \A via \in {"tls", "proxySerial"} : clientCert([via |-> via, serial |-> s]) \notin OperatorCNs
            /\ tiers.cert # "off" => s \in CRL

\* revocation.go says a coordinator that cannot enumerate its revoked
\* certificates must not start, so a serving one always enforces them.
RevocationsEnforced ==
    phase = "up" =>
        \A s \in Serials : answers[s] # {} =>
            \A via \in {"tls", "proxySerial"} : clientCert([via |-> via, serial |-> s]) \notin OperatorCNs

\* revocation.go says a second revocation returns the first one's record.
OneRecordPerSerial == \A s \in Serials : Cardinality(answers[s]) <= 1

\* operator_cert.go says the operator's role is filled in from the token, so
\* a certificate never costs an admin token its rights.
CertKeepsRole ==
    phase = "up" =>
        \A t \in Ids, p \in Peers :
            (authenticated(t, clientCert(p)) /\ claims[t].role = "admin" /\ tiers.hardware # "on")
                => administers(t, p)

=============================================================================
