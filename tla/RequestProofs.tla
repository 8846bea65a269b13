--------------------------- MODULE RequestProofs ----------------------------
(***************************************************************************)
(* Proofs about the handlers of the API.                                   *)
(*                                                                         *)
(* WebAuthn, for any number of overlapping requests, credentials,          *)
(* ceremonies and counters: a challenge serves one ceremony, and a counter *)
(* of a registered credential one token.                                   *)
(*                                                                         *)
(* Submission, for any bodies, rules and callers: StoredInv says that all  *)
(* that is stored, and all that a start has still to store, has passed the *)
(* denylist; PreviewInv, that a dry run answers what depends on its body   *)
(* alone.                                                                  *)
(***************************************************************************)
EXTENDS WebAuthn, Submission, TLAPS

SessionType == [register: 0 .. MaxChallenge, login: 0 .. MaxChallenge]

MetaType == Bindings \cup {NoMeta}

AnswerType == [chal: Challenges, cred: Credentials, n: 0 .. MaxCount]

RequestType == [pc: {"idle", "stash", "create", "count", "load", "mint"},
                chal: 0 .. MaxChallenge, cred: Credentials \cup {NoID},
                n: 0 .. MaxCount, cn: Bindings, by: 0 .. MaxChallenge]

TokenType == [chal: 0 .. MaxChallenge, n: 0 .. MaxCount, cn: Bindings, by: 0 .. MaxChallenge]

CredType == [cn: Bindings, count: 0 .. MaxCount, by: 0 .. MaxChallenge]

\* A request that holds a popped challenge; one whose counter has passed.
Active(r) == reqs[r].pc \in {"create", "count", "load", "mint"}

Counted(r) == reqs[r].pc \in {"load", "mint"}

Live(c) == c = sessions.register \/ c = sessions.login

\* A challenge that was handed out and that no request can use any more.
Spent(c) ==
    /\ c \in 1 .. issued
    /\ ~Live(c)
    /\ \A q \in Requests : Active(q) => reqs[q].chal # c

TypeInv ==
    /\ sessions \in SessionType
    /\ meta \in MetaType
    /\ creds \in [Credentials -> CredType]
    /\ issued \in 0 .. MaxChallenge
    /\ asked \in [Challenges -> Bindings]
    /\ signed \subseteq AnswerType
    /\ reqs \in [Requests -> RequestType]
    /\ minted \in Seq(TokenType)

ActiveInv == \A r \in Requests : Active(r) => reqs[r].cred \in Credentials

\* A challenge is in one session or with one request.
HeldInv ==
    /\ sessions.register # 0 => sessions.register # sessions.login
    /\ sessions.register <= issued /\ sessions.login <= issued
    /\ \A r \in Requests : Active(r) => reqs[r].chal \in 1 .. issued /\ ~Live(reqs[r].chal)
    /\ \A r, q \in Requests : Active(r) /\ Active(q) /\ r # q => reqs[r].chal # reqs[q].chal

\* What came of a ceremony names spent challenges only.
TokensSpent == \A i \in DOMAIN minted : Spent(minted[i].chal) /\ Spent(minted[i].by)

CredsSpent == \A k \in Stored : Spent(creds[k].by)

CountedSpent == \A r \in Requests : Counted(r) => Spent(reqs[r].by)

\* A challenge registers one credential, and gives one token or none.
TokensOnce == \A i, j \in DOMAIN minted : minted[i].chal = minted[j].chal => i = j

TokensNotCreds == \A i \in DOMAIN minted, k \in Stored : minted[i].chal # creds[k].by

CredsOnce == \A k, l \in Stored : k # l => creds[k].by # creds[l].by

\* The counters that passed for one registration differ, but for zeros.
CountedApart ==
    \A r, q \in Requests : Counted(r) /\ Counted(q) /\ r # q /\ reqs[r].by = reqs[q].by =>
        reqs[r].n # reqs[q].n \/ reqs[r].n = 0

CountedNew ==
    \A r \in Requests, i \in DOMAIN minted : Counted(r) /\ reqs[r].by = minted[i].by =>
        reqs[r].n # minted[i].n \/ reqs[r].n = 0

\* The stored counter is the largest of its registration.
CountedBelow ==
    \A k \in Stored, r \in Requests : Counted(r) /\ reqs[r].by = creds[k].by =>
        reqs[r].n <= creds[k].count

TokensBelow ==
    \A k \in Stored, i \in DOMAIN minted : minted[i].by = creds[k].by =>
        minted[i].n <= creds[k].count

SpentInv == TokensSpent /\ CredsSpent /\ CountedSpent

OnceInv == TokensOnce /\ TokensNotCreds /\ CredsOnce

CountInv == CounterUsedOnce /\ CountedApart /\ CountedNew /\ CountedBelow /\ TokensBelow

WebAuthnInv == TypeInv /\ ActiveInv /\ HeldInv /\ SpentInv /\ OnceInv /\ CountInv

-----------------------------------------------------------------------------
(* Steps that leave credentials and tokens alone.                          *)

\* The requests whose counter passed keep what they hold, and spent
\* challenges stay spent.
LEMMA QuietInv ==
    ASSUME WebAuthnInv, TypeInv', ActiveInv', HeldInv', creds' = creds, minted' = minted,
           \A c : Spent(c) => Spent(c)',
           \A r \in Requests : Counted(r)' =>
               Counted(r) /\ reqs'[r].by = reqs[r].by /\ reqs'[r].n = reqs[r].n
    PROVE  WebAuthnInv'
<1>1. Stored' = Stored
  BY DEF Stored
<1>2. SpentInv'
  BY <1>1 DEF WebAuthnInv, SpentInv, TokensSpent, CredsSpent, CountedSpent
<1>3. OnceInv'
  BY <1>1 DEF WebAuthnInv, OnceInv, TokensOnce, TokensNotCreds, CredsOnce
<1>4. CountedApart'
  BY DEF WebAuthnInv, CountInv, CountedApart
<1>5. CountedNew'
  BY DEF WebAuthnInv, CountInv, CountedNew
<1>6. CountedBelow' /\ TokensBelow'
  BY <1>1 DEF WebAuthnInv, CountInv, CountedBelow, TokensBelow
<1>7. CounterUsedOnce'
  BY DEF WebAuthnInv, CountInv, CounterUsedOnce
<1> QED BY <1>2, <1>3, <1>4, <1>5, <1>6, <1>7 DEF WebAuthnInv, CountInv

\* What the types give for one request.
LEMMA IdleTyped == Idle \in RequestType /\ Idle.pc = "idle"
BY WebAuthnAssumption DEF Idle, RequestType, Bindings

\* No session, no credential, no token.
LEMMA InitInv == ASSUME WebAuthnInit PROVE WebAuthnInv
<1> USE DEF WebAuthnInit
<1>1. NoCred \in CredType
  BY WebAuthnAssumption DEF NoCred, CredType, Bindings
<1>2. sessions \in SessionType /\ meta \in MetaType /\ issued \in 0 .. MaxChallenge
      /\ sessions.register = 0 /\ sessions.login = 0
  BY WebAuthnAssumption DEF SessionType, MetaType, NoSession
<1>3. TypeInv
  BY <1>1, <1>2, IdleTyped DEF TypeInv, Bindings
<1>4. \A r \in Requests : ~Active(r) /\ ~Counted(r)
  BY IdleTyped DEF Active, Counted
<1>5. DOMAIN minted = {} /\ Stored = {}
  BY DEF Stored
<1>6. ActiveInv /\ HeldInv
  BY <1>2, <1>4 DEF ActiveInv, HeldInv
<1>7. SpentInv /\ OnceInv
  BY <1>4, <1>5 DEF SpentInv, TokensSpent, CredsSpent, CountedSpent,
                    OnceInv, TokensOnce, TokensNotCreds, CredsOnce
<1>8. CountInv
  BY <1>4, <1>5 DEF CountInv, CounterUsedOnce, CountedApart, CountedNew, CountedBelow, TokensBelow
<1> QED BY <1>3, <1>6, <1>7, <1>8 DEF WebAuthnInv

\* A session is put with a challenge nobody holds; an earlier one is lost.
LEMMA BeginHeld ==
    ASSUME WebAuthnInv, NEW p \in {"register", "login"}, Begin(p),
           \A r \in Requests : Active(r)' => Active(r) /\ reqs'[r].chal = reqs[r].chal
    PROVE  /\ HeldInv'
           /\ \A c : Spent(c) => Spent(c)'
           /\ issued' \in 0 .. MaxChallenge
           /\ sessions' \in SessionType
<1>1. issued \in 0 .. MaxChallenge /\ issued < MaxChallenge /\ issued' = issued + 1
      /\ sessions \in SessionType /\ sessions' = [sessions EXCEPT ![p] = issued + 1]
  BY DEF WebAuthnInv, TypeInv, Begin, Put
<1>2. /\ sessions'.register \in {sessions.register, issued + 1}
      /\ sessions'.login \in {sessions.login, issued + 1}
      /\ sessions'.register = sessions.register \/ sessions'.login = sessions.login
      /\ sessions' \in SessionType
  BY <1>1, WebAuthnAssumption DEF SessionType
<1>3. sessions.register <= issued /\ sessions.login <= issued
      /\ sessions.register \in Nat /\ sessions.login \in Nat /\ issued \in Nat
      /\ (sessions.register # 0 => sessions.register # sessions.login)
  BY <1>1, WebAuthnAssumption DEF WebAuthnInv, HeldInv, SessionType
<1>4. \A c : c \in 1 .. issued /\ ~Live(c) => c \in 1 .. issued' /\ ~Live(c)'
  BY <1>1, <1>2, <1>3 DEF Live
<1>5. \A c : Spent(c) => Spent(c)'
  BY <1>4 DEF Spent
<1>6. sessions'.register <= issued' /\ sessions'.login <= issued'
      /\ (sessions'.register # 0 => sessions'.register # sessions'.login)
  BY <1>1, <1>2, <1>3
<1>7. \A r \in Requests : Active(r)' => reqs'[r].chal \in 1 .. issued' /\ ~Live(reqs[r].chal)'
  BY <1>4 DEF WebAuthnInv, HeldInv
<1>8. HeldInv'
  BY <1>6, <1>7 DEF WebAuthnInv, HeldInv, Live
<1>9. issued' \in 0 .. MaxChallenge
  BY <1>1, WebAuthnAssumption
<1> QED BY <1>2, <1>5, <1>8, <1>9

\* A popped challenge goes to one request, or to none.
LEMMA PopHeld ==
    ASSUME WebAuthnInv, NEW p \in {"register", "login"}, Pop(p), NEW r \in Requests,
           issued' = issued,
           \A q \in Requests : q # r => reqs'[q] = reqs[q],
           \/ reqs'[r] = reqs[r]
           \/ ~Active(r)' \/ (reqs'[r].chal = sessions[p] /\ reqs'[r].chal # 0)
    PROVE  /\ HeldInv'
           /\ \A c : Spent(c) => Spent(c)'
           /\ sessions' \in SessionType
<1>1. issued \in Nat /\ sessions \in SessionType /\ sessions' = [sessions EXCEPT ![p] = 0]
  BY WebAuthnAssumption DEF WebAuthnInv, TypeInv, Pop, NoSession
<1>2. /\ sessions'.register \in {sessions.register, 0}
      /\ sessions'.login \in {sessions.login, 0}
      /\ sessions' \in SessionType
      /\ p = "register" => sessions'.register = 0
      /\ p = "login" => sessions'.login = 0
  BY <1>1, WebAuthnAssumption DEF SessionType
<1>3. /\ sessions[p] \in {sessions.register, sessions.login} /\ sessions[p] <= issued
      /\ sessions[p] \in Nat
      /\ sessions[p] # 0 => sessions[p] # sessions'.register /\ sessions[p] # sessions'.login
  BY <1>1, <1>2 DEF WebAuthnInv, HeldInv, SessionType
<1>4. \A c : c \in 1 .. issued /\ ~Live(c) => ~Live(c)'
  BY <1>2 DEF Live
<1>5. \A c : Spent(c) => Spent(c)'
  BY <1>3, <1>4 DEF Spent, Active, Live
<1>6. sessions'.register <= issued /\ sessions'.login <= issued
      /\ (sessions'.register # 0 => sessions'.register # sessions'.login)
  BY <1>1, <1>2 DEF WebAuthnInv, HeldInv
<1>7. \A q \in Requests : Active(q)' => reqs'[q].chal \in 1 .. issued /\ ~Live(reqs[q].chal)'
  BY <1>1, <1>3, <1>4 DEF WebAuthnInv, HeldInv, Active, Live
<1>8. \A q, s \in Requests : Active(q)' /\ Active(s)' /\ q # s => reqs'[q].chal # reqs'[s].chal
  BY <1>1, <1>3 DEF WebAuthnInv, HeldInv, Active, Live
<1>9. HeldInv'
  BY <1>6, <1>7, <1>8 DEF HeldInv
<1> QED BY <1>2, <1>5, <1>9

\* Requests that let go of what they hold, and sessions that end.
LEMMA LetGoHeld ==
    ASSUME WebAuthnInv, issued' = issued,
           sessions'.register \in {sessions.register, 0},
           sessions'.login \in {sessions.login, 0},
           \A r \in Requests : Active(r)' => Active(r) /\ reqs'[r].chal = reqs[r].chal
    PROVE  HeldInv' /\ \A c : Spent(c) => Spent(c)'
<1>1. issued \in Nat /\ sessions.register \in Nat /\ sessions.login \in Nat
  BY DEF WebAuthnInv, TypeInv, SessionType
<1>2. \A c : c \in 1 .. issued /\ ~Live(c) => ~Live(c)'
  BY DEF Live
<1>3. \A c : Spent(c) => Spent(c)'
  BY <1>2 DEF Spent
<1>4. sessions'.register <= issued /\ sessions'.login <= issued
      /\ (sessions'.register # 0 => sessions'.register # sessions'.login)
  BY <1>1 DEF WebAuthnInv, HeldInv
<1>5. \A q \in Requests : Active(q)' => reqs'[q].chal \in 1 .. issued /\ ~Live(reqs[q].chal)'
  BY <1>2 DEF WebAuthnInv, HeldInv
<1>6. HeldInv'
  BY <1>4, <1>5 DEF WebAuthnInv, HeldInv
<1> QED BY <1>3, <1>6

-----------------------------------------------------------------------------
(* The steps.                                                              *)

\* A request is replaced by another of its type.
LEMMA RequestPut ==
    ASSUME reqs \in [Requests -> RequestType], NEW r \in Requests, NEW m \in RequestType,
           reqs' = [reqs EXCEPT ![r] = m]
    PROVE  /\ reqs' \in [Requests -> RequestType] /\ reqs'[r] = m
           /\ \A q \in Requests : q # r => reqs'[q] = reqs[q]
OBVIOUS

\* register-begin: a new challenge, and the request has yet to stash.
LEMMA RegisterBeginInv ==
    ASSUME WebAuthnInv, NEW r \in Requests, RegisterBegin(r)
    PROVE  WebAuthnInv'
<1>1. PICK cn \in Bindings :
        /\ asked' = [asked EXCEPT ![issued + 1] = cn]
        /\ reqs' = [reqs EXCEPT ![r] = [Idle EXCEPT !.pc = "stash", !.chal = issued + 1, !.cn = cn]]
  BY DEF RegisterBegin
<1>2. Begin("register") /\ UNCHANGED <<meta, creds, signed, minted>>
  BY DEF RegisterBegin
<1>3. TypeInv /\ ActiveInv
  BY DEF WebAuthnInv
<1>4. issued + 1 \in 0 .. MaxChallenge
  BY <1>2, <1>3, WebAuthnAssumption DEF Begin, TypeInv
<1>m. PICK m : m = [Idle EXCEPT !.pc = "stash", !.chal = issued + 1, !.cn = cn]
  OBVIOUS
<1>5. m \in RequestType /\ m.pc = "stash"
  BY <1>4, <1>m, IdleTyped, Zenon DEF RequestType
<1>6. reqs'[r].pc = "stash" /\ (\A q \in Requests : q # r => reqs'[q] = reqs[q])
      /\ reqs' \in [Requests -> RequestType]
  BY <1>1, <1>3, <1>5, <1>m, RequestPut DEF TypeInv
<1>7. \A q \in Requests : Active(q)' => Active(q) /\ reqs'[q].chal = reqs[q].chal
  BY <1>6 DEF Active
<1>8. \A q \in Requests : Counted(q)' =>
         Counted(q) /\ reqs'[q].by = reqs[q].by /\ reqs'[q].n = reqs[q].n
  BY <1>6 DEF Counted
<1>9. ActiveInv'
  BY <1>3, <1>6 DEF Active, ActiveInv
<1>10. /\ HeldInv' /\ \A c : Spent(c) => Spent(c)'
       /\ issued' \in 0 .. MaxChallenge /\ sessions' \in SessionType
  BY <1>2, <1>7, BeginHeld
<1>11. TypeInv'
  BY <1>1, <1>2, <1>3, <1>6, <1>10, Zenon DEF TypeInv
<1> QED BY <1>2, <1>8, <1>9, <1>10, <1>11, QuietInv

\* login-begin: a new challenge.
LEMMA LoginBeginInv ==
    ASSUME WebAuthnInv, NEW r \in Requests, LoginBegin(r)
    PROVE  WebAuthnInv'
<1>1. Begin("login") /\ UNCHANGED <<meta, creds, asked, signed, reqs, minted>>
  BY DEF LoginBegin
<1>2. \A q \in Requests : Active(q)' => Active(q) /\ reqs'[q].chal = reqs[q].chal
  BY <1>1 DEF Active
<1>3. \A q \in Requests : Counted(q)' =>
         Counted(q) /\ reqs'[q].by = reqs[q].by /\ reqs'[q].n = reqs[q].n
  BY <1>1 DEF Counted
<1>4. /\ HeldInv' /\ \A c : Spent(c) => Spent(c)'
      /\ issued' \in 0 .. MaxChallenge /\ sessions' \in SessionType
  BY <1>1, <1>2, BeginHeld
<1>5. TypeInv' /\ ActiveInv'
  BY <1>1, <1>4 DEF WebAuthnInv, TypeInv, ActiveInv, Active
<1> QED BY <1>1, <1>3, <1>4, <1>5, QuietInv

\* A request becomes idle: the metadata is stashed, or there is no token.
LEMMA LeaveInv ==
    ASSUME WebAuthnInv, NEW r \in Requests,
           reqs' = [reqs EXCEPT ![r] = Idle], meta' \in MetaType,
           UNCHANGED <<sessions, creds, issued, asked, signed, minted>>
    PROVE  WebAuthnInv'
<1>1. TypeInv /\ ActiveInv
  BY DEF WebAuthnInv
<1>2. reqs'[r].pc = "idle" /\ (\A q \in Requests : q # r => reqs'[q] = reqs[q])
      /\ reqs' \in [Requests -> RequestType]
  BY <1>1, IdleTyped, RequestPut DEF TypeInv
<1>3. \A q \in Requests : Active(q)' => Active(q) /\ reqs'[q].chal = reqs[q].chal
  BY <1>2 DEF Active
<1>4. \A q \in Requests : Counted(q)' =>
         Counted(q) /\ reqs'[q].by = reqs[q].by /\ reqs'[q].n = reqs[q].n
  BY <1>2 DEF Counted
<1>5. HeldInv' /\ \A c : Spent(c) => Spent(c)'
  BY <1>3, LetGoHeld
<1>6. ActiveInv'
  BY <1>1, <1>2 DEF Active, ActiveInv
<1>7. TypeInv'
  BY <1>1, <1>2 DEF TypeInv
<1> QED BY <1>4, <1>5, <1>6, <1>7, QuietInv

\* The stash of the binding ends register-begin.
LEMMA StashInv ==
    ASSUME WebAuthnInv, NEW r \in Requests, stashRegisterMetadata(r)
    PROVE  WebAuthnInv'
<1>1. reqs[r] \in RequestType
  BY DEF WebAuthnInv, TypeInv
<1>2. reqs[r].cn \in MetaType
  BY <1>1 DEF RequestType, MetaType
<1>3. /\ meta' \in MetaType /\ reqs' = [reqs EXCEPT ![r] = Idle]
      /\ UNCHANGED <<sessions, creds, issued, asked, signed, minted>>
  BY <1>2 DEF stashRegisterMetadata
<1> QED BY <1>3, LeaveInv, Zenon

\* The finish of a ceremony: the session is popped, and its challenge goes to
\* the request when the answer is to it.
LEMMA FinishInv ==
    ASSUME WebAuthnInv, NEW r \in Requests, NEW p \in {"register", "login"},
           Pop(p), NEW m \in RequestType, m.pc \in {"create", "count"}, m.cred \in Credentials,
           m.chal # 0, reqs[r].pc = "idle",
           reqs' = IF sessions[p] = m.chal THEN [reqs EXCEPT ![r] = m] ELSE reqs,
           UNCHANGED <<meta, creds, issued, asked, signed, minted>>
    PROVE  WebAuthnInv'
<1>1. TypeInv /\ ActiveInv
  BY DEF WebAuthnInv
<1>2. /\ \A q \in Requests : q # r => reqs'[q] = reqs[q]
      /\ reqs'[r] = reqs[r] \/ (reqs'[r] = m /\ sessions[p] = m.chal)
      /\ reqs' \in [Requests -> RequestType]
  BY <1>1 DEF TypeInv
<1>3. HeldInv' /\ (\A c : Spent(c) => Spent(c)') /\ sessions' \in SessionType
  BY <1>2, PopHeld
<1>4. \A q \in Requests : Counted(q)' =>
         Counted(q) /\ reqs'[q].by = reqs[q].by /\ reqs'[q].n = reqs[q].n
  BY <1>2 DEF Counted
<1>5. ActiveInv'
  BY <1>1, <1>2 DEF ActiveInv, Active
<1>6. TypeInv'
  BY <1>1, <1>2, <1>3 DEF TypeInv
<1> QED BY <1>3, <1>4, <1>5, <1>6, QuietInv

\* register-finish pops before it looks at the answer.
LEMMA RegisterFinishInv ==
    ASSUME WebAuthnInv, NEW r \in Requests, NEW a \in signed,
           RegisterFinish(r, a)
    PROVE  WebAuthnInv'
<1>m. PICK m : m = [Idle EXCEPT !.pc = "create", !.chal = a.chal, !.cred = a.cred, !.n = a.n]
  OBVIOUS
<1>1. a \in AnswerType
  BY DEF WebAuthnInv, TypeInv
<1>2. m \in RequestType /\ m.pc \in {"create", "count"} /\ m.cred \in Credentials
      /\ m.chal = a.chal /\ m.chal # 0
  <2>1. a.chal \in Challenges /\ a.cred \in Credentials /\ a.n \in 0 .. MaxCount
        /\ a.chal \in 0 .. MaxChallenge /\ a.chal # 0
    BY <1>1, WebAuthnAssumption DEF AnswerType, Challenges
  <2>2. m \in RequestType
    BY <1>m, <2>1, IdleTyped, Zenon DEF RequestType
  <2>3. m.pc = "create" /\ m.chal = a.chal /\ m.cred = a.cred
    BY <1>m, IdleTyped DEF RequestType
  <2> QED BY <2>1, <2>2, <2>3
<1>3. /\ Pop("register") /\ reqs[r].pc = "idle"
      /\ reqs' = IF sessions["register"] = m.chal THEN [reqs EXCEPT ![r] = m] ELSE reqs
      /\ UNCHANGED <<meta, creds, issued, asked, signed, minted>>
  BY <1>2, <1>m DEF RegisterFinish
<1> QED BY <1>2, <1>3, FinishInv

\* login-finish pops before it looks at the answer and the credentials.
LEMMA LoginFinishInv ==
    ASSUME WebAuthnInv, NEW r \in Requests, NEW a \in signed,
           LoginFinish(r, a)
    PROVE  WebAuthnInv'
<1>n. PICK n : n = IF a.n > creds[a.cred].count THEN a.n ELSE creds[a.cred].count
  OBVIOUS
<1>m. PICK m : m = [Idle EXCEPT !.pc = "count", !.chal = a.chal, !.cred = a.cred, !.n = n]
  OBVIOUS
<1>1. a \in AnswerType /\ TypeInv /\ ActiveInv
  BY DEF WebAuthnInv, TypeInv
<1>2. a.chal \in Challenges /\ a.cred \in Credentials /\ n \in 0 .. MaxCount
      /\ a.chal \in 0 .. MaxChallenge /\ a.chal # 0
  BY <1>1, <1>n, WebAuthnAssumption DEF AnswerType, TypeInv, CredType, Challenges
<1>3. m \in RequestType /\ m.pc \in {"create", "count"} /\ m.cred \in Credentials
      /\ m.chal = a.chal /\ m.chal # 0
  <2>1. m \in RequestType
    BY <1>2, <1>m, IdleTyped, Zenon DEF RequestType
  <2>2. m.pc = "count" /\ m.chal = a.chal /\ m.cred = a.cred
    BY <1>m, IdleTyped DEF RequestType
  <2> QED BY <1>2, <2>1, <2>2
<1>4. /\ Pop("login") /\ reqs[r].pc = "idle"
      /\ reqs' = IF sessions["login"] = m.chal /\ a.cred \in Stored THEN [reqs EXCEPT ![r] = m] ELSE reqs
      /\ UNCHANGED <<meta, creds, issued, asked, signed, minted>>
  BY <1>3, <1>n, <1>m DEF LoginFinish
<1>5. CASE a.cred \in Stored
  BY <1>3, <1>4, <1>5, FinishInv, Zenon
<1>6. CASE a.cred \notin Stored
  <2>1. reqs' = reqs
    BY <1>4, <1>6
  <2>2. HeldInv' /\ (\A c : Spent(c) => Spent(c)') /\ sessions' \in SessionType
    BY <1>4, <2>1, PopHeld
  <2>3. \A q \in Requests : Counted(q)' =>
           Counted(q) /\ reqs'[q].by = reqs[q].by /\ reqs'[q].n = reqs[q].n
    BY <2>1 DEF Counted
  <2>4. TypeInv' /\ ActiveInv'
    BY <1>1, <1>4, <2>1, <2>2 DEF TypeInv, ActiveInv, Active
  <2> QED BY <1>4, <2>2, <2>3, <2>4, QuietInv
<1> QED BY <1>5, <1>6

\* The record is read again, or is gone and with it the request.
LEMMA LoginLoadInv ==
    ASSUME WebAuthnInv, NEW r \in Requests, LoginLoad(r)
    PROVE  WebAuthnInv'
<1>k. PICK k, cn : k = reqs[r].cred /\ cn = creds[k].cn
  OBVIOUS
<1>1. /\ reqs[r].pc = "load"
      /\ UNCHANGED <<sessions, meta, creds, issued, asked, signed, minted>>
      /\ k \notin Stored => reqs' = [reqs EXCEPT ![r] = Idle]
      /\ k \in Stored => reqs' = [reqs EXCEPT ![r].pc = "mint", ![r].cn = cn]
  BY <1>k DEF LoginLoad
<1>2. TypeInv /\ ActiveInv
  BY DEF WebAuthnInv
<1>3. CASE k \notin Stored
  BY <1>1, <1>2, <1>3, LeaveInv DEF TypeInv
<1>4. CASE k \in Stored
  <2>1. creds[k] \in CredType /\ reqs[r] \in RequestType /\ reqs \in [Requests -> RequestType]
    BY <1>2, <1>4 DEF Stored, TypeInv
  <2>2. cn \in Bindings
    BY <1>k, <2>1 DEF CredType
  <2>m. PICK m : m = [reqs[r] EXCEPT !.pc = "mint", !.cn = cn]
    OBVIOUS
  <2>3. m \in RequestType /\ m.pc = "mint" /\ m.chal = reqs[r].chal /\ m.cred = k
        /\ m.by = reqs[r].by /\ m.n = reqs[r].n
    BY <1>k, <2>m, <2>1, <2>2, Zenon DEF RequestType
  <2>4. reqs' = [reqs EXCEPT ![r] = m]
    BY <1>1, <1>4, <2>1, <2>m, Zenon
  <2>5. /\ reqs' \in [Requests -> RequestType] /\ reqs'[r] = m
        /\ \A q \in Requests : q # r => reqs'[q] = reqs[q]
    BY <2>1, <2>3, <2>4, RequestPut
  <2>6. \A q \in Requests : Active(q)' => Active(q) /\ reqs'[q].chal = reqs[q].chal
    BY <1>1, <2>3, <2>5 DEF Active
  <2>7. \A q \in Requests : Counted(q)' =>
           Counted(q) /\ reqs'[q].by = reqs[q].by /\ reqs'[q].n = reqs[q].n
    BY <1>1, <2>3, <2>5 DEF Counted
  <2>8. HeldInv' /\ \A c : Spent(c) => Spent(c)'
    BY <1>1, <2>6, LetGoHeld
  <2>9. ActiveInv'
    <3>1. k \in Credentials
      BY <1>4 DEF Stored
    <3>2. \A q \in Requests : q # r /\ Active(q)' => reqs'[q].cred \in Credentials
      BY <1>2, <2>5 DEF ActiveInv, Active
    <3> QED BY <2>3, <2>5, <3>1, <3>2 DEF ActiveInv
  <2>10. TypeInv'
    BY <1>1, <1>2, <2>5 DEF TypeInv
  <2> QED BY <1>1, <2>7, <2>8, <2>9, <2>10, QuietInv
<1> QED BY <1>3, <1>4

\* A step that changes no request, no credential and no token.
LEMMA AsideInv ==
    ASSUME WebAuthnInv,
           UNCHANGED <<creds, issued, asked, reqs, minted>>,
           sessions' \in SessionType, meta' \in MetaType, signed' \subseteq AnswerType,
           sessions'.register \in {sessions.register, 0}, sessions'.login \in {sessions.login, 0}
    PROVE  WebAuthnInv'
<1>1. \A q \in Requests : Active(q)' => Active(q) /\ reqs'[q].chal = reqs[q].chal
  BY DEF Active
<1>2. \A q \in Requests : Counted(q)' =>
         Counted(q) /\ reqs'[q].by = reqs[q].by /\ reqs'[q].n = reqs[q].n
  BY DEF Counted
<1>3. HeldInv' /\ \A c : Spent(c) => Spent(c)'
  BY <1>1, LetGoHeld
<1>4. TypeInv' /\ ActiveInv'
  BY DEF WebAuthnInv, TypeInv, ActiveInv, Active
<1> QED BY <1>2, <1>3, <1>4, QuietInv

\* A session or the metadata runs out.
LEMMA ExpireInv ==
    ASSUME WebAuthnInv, Expire PROVE WebAuthnInv'
<1>1. sessions \in SessionType /\ meta \in MetaType /\ signed \subseteq AnswerType
  BY DEF WebAuthnInv, TypeInv
<1>2. UNCHANGED <<creds, issued, asked, signed, reqs, minted>>
  BY DEF Expire
<1>3. meta' \in MetaType
  BY <1>1 DEF Expire, MetaType
<1>4. sessions' \in SessionType
      /\ sessions'.register \in {sessions.register, 0} /\ sessions'.login \in {sessions.login, 0}
  BY <1>1, WebAuthnAssumption DEF Expire, Pop, NoSession, SessionType
<1> QED BY <1>1, <1>2, <1>3, <1>4, AsideInv

\* A restart forgets sessions and requests.
LEMMA RestartInv ==
    ASSUME WebAuthnInv, Restart PROVE WebAuthnInv'
<1>1. /\ sessions'.register = 0 /\ sessions'.login = 0 /\ meta' = NoMeta
      /\ sessions' \in SessionType
      /\ \A q \in Requests : reqs'[q] = Idle
      /\ reqs' \in [Requests -> RequestType]
      /\ UNCHANGED <<creds, issued, asked, signed, minted>>
  BY IdleTyped, WebAuthnAssumption DEF Restart, NoSession, SessionType
<1>2. \A q \in Requests : ~Active(q)' /\ ~Counted(q)'
  BY <1>1, IdleTyped DEF Active, Counted
<1>3. HeldInv' /\ \A c : Spent(c) => Spent(c)'
  BY <1>1, <1>2, LetGoHeld
<1>4. TypeInv' /\ ActiveInv'
  BY <1>1, <1>2 DEF WebAuthnInv, TypeInv, MetaType, ActiveInv
<1> QED BY <1>1, <1>2, <1>3, <1>4, QuietInv

\* An authenticator answers; or nothing happens here.
LEMMA SignInv ==
    ASSUME WebAuthnInv, Sign \/ UNCHANGED ceremonyVars PROVE WebAuthnInv'
<1>1. sessions \in SessionType /\ meta \in MetaType /\ signed \subseteq AnswerType /\ issued \in 0 .. MaxChallenge
  BY DEF WebAuthnInv, TypeInv
<1>2. UNCHANGED <<sessions, meta, creds, issued, asked, reqs, minted>>
  BY DEF Sign, ceremonyVars
<1>3. signed' \subseteq AnswerType
  BY <1>1, WebAuthnAssumption DEF Sign, ceremonyVars, AnswerType, Challenges
<1> QED BY <1>1, <1>2, <1>3, AsideInv

-----------------------------------------------------------------------------
(* Steps that change credentials or tokens.                                *)

\* Revoking takes a record away.
LEMMA RevokeInv ==
    ASSUME WebAuthnInv, RevokeCredential PROVE WebAuthnInv'
<1>1. PICK k \in Stored : creds' = [creds EXCEPT ![k] = NoCred]
  BY Zenon DEF RevokeCredential
<1>2. UNCHANGED <<sessions, meta, issued, asked, signed, reqs, minted>>
  BY DEF RevokeCredential
<1>3. NoCred \in CredType
  BY WebAuthnAssumption DEF CredType, NoCred, Bindings
<1>4. creds' \in [Credentials -> CredType] /\ (\A l \in Stored' : l \in Stored /\ creds'[l] = creds[l])
  BY <1>1, <1>3 DEF Stored, WebAuthnInv, TypeInv
<1>5. /\ \A q \in Requests : Active(q)' = Active(q) /\ Counted(q)' = Counted(q)
      /\ \A c : Spent(c)' = Spent(c)
  BY <1>2 DEF Active, Counted, Spent, Live
<1>6. TypeInv' /\ ActiveInv'
  BY <1>2, <1>4, <1>5 DEF WebAuthnInv, TypeInv, ActiveInv
<1>7. HeldInv'
  BY <1>2, <1>5 DEF WebAuthnInv, HeldInv, Live
<1>8. SpentInv'
  BY <1>2, <1>4, <1>5 DEF WebAuthnInv, SpentInv, TokensSpent, CredsSpent, CountedSpent
<1>9. OnceInv'
  BY <1>2, <1>4 DEF WebAuthnInv, OnceInv, TokensOnce, TokensNotCreds, CredsOnce
<1>10. CountedApart' /\ CountedNew' /\ CounterUsedOnce'
  BY <1>2, <1>5 DEF WebAuthnInv, CountInv, CountedApart, CountedNew, CounterUsedOnce
<1>11. CountedBelow' /\ TokensBelow'
  BY <1>2, <1>4, <1>5 DEF WebAuthnInv, CountInv, CountedBelow, TokensBelow
<1> QED BY <1>6, <1>7, <1>8, <1>9, <1>10, <1>11 DEF WebAuthnInv, CountInv

\* A request that goes idle spends its challenge.
LEMMA DoneSpends ==
    ASSUME WebAuthnInv, NEW r \in Requests, Active(r),
           reqs' = [reqs EXCEPT ![r] = Idle], UNCHANGED <<sessions, issued>>
    PROVE  /\ HeldInv' /\ ActiveInv'
           /\ \A c : Spent(c) => Spent(c)'
           /\ \A c : c = reqs[r].chal => Spent(c)' /\ ~Spent(c)
           /\ reqs' \in [Requests -> RequestType]
           /\ \A q \in Requests : Counted(q)' => Counted(q) /\ q # r /\ reqs'[q] = reqs[q]
<1>1. TypeInv /\ ActiveInv
  BY DEF WebAuthnInv
<1>2. reqs' \in [Requests -> RequestType] /\ reqs'[r].pc = "idle"
      /\ \A q \in Requests : q # r => reqs'[q] = reqs[q]
  BY <1>1, IdleTyped, RequestPut DEF TypeInv
<1>3. \A q \in Requests : Active(q)' => Active(q) /\ q # r /\ reqs'[q] = reqs[q]
  BY <1>2 DEF Active
<1>4. \A q \in Requests : Counted(q)' => Counted(q) /\ q # r /\ reqs'[q] = reqs[q]
  BY <1>2 DEF Counted
<1>5. ActiveInv'
  BY <1>1, <1>3 DEF ActiveInv
<1>6. HeldInv' /\ \A c : Spent(c) => Spent(c)'
  BY <1>3, LetGoHeld
<1>7. ASSUME NEW c, c = reqs[r].chal PROVE Spent(c)' /\ ~Spent(c)
  <2>1. ~Spent(c)
    BY <1>7 DEF Spent
  <2>2. c \in 1 .. issued' /\ ~Live(c)'
    BY <1>7 DEF WebAuthnInv, HeldInv, Live
  <2>3. \A q \in Requests : Active(q)' => reqs'[q].chal # c
    BY <1>3, <1>7 DEF WebAuthnInv, HeldInv
  <2> QED BY <2>1, <2>2, <2>3 DEF Spent
<1> QED BY <1>2, <1>4, <1>5, <1>6, <1>7

\* A new record is by a challenge nothing else is by.
LEMMA RegisterCreateInv ==
    ASSUME WebAuthnInv, NEW r \in Requests, RegisterCreate(r)
    PROVE  WebAuthnInv'
<1>k. PICK k, c : k = reqs[r].cred /\ c = reqs[r].chal
  OBVIOUS
<1>d. PICK d : d = [cn |-> IF meta = NoMeta THEN Unbound ELSE meta, count |-> reqs[r].n, by |-> c]
  BY Zenon
<1>1. /\ reqs[r].pc = "create" /\ meta' = NoMeta
      /\ reqs' = [reqs EXCEPT ![r] = Idle]
      /\ UNCHANGED <<sessions, issued, asked, signed, minted>>
      /\ k \in Stored => creds' = creds
      /\ k \notin Stored => creds' = [creds EXCEPT ![k] = d]
  BY <1>k, <1>d DEF RegisterCreate
<1>2. meta' \in MetaType
  BY <1>1 DEF MetaType
<1>3. CASE k \in Stored
  BY <1>1, <1>2, <1>3, LeaveInv, Zenon
<1>4. CASE k \notin Stored
  <2>1. Active(r)
    BY <1>1 DEF Active
  <2>2. TypeInv /\ SpentInv /\ OnceInv /\ CountInv /\ ActiveInv /\ HeldInv
    BY DEF WebAuthnInv
  <2>3. /\ reqs[r] \in RequestType /\ meta \in MetaType /\ k \in Credentials
        /\ creds \in [Credentials -> CredType] /\ c # 0
    BY <1>k, <2>1, <2>2 DEF TypeInv, ActiveInv, HeldInv
  <2>4. d \in CredType /\ d.by = c /\ d # NoCred
    BY <1>k, <1>d, <2>3 DEF CredType, RequestType, NoCred, Bindings, MetaType
  <2>5. /\ HeldInv' /\ ActiveInv' /\ (\A x : Spent(x) => Spent(x)') /\ Spent(c)' /\ ~Spent(c)
        /\ reqs' \in [Requests -> RequestType]
        /\ \A q \in Requests : Counted(q)' => Counted(q) /\ q # r /\ reqs'[q] = reqs[q]
    BY <1>1, <1>k, <2>1, DoneSpends, Zenon
  <2>6. creds' \in [Credentials -> CredType] /\ creds'[k] = d
        /\ \A l \in Credentials : l # k => creds'[l] = creds[l]
    BY <1>1, <1>4, <2>3, <2>4
  <2>7. creds'[k].by = c /\ \A l \in Stored' : l = k \/ (l \in Stored /\ creds'[l] = creds[l])
    BY <2>4, <2>6 DEF Stored
  <2>8. TypeInv'
    BY <1>1, <1>2, <2>2, <2>5, <2>6 DEF TypeInv
  <2>9. /\ \A i \in DOMAIN minted : minted[i].chal # c /\ minted[i].by # c
        /\ \A l \in Stored : creds[l].by # c
        /\ \A q \in Requests : Counted(q)' => reqs'[q].by # c
    BY <2>2, <2>5 DEF SpentInv, TokensSpent, CredsSpent, CountedSpent
  <2>10. TokensSpent' /\ CountedSpent'
    BY <1>1, <2>2, <2>5 DEF SpentInv, TokensSpent, CountedSpent
  <2>11. CredsSpent'
    BY <2>2, <2>5, <2>7 DEF SpentInv, CredsSpent
  <2>12. TokensOnce' /\ TokensNotCreds'
    BY <1>1, <2>2, <2>7, <2>9 DEF OnceInv, TokensOnce, TokensNotCreds
  <2>13. CredsOnce'
    BY <2>2, <2>7, <2>9 DEF OnceInv, CredsOnce
  <2>14. CounterUsedOnce' /\ CountedNew'
    BY <1>1, <2>2, <2>5 DEF CountInv, CounterUsedOnce, CountedNew
  <2>15. CountedApart'
    BY <2>2, <2>5 DEF CountInv, CountedApart
  <2>16. ASSUME NEW l \in Stored', NEW q \in Requests, Counted(q)', reqs'[q].by = creds'[l].by
         PROVE  reqs'[q].n <= creds'[l].count
    <3>1. l \in Stored /\ creds'[l] = creds[l] /\ Counted(q) /\ reqs'[q] = reqs[q]
      BY <2>5, <2>7, <2>9, <2>16
    <3> QED BY <2>2, <2>16, <3>1 DEF CountInv, CountedBelow
  <2>17. ASSUME NEW l \in Stored', NEW i \in DOMAIN minted, minted[i].by = creds'[l].by
         PROVE  minted[i].n <= creds'[l].count
    <3>1. l \in Stored /\ creds'[l] = creds[l]
      BY <2>7, <2>9, <2>17
    <3> QED BY <2>2, <2>17, <3>1 DEF CountInv, TokensBelow
  <2>18. CountedBelow'
    BY <2>16 DEF CountedBelow
  <2>19. TokensBelow'
    BY <1>1, <2>17 DEF TokensBelow
  <2> QED BY <2>5, <2>8, <2>10, <2>11, <2>12, <2>13, <2>14, <2>15, <2>18, <2>19
          DEF WebAuthnInv, SpentInv, OnceInv, CountInv
<1> QED BY <1>3, <1>4

\* A counter that passes is above all those of its registration, or zero.
LEMMA UpdateSignCountInv ==
    ASSUME WebAuthnInv, NEW r \in Requests, UpdateSignCount(r)
    PROVE  WebAuthnInv'
<1>k. PICK k, n, b : k = reqs[r].cred /\ n = reqs[r].n /\ b = creds[k].by
  OBVIOUS
<1>1. /\ reqs[r].pc = "count"
      /\ UNCHANGED <<sessions, meta, issued, asked, signed, minted>>
  BY DEF UpdateSignCount
<1>2. TypeInv /\ SpentInv /\ OnceInv /\ CountInv /\ ActiveInv
  BY DEF WebAuthnInv
<1>3. /\ reqs \in [Requests -> RequestType] /\ creds \in [Credentials -> CredType]
      /\ meta \in MetaType /\ minted \in Seq(TokenType)
  BY <1>2 DEF TypeInv
<1>4. CASE ~(k \in Stored /\ verifyNotReplay(creds[k].count, n))
  <2>1. creds' = creds /\ reqs' = [reqs EXCEPT ![r] = Idle]
    BY <1>4, <1>k DEF UpdateSignCount
  <2> QED BY <1>1, <1>3, <2>1, LeaveInv, Zenon
<1>5. CASE k \in Stored /\ verifyNotReplay(creds[k].count, n)
  <2>1. k \in Credentials /\ creds[k] \in CredType /\ reqs[r] \in RequestType
        /\ creds[k] # NoCred /\ k \in Stored
    BY <1>3, <1>5 DEF Stored
  <2>2. n \in 0 .. MaxCount /\ creds[k].count \in 0 .. MaxCount /\ b \in 0 .. MaxChallenge
        /\ n \in Nat /\ creds[k].count \in Nat
    BY <1>k, <2>1, WebAuthnAssumption DEF RequestType, CredType
  <2>3. creds[k].count <= n /\ (n # 0 => creds[k].count < n)
    BY <1>5, <2>2 DEF verifyNotReplay
  <2>4. Spent(b) /\ b # 0
    BY <1>2, <1>k, <2>1 DEF SpentInv, CredsSpent, Spent
  <2>5. /\ creds' = [creds EXCEPT ![k].count = n]
        /\ reqs' = [reqs EXCEPT ![r].pc = "load", ![r].by = b]
    BY <1>5, <1>k DEF UpdateSignCount
  <2>6. /\ creds' \in [Credentials -> CredType] /\ creds'[k].by = b /\ creds'[k].count = n
        /\ \A l \in Credentials : l # k => creds'[l] = creds[l]
    BY <1>3, <1>k, <2>1, <2>2, <2>5, Zenon DEF CredType
  <2>m. PICK m : m = [reqs[r] EXCEPT !.pc = "load", !.by = b]
    OBVIOUS
  <2>7. m \in RequestType /\ m.pc = "load" /\ m.by = b /\ m.n = n
        /\ m.chal = reqs[r].chal /\ m.cred = k
    BY <1>k, <2>m, <2>1, <2>2, Zenon DEF RequestType
  <2>8. reqs' = [reqs EXCEPT ![r] = m]
    BY <1>3, <2>5, <2>m, Zenon
  <2>9. /\ reqs' \in [Requests -> RequestType] /\ reqs'[r] = m
        /\ \A q \in Requests : q # r => reqs'[q] = reqs[q]
    BY <1>3, <2>7, <2>8, RequestPut
  <2>10. Stored' = Stored
    <3>1. creds'[k] # NoCred
      BY <2>4, <2>6 DEF NoCred
    <3> QED BY <2>1, <2>6, <3>1 DEF Stored
  <2>11. \A l \in Stored : creds'[l].by = creds[l].by
    BY <1>k, <2>6 DEF Stored
  <2>12. \A q \in Requests : Active(q)' => Active(q) /\ reqs'[q].chal = reqs[q].chal
    BY <1>1, <2>7, <2>9 DEF Active
  <2>13. \A q \in Requests : Counted(q)' => q = r \/ (q # r /\ Counted(q) /\ reqs'[q] = reqs[q])
    BY <2>9 DEF Counted
  <2>14. HeldInv' /\ \A x : Spent(x) => Spent(x)'
    BY <1>1, <2>12, LetGoHeld
  <2>15. ActiveInv'
    BY <1>2, <2>1, <2>7, <2>9 DEF ActiveInv, Active
  <2>16. TypeInv'
    BY <1>1, <1>2, <2>6, <2>9 DEF TypeInv
  <2>17. TokensSpent' /\ CredsSpent'
    BY <1>1, <1>2, <2>10, <2>11, <2>14 DEF SpentInv, TokensSpent, CredsSpent
  <2>18. CountedSpent'
    BY <1>2, <2>4, <2>7, <2>9, <2>13, <2>14 DEF SpentInv, CountedSpent
  <2>19. OnceInv'
    BY <1>1, <1>2, <2>10, <2>11 DEF OnceInv, TokensOnce, TokensNotCreds, CredsOnce
  <2>20. \A q \in Requests : reqs[q].n \in Nat
    BY <1>3, WebAuthnAssumption DEF RequestType
  <2>21. \A i \in DOMAIN minted : minted[i].n \in Nat
    <3>1. \A i \in DOMAIN minted : minted[i] \in TokenType
      BY <1>3
    <3> QED BY <3>1, WebAuthnAssumption DEF TokenType
  <2>22. ASSUME NEW q \in Requests, q # r, Counted(q)', reqs'[q].by = b
         PROVE  reqs'[q].n <= n /\ (reqs'[q].n # n \/ n = 0)
    <3>1. Counted(q) /\ reqs'[q] = reqs[q]
      BY <2>13, <2>22
    <3>2. reqs[q].n <= creds[k].count
      BY <1>2, <1>k, <2>1, <2>22, <3>1 DEF CountInv, CountedBelow
    <3> QED BY <2>2, <2>3, <2>20, <3>1, <3>2
  <2>23. ASSUME NEW i \in DOMAIN minted, minted[i].by = b
         PROVE  minted[i].n <= n /\ (minted[i].n # n \/ n = 0)
    <3>1. minted[i].n <= creds[k].count
      BY <1>2, <1>k, <2>1, <2>23 DEF CountInv, TokensBelow
    <3> QED BY <2>2, <2>3, <2>21, <3>1
  <2>24. CounterUsedOnce'
    BY <1>1, <1>2 DEF CountInv, CounterUsedOnce
  <2>25. CountedApart'
    <3> SUFFICES ASSUME NEW p \in Requests, NEW q \in Requests, Counted(p)', Counted(q)', p # q,
                        reqs'[p].by = reqs'[q].by
                 PROVE  reqs'[p].n # reqs'[q].n \/ reqs'[p].n = 0
      BY DEF CountedApart
    <3>1. CASE p = r
      BY <3>1, <2>7, <2>9, <2>22
    <3>2. CASE q = r
      BY <3>2, <2>7, <2>9, <2>22
    <3>3. CASE p # r /\ q # r
      BY <3>3, <1>2, <2>13 DEF CountInv, CountedApart
    <3> QED BY <3>1, <3>2, <3>3
  <2>26. CountedNew'
    <3> SUFFICES ASSUME NEW q \in Requests, NEW i \in DOMAIN minted, Counted(q)',
                        reqs'[q].by = minted[i].by
                 PROVE  reqs'[q].n # minted[i].n \/ reqs'[q].n = 0
      BY <1>1 DEF CountedNew
    <3>1. CASE q = r
      BY <3>1, <2>7, <2>9, <2>23
    <3>2. CASE q # r
      BY <3>2, <1>2, <2>13 DEF CountInv, CountedNew
    <3> QED BY <3>1, <3>2
  <2>27. \A l \in Stored : l # k => creds'[l] = creds[l] /\ creds[l].by # b
    BY <1>2, <1>k, <2>1, <2>6 DEF Stored, OnceInv, CredsOnce
  <2>28. CountedBelow'
    <3> SUFFICES ASSUME NEW l \in Stored, NEW q \in Requests, Counted(q)', reqs'[q].by = creds'[l].by
                 PROVE  reqs'[q].n <= creds'[l].count
      BY <2>10 DEF CountedBelow
    <3>1. CASE l = k /\ q = r
      BY <3>1, <2>2, <2>6, <2>7, <2>9
    <3>2. CASE l = k /\ q # r
      BY <3>2, <2>6, <2>22
    <3>3. CASE l # k
      <4>1. creds'[l] = creds[l] /\ reqs'[q].by # b
        BY <3>3, <2>27
      <4>2. Counted(q) /\ reqs'[q] = reqs[q]
        BY <4>1, <2>7, <2>9, <2>13
      <4> QED BY <4>1, <4>2, <1>2 DEF CountInv, CountedBelow
    <3> QED BY <3>1, <3>2, <3>3
  <2>29. TokensBelow'
    <3> SUFFICES ASSUME NEW l \in Stored, NEW i \in DOMAIN minted, minted[i].by = creds'[l].by
                 PROVE  minted[i].n <= creds'[l].count
      BY <1>1, <2>10 DEF TokensBelow
    <3>1. CASE l = k
      BY <3>1, <2>6, <2>23
    <3>2. CASE l # k
      BY <3>2, <1>2, <2>27 DEF CountInv, TokensBelow
    <3> QED BY <3>1, <3>2
  <2> QED BY <2>14, <2>15, <2>16, <2>17, <2>18, <2>19, <2>24, <2>25, <2>26, <2>28, <2>29
          DEF WebAuthnInv, SpentInv, CountInv
<1> QED BY <1>4, <1>5

LEMMA AppendEnds ==
    ASSUME NEW T, NEW s \in Seq(T), NEW x \in T
    PROVE  /\ Append(s, x) \in Seq(T) /\ DOMAIN Append(s, x) = DOMAIN s \cup {Len(s) + 1}
           /\ Append(s, x)[Len(s) + 1] = x /\ Len(s) + 1 \notin DOMAIN s
           /\ \A i \in DOMAIN s : Append(s, x)[i] = s[i]
<1>1. Append(s, x) \in Seq(T) /\ Len(Append(s, x)) = Len(s) + 1
  OBVIOUS
<1>2. DOMAIN s = 1 .. Len(s) /\ DOMAIN Append(s, x) = 1 .. (Len(s) + 1) /\ Len(s) \in Nat
  BY <1>1
<1>3. 1 .. (Len(s) + 1) = (1 .. Len(s)) \cup {Len(s) + 1} /\ Len(s) + 1 \notin 1 .. Len(s)
  BY <1>2
<1>4. Append(s, x)[Len(s) + 1] = x /\ \A i \in DOMAIN s : Append(s, x)[i] = s[i]
  BY <1>2
<1> QED
  BY <1>1, <1>2, <1>3, <1>4

\* A token takes the challenge and the counter of its request with it.
LEMMA LoginMintInv ==
    ASSUME WebAuthnInv, NEW r \in Requests, LoginMint(r)
    PROVE  WebAuthnInv'
<1>c. PICK c, t, e : c = reqs[r].chal /\ e = Len(minted) + 1
                     /\ t = [chal |-> c, n |-> reqs[r].n, cn |-> reqs[r].cn, by |-> reqs[r].by]
  BY Zenon
<1>1. /\ reqs[r].pc = "mint" /\ minted' = Append(minted, t) /\ reqs' = [reqs EXCEPT ![r] = Idle]
      /\ UNCHANGED <<sessions, meta, creds, issued, asked, signed>>
  BY <1>c DEF LoginMint
<1>2. Active(r) /\ Counted(r) /\ Stored' = Stored
  BY <1>1 DEF Active, Counted, Stored
<1>3. TypeInv /\ SpentInv /\ OnceInv /\ CountInv /\ ActiveInv
  BY DEF WebAuthnInv
<1>4. reqs[r] \in RequestType /\ minted \in Seq(TokenType)
  BY <1>3 DEF TypeInv
<1>5. t \in TokenType /\ t.chal = c /\ t.n = reqs[r].n /\ t.by = reqs[r].by
  BY <1>c, <1>4 DEF RequestType, TokenType
<1>6. /\ minted' \in Seq(TokenType) /\ DOMAIN minted' = DOMAIN minted \cup {e} /\ minted'[e] = t
      /\ e \notin DOMAIN minted
      /\ \A i \in DOMAIN minted : minted'[i] = minted[i]
  BY <1>1, <1>4, <1>5, <1>c, AppendEnds
<1>7. /\ HeldInv' /\ ActiveInv' /\ (\A x : Spent(x) => Spent(x)') /\ Spent(c)' /\ ~Spent(c)
      /\ reqs' \in [Requests -> RequestType]
      /\ \A q \in Requests : Counted(q)' => Counted(q) /\ q # r /\ reqs'[q] = reqs[q]
  BY <1>1, <1>2, <1>c, DoneSpends, Zenon
<1>8. Spent(t.by)
  BY <1>2, <1>3, <1>5 DEF SpentInv, CountedSpent
<1>9. TypeInv'
  BY <1>1, <1>3, <1>6, <1>7 DEF TypeInv
<1>10. TokensSpent'
  <2>1. \A i \in DOMAIN minted : Spent(minted[i].chal) /\ Spent(minted[i].by)
    BY <1>3 DEF SpentInv, TokensSpent
  <2>2. ASSUME NEW i \in DOMAIN minted' PROVE (Spent(minted[i].chal) /\ Spent(minted[i].by))'
    <3>1. CASE i = e
      BY <3>1, <1>5, <1>6, <1>7, <1>8
    <3>2. CASE i # e
      BY <3>2, <2>1, <1>6, <1>7
    <3> QED BY <3>1, <3>2
  <2> QED BY <2>2 DEF TokensSpent
<1>11. CredsSpent' /\ CountedSpent'
  BY <1>1, <1>2, <1>3, <1>7 DEF SpentInv, CredsSpent, CountedSpent
<1>12. \A i \in DOMAIN minted : minted[i].chal # c
  BY <1>3, <1>7 DEF SpentInv, TokensSpent
<1>13. TokensOnce'
  BY <1>3, <1>5, <1>6, <1>12 DEF OnceInv, TokensOnce
<1>14. TokensNotCreds'
  <2>1. \A l \in Stored : creds[l].by # c
    BY <1>3, <1>7 DEF SpentInv, CredsSpent
  <2> QED BY <1>1, <1>2, <1>3, <1>5, <1>6, <2>1 DEF OnceInv, TokensNotCreds
<1>15. CredsOnce'
  BY <1>1, <1>2, <1>3 DEF OnceInv, CredsOnce
<1>16. CounterUsedOnce'
  <2>1. ASSUME NEW i \in DOMAIN minted, minted[i].by = t.by PROVE minted[i].n # t.n \/ t.n = 0
    BY <2>1, <1>2, <1>3, <1>5 DEF CountInv, CountedNew
  <2> SUFFICES ASSUME NEW i \in DOMAIN minted', NEW j \in DOMAIN minted', i # j,
                      minted'[i].by = minted'[j].by
               PROVE  minted'[i].n # minted'[j].n \/ minted'[i].n = 0
    BY DEF CounterUsedOnce
  <2>2. CASE i = e
    BY <2>1, <2>2, <1>6
  <2>3. CASE j = e
    BY <2>1, <2>3, <1>6
  <2>4. CASE i # e /\ j # e
    BY <2>4, <1>3, <1>6 DEF CountInv, CounterUsedOnce
  <2> QED BY <2>2, <2>3, <2>4
<1>17. CountedApart' /\ CountedBelow'
  BY <1>1, <1>2, <1>3, <1>7 DEF CountInv, CountedApart, CountedBelow
<1>18. CountedNew'
  <2> SUFFICES ASSUME NEW q \in Requests, NEW i \in DOMAIN minted', Counted(q)',
                      reqs'[q].by = minted'[i].by
               PROVE  reqs'[q].n # minted'[i].n \/ reqs'[q].n = 0
    BY DEF CountedNew
  <2>1. Counted(q) /\ q # r /\ reqs'[q] = reqs[q]
    BY <1>7
  <2>2. CASE i = e
    BY <2>1, <2>2, <1>2, <1>3, <1>5, <1>6 DEF CountInv, CountedApart
  <2>3. CASE i # e
    BY <2>1, <2>3, <1>3, <1>6 DEF CountInv, CountedNew
  <2> QED BY <2>2, <2>3
<1>19. TokensBelow'
  <2> SUFFICES ASSUME NEW l \in Stored, NEW i \in DOMAIN minted', minted'[i].by = creds[l].by
               PROVE  minted'[i].n <= creds[l].count
    BY <1>1, <1>2 DEF TokensBelow
  <2>1. CASE i = e
    BY <2>1, <1>2, <1>3, <1>5, <1>6 DEF CountInv, CountedBelow
  <2>2. CASE i # e
    BY <2>2, <1>3, <1>6 DEF CountInv, TokensBelow
  <2> QED BY <2>1, <2>2
<1> QED BY <1>7, <1>9, <1>10, <1>11, <1>13, <1>14, <1>15, <1>16, <1>17, <1>18, <1>19
        DEF WebAuthnInv, SpentInv, OnceInv, CountInv

-----------------------------------------------------------------------------
(* The theorems.                                                           *)

\* The invariant holds for any requests that overlap, are sent twice or are
\* cut off by a restart.
LEMMA WebAuthnAlways == WebAuthnSpec => []WebAuthnInv
<1>1. WebAuthnInit => WebAuthnInv
  BY InitInv
<1>2. WebAuthnInv /\ [WebAuthnNext]_ceremonyVars => WebAuthnInv'
  <2> SUFFICES ASSUME WebAuthnInv, [WebAuthnNext]_ceremonyVars PROVE WebAuthnInv'
    OBVIOUS
  <2>1. ASSUME NEW r \in Requests,
               \/ RegisterBegin(r) \/ stashRegisterMetadata(r) \/ RegisterCreate(r)
               \/ LoginBegin(r) \/ UpdateSignCount(r) \/ LoginLoad(r) \/ LoginMint(r)
        PROVE  WebAuthnInv'
    BY <2>1, RegisterBeginInv, StashInv, RegisterCreateInv, LoginBeginInv, UpdateSignCountInv,
       LoginLoadInv, LoginMintInv
  <2>2. ASSUME NEW r \in Requests, NEW a \in signed, RegisterFinish(r, a) \/ LoginFinish(r, a)
        PROVE  WebAuthnInv'
    BY <2>2, RegisterFinishInv, LoginFinishInv
  <2>3. CASE RevokeCredential \/ Expire \/ Sign \/ Restart \/ UNCHANGED ceremonyVars
    BY <2>3, RevokeInv, ExpireInv, SignInv, RestartInv
  <2> QED BY <2>1, <2>2, <2>3 DEF WebAuthnNext
<1> QED BY <1>1, <1>2, PTL DEF WebAuthnSpec

\* SessionStore.Pop: a challenge serves one ceremony, whatever overlaps.
THEOREM ChallengesServeOnce == WebAuthnSpec => []ChallengeUsedOnce
<1>1. WebAuthnInv => ChallengeUsedOnce
  BY DEF WebAuthnInv, OnceInv, TokensOnce, TokensNotCreds, ChallengeUsedOnce
<1> QED BY <1>1, WebAuthnAlways, PTL

\* UpdateSignCount: no two tokens rest on one counter of a registration.
THEOREM CountersServeOnce == WebAuthnSpec => []CounterUsedOnce
<1>1. WebAuthnInv => CounterUsedOnce
  BY DEF WebAuthnInv, CountInv
<1> QED BY <1>1, WebAuthnAlways, PTL

-----------------------------------------------------------------------------
(* Submission: the first check that refuses decides.                       *)

LEMMA LeastOfSeven ==
  ASSUME NEW F \in SUBSET (1 .. 7), F # {}
  PROVE  \E i \in F : \A k \in F : i <= k
  <1> SUFFICES ASSUME \A i \in F : \E k \in F : k < i PROVE FALSE
    OBVIOUS
  <1>1. 1 \notin F
    OBVIOUS
  <1>2. 2 \notin F
    BY <1>1
  <1>3. 3 \notin F
    BY <1>1, <1>2
  <1>4. 4 \notin F
    BY <1>1, <1>2, <1>3
  <1>5. 5 \notin F
    BY <1>1, <1>2, <1>3, <1>4
  <1>6. 6 \notin F
    BY <1>1, <1>2, <1>3, <1>4, <1>5
  <1>7. 7 \notin F
    BY <1>1, <1>2, <1>3, <1>4, <1>5, <1>6
  <1>8. PICK i \in F : TRUE
    OBVIOUS
  <1>9. i \in {1, 2, 3, 4, 5, 6, 7}
    OBVIOUS
  <1> QED
    BY <1>1, <1>2, <1>3, <1>4, <1>5, <1>6, <1>7, <1>9

LEMMA FirstDecides ==
  ASSUME NEW n \in 1 .. 7, NEW checks, DOMAIN checks = 1 .. n
  PROVE  \/ First(checks) = "ok" /\ \A i \in 1 .. n : ~checks[i][1]
         \/ \E i \in 1 .. n : First(checks) = checks[i][2]
  <1>1. PICK failing : failing = {i \in 1 .. n : checks[i][1]}
    OBVIOUS
  <1>2. CASE failing = {}
    BY <1>1, <1>2 DEF First
  <1>3. CASE failing # {}
    <2>1. \E i \in failing : \A k \in failing : i <= k
      BY <1>1, <1>3, LeastOfSeven
    <2>2. PICK m : m = CHOOSE i \in failing : \A k \in failing : i <= k
      OBVIOUS
    <2>3. m \in failing
      BY <2>1, <2>2
    <2>4. First(checks) = checks[m][2]
      BY <1>1, <1>3, <2>2 DEF First
    <2> QED
      BY <1>1, <2>3, <2>4
  <1> QED
    BY <1>2, <1>3

\* An accepted job passes the denylist; a refusal is a 400 or a 403.
LEMMA SevenChecks ==
  ASSUME NEW c1, NEW c2, NEW c3, NEW c4, NEW c5, NEW c6, NEW c7
  PROVE  /\ DOMAIN <<c1, c2, c3, c4, c5, c6, c7>> = 1 .. 7
         /\ <<c1, c2, c3, c4, c5, c6, c7>>[7] = c7
         /\ \A i \in 1 .. 7 : <<c1, c2, c3, c4, c5, c6, c7>>[i] \in {c1, c2, c3, c4, c5, c6, c7}
  OBVIOUS

LEMMA JobAnswers ==
  ASSUME NEW b
  PROVE  /\ jobAnswer(b) \in {"ok", "400", "400 recorded", "403"}
         /\ jobAnswer(b) = "ok" => ~denylistOnly(b.jobs[1]).err
  <1>1. PICK j : j = b.jobs[1]
    OBVIOUS
  <1>2. PICK c1 : c1 = <<~ParseDryRunParam(b), "400">>
    BY Zenon
  <1>3. PICK c2 : c2 = <<"timeout" \in j.wrong \/ "missing" \in j.wrong, "400">>
    BY Zenon
  <1>4. PICK c3 : c3 = <<~validateSubmitRequest(j), "400 recorded">>
    BY Zenon
  <1>5. PICK c4 : c4 = <<~validateSecretKeys(j), "400">>
    BY Zenon
  <1>6. PICK c5 : c5 = <<j.wrong \cap {"priority", "retry"} # {}, "400">>
    BY Zenon
  <1>7. PICK c6 : c6 = <<~MayWrite(b.caller, "job"), "403">>
    BY Zenon
  <1>8. PICK c7 : c7 = <<denylistOnly(j).err, "400">>
    BY Zenon
  <1>9. PICK checks : checks = <<c1, c2, c3, c4, c5, c6, c7>>
    OBVIOUS
  <1>10. jobAnswer(b) = First(checks)
    BY <1>1, <1>2, <1>3, <1>4, <1>5, <1>6, <1>7, <1>8, <1>9, Zenon DEF jobAnswer
  <1>11. /\ DOMAIN checks = 1 .. 7 /\ checks[7] = c7
         /\ \A i \in 1 .. 7 : checks[i] \in {c1, c2, c3, c4, c5, c6, c7}
    BY <1>9, SevenChecks
  <1>12. \A i \in 1 .. 7 : checks[i][2] \in {"400", "400 recorded", "403"}
    <2>1. c1[2] = "400" /\ c2[2] = "400" /\ c3[2] = "400 recorded"
      BY <1>2, <1>3, <1>4
    <2>2. c4[2] = "400" /\ c5[2] = "400" /\ c6[2] = "403" /\ c7[2] = "400"
      BY <1>5, <1>6, <1>7, <1>8
    <2> QED
      BY <1>11, <2>1, <2>2
  <1>13. checks[7][1] = denylistOnly(j).err
    BY <1>8, <1>11
  <1>14. \/ First(checks) = "ok" /\ \A i \in 1 .. 7 : ~checks[i][1]
         \/ \E i \in 1 .. 7 : First(checks) = checks[i][2]
    BY <1>11, FirstDecides
  <1>15. CASE First(checks) = "ok" /\ \A i \in 1 .. 7 : ~checks[i][1]
    <2>1. ~checks[7][1]
      BY <1>15
    <2>2. ~denylistOnly(j).err
      BY <1>13, <2>1
    <2> QED
      BY <1>1, <1>10, <1>15, <2>2
  <1>16. CASE \E i \in 1 .. 7 : First(checks) = checks[i][2]
    BY <1>10, <1>12, <1>16
  <1> QED
    BY <1>14, <1>15, <1>16

LEMMA WorkflowAnswers ==
  ASSUME NEW b
  PROVE  /\ workflowAnswer(b) \in {"ok", "400", "403"}
         /\ workflowAnswer(b) = "ok" =>
               ParseDryRunParam(b) /\ \A i \in DOMAIN b.jobs : childAccepted(b.jobs[i])
  <1>1. PICK checks : checks = <<
          <<~ParseDryRunParam(b) \/ b.jobs = <<>>, "400">>,
          <<\E i \in DOMAIN b.jobs : ~childAccepted(b.jobs[i]), "400">>,
          <<~validateWorkflowTags(b), "400">>,
          <<~MayWrite(b.caller, "workflow"), "403">> >>
    OBVIOUS
  <1>2. workflowAnswer(b) = First(checks)
    BY <1>1 DEF workflowAnswer
  <1>3. DOMAIN checks = 1 .. 4
    BY <1>1
  <1>4. \A i \in 1 .. 4 : checks[i][2] \in {"400", "403"}
    BY <1>1
  <1>5. /\ checks[1][1] = (~ParseDryRunParam(b) \/ b.jobs = <<>>)
        /\ checks[2][1] = (\E i \in DOMAIN b.jobs : ~childAccepted(b.jobs[i]))
    BY <1>1
  <1>6. \/ First(checks) = "ok" /\ \A i \in 1 .. 4 : ~checks[i][1]
        \/ \E i \in 1 .. 4 : First(checks) = checks[i][2]
    BY <1>3, FirstDecides
  <1>7. CASE First(checks) = "ok" /\ \A i \in 1 .. 4 : ~checks[i][1]
    <2>1. ~checks[1][1] /\ ~checks[2][1]
      BY <1>7
    <2>2. ParseDryRunParam(b) /\ \A i \in DOMAIN b.jobs : childAccepted(b.jobs[i])
      BY <1>5, <2>1, Zenon
    <2> QED
      BY <1>2, <1>7, <2>2
  <1>8. CASE \E i \in 1 .. 4 : First(checks) = checks[i][2]
    BY <1>2, <1>4, <1>8
  <1> QED
    BY <1>6, <1>7, <1>8

-----------------------------------------------------------------------------
(* Submission: what is stored has passed the denylist.                     *)

\* The denied keys of a job are allowed by a rule and audited under an id.
Clean(id, j) ==
    \A k \in j.env \cap Denied :
        /\ \E x \in Exceptions : <<x.key, x.value>> \in j.selector /\ k \in x.allowed
        /\ [id |-> id, key |-> k] \in overrides

\* A record of a job, and of a workflow whose children are clean.
JobClean(r) ==
    /\ r = [id |-> r.id, workflow |-> r.workflow, spec |-> r.spec, owner |-> r.owner,
            status |-> r.status]
    /\ Clean(r.id, r.spec)

WorkflowClean(w) ==
    /\ w = [id |-> w.id, owner |-> w.owner, body |-> w.body, status |-> w.status,
            starting |-> w.starting]
    /\ w.body \in Offered /\ w.body.kind = "workflow"
    /\ workflowAnswer(w.body) = "ok" /\ w.body.dag
    /\ \A i \in DOMAIN w.body.jobs : Clean(Child(w.id, w.body.jobs[i]), w.body.jobs[i])

\* What the start in progress has still to put into the store is clean.
LockClean ==
    /\ lock = [id |-> lock.id, todo |-> lock.todo]
    /\ lock.todo \in Seq(Specs)
    /\ \A i \in DOMAIN lock.todo : Clean(Child(lock.id, lock.todo[i]), lock.todo[i])

StoredInv ==
    /\ \A r \in jobs : JobClean(r)
    /\ \A w \in workflows : WorkflowClean(w)
    /\ LockClean

\* The audit log only grows.
LEMMA CleanKept ==
  ASSUME NEW id, NEW j, Clean(id, j), overrides \subseteq overrides'
  PROVE  Clean(id, j)'
  BY DEF Clean

LEMMA StoredKept ==
  ASSUME StoredInv, overrides \subseteq overrides'
  PROVE  /\ \A r \in jobs : JobClean(r)'
         /\ \A w \in workflows : WorkflowClean(w)'
         /\ lock' = lock => LockClean'
  <1>1. \A r \in jobs : JobClean(r)'
    BY CleanKept DEF StoredInv, JobClean
  <1>2. \A w \in workflows : WorkflowClean(w)'
    BY CleanKept DEF StoredInv, WorkflowClean
  <1>3. lock' = lock => LockClean'
    BY CleanKept DEF StoredInv, LockClean
  <1> QED
    BY <1>1, <1>2, <1>3

\* A job whose denylist check passes is clean once its overrides are audited.
LEMMA Audited ==
  ASSUME NEW id, NEW j, ~denylistOnly(j).err, AuditOverrides(id, j) \subseteq overrides'
  PROVE  Clean(id, j)'
  <1>1. ASSUME NEW k \in j.env \cap Denied
        PROVE  envKeyAllowedByException(k, j.selector) /\ k \in denylistOnly(j).overridden
    BY <1>1 DEF denylistOnly, envKeyBlocked
  <1>2. ASSUME NEW k \in j.env \cap Denied
        PROVE  /\ \E x \in Exceptions : <<x.key, x.value>> \in j.selector /\ k \in x.allowed
               /\ [id |-> id, key |-> k] \in overrides'
    BY <1>1, <1>2 DEF envKeyAllowedByException, AuditOverrides
  <1> QED
    BY <1>2 DEF Clean

LEMMA SubmissionStart == SubmissionInit => StoredInv
  BY DEF SubmissionInit, StoredInv, LockClean, Free

LEMMA SubmitJobStored ==
  ASSUME StoredInv, NEW b \in Offered, NEW dryRun \in BOOLEAN, NEW saved \in BOOLEAN,
         handleSubmitJob(b, dryRun, saved)
  PROVE  StoredInv'
  <1>1. PICK r : r = JobRecord(b.id, Unnamed, b.jobs[1], b.caller.id)
    OBVIOUS
  <1>2. /\ overrides \subseteq overrides' /\ workflows' = workflows /\ lock' = lock
        /\ jobs' = jobs \/ (jobs' = jobs \cup {r} /\ jobAnswer(b) = "ok"
                            /\ AuditOverrides(b.id, b.jobs[1]) \subseteq overrides')
    BY <1>1 DEF handleSubmitJob
  <1>3. jobAnswer(b) = "ok" /\ AuditOverrides(b.id, b.jobs[1]) \subseteq overrides' => JobClean(r)'
    BY <1>1, JobAnswers, Audited DEF JobClean, JobRecord
  <1> QED
    BY <1>2, <1>3, StoredKept DEF StoredInv

LEMMA SubmitWorkflowStored ==
  ASSUME StoredInv, NEW b \in Offered, NEW dryRun \in BOOLEAN, NEW saved \in BOOLEAN,
         handleSubmitWorkflow(b, dryRun, saved)
  PROVE  StoredInv'
  <1>1. PICK audits : audits = UNION {AuditOverrides(Child(b.id, b.jobs[i]), b.jobs[i]) : i \in reached(b)}
    OBVIOUS
  <1>2. /\ b.kind = "workflow" /\ overrides \subseteq overrides' /\ jobs' = jobs /\ lock' = lock
        /\ b.wrong = {} => audits \subseteq overrides'
        /\ workflows' = workflows
           \/ (workflows' = workflows \cup {WorkflowRecord(b)} /\ workflowAnswer(b) = "ok" /\ b.dag)
    BY <1>1 DEF handleSubmitWorkflow, dagRefused
  <1>3. ASSUME workflowAnswer(b) = "ok", b.dag
        PROVE  WorkflowClean(WorkflowRecord(b))'
    <2>1. b.wrong = {} /\ \A i \in DOMAIN b.jobs : childAccepted(b.jobs[i])
      BY <1>3, WorkflowAnswers DEF ParseDryRunParam
    <2>2. b.jobs \in Seq(Specs)
      BY SubmissionAssumption
    <2>3. \A i \in DOMAIN b.jobs : i \in reached(b)
      <3>1. ASSUME NEW i \in DOMAIN b.jobs, NEW k \in 1 .. (i - 1)
            PROVE  childAccepted(b.jobs[k])
        <4>1. k \in DOMAIN b.jobs
          BY <2>2
        <4> QED
          BY <2>1, <4>1
      <3>2. \A i \in DOMAIN b.jobs : childChecks(b.jobs[i]) /\ ~validateEnvMap(b.jobs[i]).err
        BY <2>1 DEF childAccepted
      <3> QED
        BY <3>1, <3>2 DEF reached
    <2>4. ASSUME NEW i \in DOMAIN b.jobs
          PROVE  Clean(Child(b.id, b.jobs[i]), b.jobs[i])'
      <3>1. ~denylistOnly(b.jobs[i]).err
        BY <2>1, <2>4 DEF childAccepted, validateEnvMap, denylistOnly
      <3>2. AuditOverrides(Child(b.id, b.jobs[i]), b.jobs[i]) \subseteq overrides'
        BY <1>1, <1>2, <2>1, <2>3, <2>4
      <3> QED
        BY <3>1, <3>2, Audited
    <2>5. PICK w : w = WorkflowRecord(b)
      OBVIOUS
    <2>6. /\ w.id = b.id /\ w.body = b
          /\ w = [id |-> w.id, owner |-> w.owner, body |-> w.body, status |-> w.status,
                  starting |-> w.starting]
      BY <2>5 DEF WorkflowRecord
    <2>7. WorkflowClean(w)'
      BY <1>2, <1>3, <2>4, <2>6 DEF WorkflowClean
    <2> QED
      BY <2>5, <2>7
  <1> QED
    BY <1>2, <1>3, StoredKept DEF StoredInv

\* A record of a workflow may change its status.
LEMMA StartedStored ==
  ASSUME StoredInv, NEW w \in workflows, NEW status, Started(w, status), overrides' = overrides
  PROVE  \A v \in workflows' : WorkflowClean(v)'
  <1>1. PICK v : v = [w EXCEPT !.status = status, !.starting = FALSE]
    OBVIOUS
  <1>2. WorkflowClean(w)'
    BY StoredKept
  <1>3. /\ v = [id |-> w.id, owner |-> w.owner, body |-> w.body, status |-> status,
                starting |-> FALSE]
    BY <1>1, <1>2 DEF WorkflowClean
  <1>4. WorkflowClean(v)'
    BY <1>2, <1>3 DEF WorkflowClean
  <1> QED
    BY <1>1, <1>4, StoredKept DEF Started

LEMMA StartStored ==
  ASSUME StoredInv, NEW w \in workflows, NEW saved \in BOOLEAN, Start(w, saved)
  PROVE  StoredInv'
  <1>1. overrides' = overrides /\ WorkflowClean(w)
    BY DEF Start, StartBegin, StartJob, StartEnd, StoredInv
  <1>2. Free = [id |-> Free.id, todo |-> Free.todo] /\ Free.todo = <<>>
    BY DEF Free
  <1>3. lock' = Free => LockClean'
    <2>1. Free.todo \in Seq(Specs) /\ DOMAIN Free.todo = {}
      BY <1>2
    <2> QED
      BY <1>2, <2>1 DEF LockClean
  <1>4. (\A r \in jobs : JobClean(r)') /\ (\A v \in workflows : WorkflowClean(v)')
        /\ (lock' = lock => LockClean')
    BY <1>1, StoredKept
  <1>5. CASE StartBegin(w)
    <2>1. CASE w.status = "pending"
      <3>1. /\ lock' = [id |-> w.id, todo |-> w.body.jobs] /\ workflows' = workflows /\ jobs' = jobs
        BY <1>5, <2>1 DEF StartBegin
      <3>2. WorkflowClean(w)' /\ w.body.jobs \in Seq(Specs)
        BY <1>1, <1>4, SubmissionAssumption DEF WorkflowClean
      <3>3. LockClean'
        BY <3>1, <3>2 DEF LockClean, WorkflowClean
      <3> QED
        BY <1>4, <3>1, <3>3 DEF StoredInv
    <2>2. CASE w.status # "pending"
      <3>1. Started(w, w.status) /\ lock' = lock /\ jobs' = jobs
        BY <1>5, <2>2 DEF StartBegin
      <3> QED
        BY <1>1, <1>4, <3>1, StartedStored DEF StoredInv
    <2> QED
      BY <2>1, <2>2
  <1>6. CASE StartJob(w, saved)
    <2>1. PICK j : j = Head(lock.todo)
      OBVIOUS
    <2>2. PICK r : r = JobRecord(Child(w.id, j), w.id, j, w.owner)
      OBVIOUS
    <2>3. /\ lock.id = w.id /\ lock.todo # <<>>
          /\ \/ /\ jobs' = jobs \cup {r} /\ workflows' = workflows
                /\ lock' = [lock EXCEPT !.todo = Tail(@)]
             \/ Started(w, "failed") /\ lock' = Free /\ jobs' = jobs
      BY <1>6, <2>1, <2>2 DEF StartJob
    <2>4. LockClean
      BY DEF StoredInv
    <2>5. j = lock.todo[1] /\ 1 \in DOMAIN lock.todo
      BY <2>1, <2>3, <2>4 DEF LockClean
    <2>6. Clean(Child(w.id, j), j)'
      BY <1>1, <2>3, <2>4, <2>5, CleanKept DEF LockClean
    <2>7. JobClean(r)'
      BY <2>2, <2>6 DEF JobClean, JobRecord
    <2>8. ASSUME lock' = [lock EXCEPT !.todo = Tail(@)]
          PROVE  LockClean'
      <3>1. PICK t : t = Tail(lock.todo)
        OBVIOUS
      <3>2. /\ t \in Seq(Specs)
            /\ \A i \in DOMAIN t : i + 1 \in DOMAIN lock.todo /\ t[i] = lock.todo[i + 1]
        BY <2>3, <2>4, <3>1 DEF LockClean
      <3>3. lock' = [id |-> lock.id, todo |-> t]
        BY <2>4, <2>8, <3>1 DEF LockClean
      <3>4. ASSUME NEW i \in DOMAIN t
            PROVE  Clean(Child(w.id, t[i]), t[i])'
        <4>1. Clean(Child(w.id, t[i]), t[i])
          BY <2>3, <2>4, <3>2, <3>4 DEF LockClean
        <4> QED
          BY <1>1, <4>1, CleanKept
      <3> QED
        BY <2>3, <3>2, <3>3, <3>4 DEF LockClean
    <2> QED
      BY <1>1, <1>3, <1>4, <2>3, <2>7, <2>8, StartedStored DEF StoredInv
  <1>7. CASE StartEnd(w, saved)
    <2>1. Started(w, "running") /\ lock' = Free /\ jobs' = jobs
      BY <1>7 DEF StartEnd
    <2> QED
      BY <1>1, <1>3, <1>4, <2>1, StartedStored DEF StoredInv
  <1> QED
    BY <1>5, <1>6, <1>7 DEF Start

LEMMA CancelStored ==
  ASSUME StoredInv, NEW c \in Callers,
         (\E r \in jobs : handleCancelJob(c, r)) \/ (\E w \in workflows : handleCancelWorkflow(c, w))
  PROVE  StoredInv'
  <1>1. overrides' = overrides /\ lock' = lock
    BY DEF handleCancelJob, handleCancelWorkflow
  <1>2. (\A r \in jobs : JobClean(r)') /\ (\A v \in workflows : WorkflowClean(v)') /\ LockClean'
    BY <1>1, StoredKept
  <1>3. ASSUME NEW r \in jobs
        PROVE  JobClean([r EXCEPT !.status = "cancelled"])'
    <2>1. PICK q : q = [r EXCEPT !.status = "cancelled"]
      OBVIOUS
    <2>2. JobClean(r)'
      BY <1>2
    <2>3. q = [id |-> r.id, workflow |-> r.workflow, spec |-> r.spec, owner |-> r.owner,
               status |-> "cancelled"]
      BY <2>1, <2>2 DEF JobClean
    <2>4. JobClean(q)'
      BY <2>2, <2>3 DEF JobClean
    <2> QED
      BY <2>1, <2>4
  <1>4. ASSUME NEW w \in workflows
        PROVE  WorkflowClean([w EXCEPT !.status = "cancelled"])'
    <2>1. PICK v : v = [w EXCEPT !.status = "cancelled"]
      OBVIOUS
    <2>2. WorkflowClean(w)'
      BY <1>2
    <2>3. v = [id |-> w.id, owner |-> w.owner, body |-> w.body, status |-> "cancelled",
               starting |-> w.starting]
      BY <2>1, <2>2 DEF WorkflowClean
    <2>4. WorkflowClean(v)'
      BY <2>2, <2>3 DEF WorkflowClean
    <2> QED
      BY <2>1, <2>4
  <1>5. \A r \in jobs' : JobClean(r)'
    BY <1>2, <1>3 DEF handleCancelJob, handleCancelWorkflow
  <1>6. \A v \in workflows' : WorkflowClean(v)'
    BY <1>2, <1>4 DEF handleCancelJob, handleCancelWorkflow
  <1> QED
    BY <1>2, <1>5, <1>6 DEF StoredInv

LEMMA StoredStep == StoredInv /\ [SubmissionNext]_submissionVars => StoredInv'
  <1> SUFFICES ASSUME StoredInv, [SubmissionNext]_submissionVars PROVE StoredInv'
    OBVIOUS
  <1>1. CASE UNCHANGED submissionVars
    BY <1>1, StoredKept DEF submissionVars, StoredInv
  <1>2. ASSUME NEW b \in Offered, NEW dryRun \in BOOLEAN, NEW saved \in BOOLEAN,
               Submit(b, dryRun, saved)
        PROVE  StoredInv'
    BY <1>2, SubmitJobStored, SubmitWorkflowStored DEF Submit
  <1> QED
    BY <1>1, <1>2, StartStored, CancelStored DEF SubmissionNext

\* No stored job carries a denied variable without a rule that allows it and
\* its override in the audit log, whatever bodies clients send, however their
\* requests overlap and wherever the store fails (handlers_jobs.go,
\* handlers_workflows.go, env_denylist.go, WorkflowStore.Start).
THEOREM EnvStaysClean == SubmissionSpec => []EnvClean
  <1>1. StoredInv => EnvClean
    BY DEF StoredInv, JobClean, Clean, EnvClean
  <1> QED
    BY <1>1, SubmissionStart, StoredStep, PTL DEF SubmissionSpec

-----------------------------------------------------------------------------
(* Submission: what a dry run foretells.                                   *)

\* What a dry run of a body answers, at any time.
DryAnswer(b) ==
    IF b.kind = "job"
    THEN IF jobAnswer(b) # "ok" THEN jobAnswer(b) ELSE "200"
    ELSE IF workflowAnswer(b) # "ok" THEN workflowAnswer(b)
         ELSE IF b.dag THEN "200" ELSE "400"

\* The answer of a real submission fits that of the dry run of the same body.
Fits(b, answer) ==
    IF DryAnswer(b) = "200" THEN answer \in {"201", "409", "500"} ELSE answer = DryAnswer(b)

PreviewInv ==
    /\ preview = [body |-> preview.body, dry |-> preview.dry, real |-> preview.real,
                  recorded |-> preview.recorded]
    /\ preview.body # NoBody => preview.dry = DryAnswer(preview.body)
    /\ preview.real # "none" => preview.body # NoBody /\ Fits(preview.body, preview.real)

LEMMA AnsweredFits ==
  ASSUME PreviewInv, NEW b \in Offered, NEW dryRun \in BOOLEAN, NEW answer,
         Answered(b, dryRun, answer),
         dryRun => answer = DryAnswer(b), ~dryRun => Fits(b, answer)
  PROVE  PreviewInv'
  <1>1. b # NoBody
    BY SubmissionAssumption
  <1>2. CASE dryRun
    BY <1>1, <1>2 DEF Answered, PreviewInv
  <1>3. CASE ~dryRun /\ preview.body = b
    BY <1>1, <1>3 DEF Answered, PreviewInv
  <1>4. CASE ~dryRun /\ preview.body # b
    BY <1>4 DEF Answered, PreviewInv
  <1> QED
    BY <1>2, <1>3, <1>4

LEMMA SubmitFits ==
  ASSUME PreviewInv, NEW b \in Offered, NEW dryRun \in BOOLEAN, NEW saved \in BOOLEAN,
         Submit(b, dryRun, saved)
  PROVE  PreviewInv'
  <1>1. CASE handleSubmitJob(b, dryRun, saved)
    <2>1. PICK answer : answer = IF jobAnswer(b) # "ok" THEN jobAnswer(b)
                                 ELSE IF dryRun THEN "200"
                                 ELSE IF Exists(b.id) THEN "409"
                                 ELSE IF saved THEN "201" ELSE "500"
      OBVIOUS
    <2>2. b.kind = "job" /\ Answered(b, dryRun, answer)
      BY <1>1, <2>1 DEF handleSubmitJob
    <2>3. (dryRun => answer = DryAnswer(b)) /\ (~dryRun => Fits(b, answer))
      BY <2>1, <2>2, JobAnswers DEF DryAnswer, Fits
    <2> QED
      BY <2>2, <2>3, AnsweredFits
  <1>2. CASE handleSubmitWorkflow(b, dryRun, saved)
    <2>1. PICK answer : answer = IF workflowAnswer(b) # "ok" THEN workflowAnswer(b)
                                 ELSE IF ~b.dag THEN "400"
                                 ELSE IF dryRun THEN "200"
                                 ELSE IF WorkflowExists(b.id) THEN "409" ELSE "500"
      OBVIOUS
    <2>2. b.kind = "workflow" /\ (preview' = preview \/ Answered(b, dryRun, answer))
      BY <1>2, <2>1 DEF handleSubmitWorkflow, dagRefused
    <2>3. (dryRun => answer = DryAnswer(b)) /\ (~dryRun => Fits(b, answer))
      BY <2>1, <2>2, WorkflowAnswers DEF DryAnswer, Fits
    <2> QED
      BY <2>2, <2>3, AnsweredFits DEF PreviewInv
  <1> QED
    BY <1>1, <1>2 DEF Submit

LEMMA StartFits ==
  ASSUME StoredInv, PreviewInv, NEW w \in workflows, NEW saved \in BOOLEAN, Start(w, saved)
  PROVE  PreviewInv'
  <1>1. w.body \in Offered /\ DryAnswer(w.body) = "200"
    BY DEF StoredInv, WorkflowClean, DryAnswer
  <1>2. Fits(w.body, "500") /\ Fits(w.body, "201")
    BY <1>1 DEF Fits
  <1>3. \/ preview' = preview
        \/ Answered(w.body, FALSE, "500")
        \/ Answered(w.body, FALSE, "201")
    BY DEF Start, StartBegin, StartJob, StartEnd
  <1> QED
    BY <1>1, <1>2, <1>3, AnsweredFits DEF PreviewInv

LEMMA PreviewStep ==
  ASSUME StoredInv, PreviewInv, [SubmissionNext]_submissionVars
  PROVE  PreviewInv'
  <1>1. CASE preview' = preview
    BY <1>1 DEF PreviewInv
  <1>2. ASSUME NEW c \in Callers,
               (\E r \in jobs : handleCancelJob(c, r)) \/ (\E w \in workflows : handleCancelWorkflow(c, w))
        PROVE  preview' = preview
    BY <1>2 DEF handleCancelJob, handleCancelWorkflow
  <1> QED
    BY <1>1, <1>2, SubmitFits, StartFits DEF SubmissionNext, submissionVars

\* A dry run foretells the real submission of the same body, at any later time
\* (dry_run.go and the order of the checks in both handlers).
THEOREM DryRunForetells == SubmissionSpec => []DryRunAgrees
  <1>1. SubmissionInit => PreviewInv
    BY DEF SubmissionInit, NoPreview, PreviewInv
  <1>2. PreviewInv => DryRunAgrees
    BY DEF PreviewInv, Fits, DryRunAgrees
  <1>3. StoredInv /\ PreviewInv /\ [SubmissionNext]_submissionVars => StoredInv' /\ PreviewInv'
    BY StoredStep, PreviewStep
  <1> QED
    BY <1>1, <1>2, <1>3, SubmissionStart, PTL DEF SubmissionSpec

=============================================================================
