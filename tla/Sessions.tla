------------------------------ MODULE Sessions ------------------------------
(***************************************************************************)
(* Registration and login in the browser, over the accounts: the cookies   *)
(* of a browser, the private keys that each server process keeps in memory *)
(* for the users who gave it their phrase, and the charter, which the page *)
(* tries to sign for the accounts it registers.  A token is not revoked:   *)
(* the cookie ends with it.  The endpoints under /api/auth hand out tokens *)
(* but keep neither keys nor cookies, so of them only registration changes *)
(* state.  Languages and the text of the charter are left out.             *)
(***************************************************************************)
EXTENDS Accounts

CONSTANTS
    Browsers,
    TokenLife,      \* JWT_EXPIRATION_SECONDS
    ConsentLife     \* max_age of the cookie charter_accepted

ASSUME SessionsAssumption == TokenLife \in Nat /\ ConsentLife \in Nat

VARIABLES
    keys,       \* _session_private_keys of a process
    token,      \* cookie "token" of a browser: an account and a time, or none
    consent,    \* cookie "charter_accepted": when it ends
    signed,     \* table charter_acceptances
    page        \* the browser whose page has its registration run in a process

sessionVars == <<keys, token, consent, signed, page>>

SessionsInit ==
    /\ keys = [p \in AccountProcesses |-> {}] /\ page = keys
    /\ signed = {}
    /\ token = [b \in Browsers |-> {}]
    /\ consent = [b \in Browsers |-> 0]

LoggedIn(b) == {t \in token[b] : now < t.expires}

\* The name a key is kept under is public_id, which a server does not have:
\* its key goes to None, which is the subject of no token.
KeyName(x) == IF x.role = "client" THEN {x.phrase} ELSE {}
WithKey(held, x, phrase) ==
    {k \in held : k.name # KeyName(x)} \union {[name |-> KeyName(x), phrase |-> phrase]}

-----------------------------------------------------------------------------
AcceptCharter(b) ==
    /\ consent' = [consent EXCEPT ![b] = now + ConsentLife]
    /\ UNCHANGED <<keys, token, signed, page, accountVars, now>>

WebRegister(p, b, phrase, password, server, address) ==
    /\ now < consent[b]
    /\ AccountRegister(p, phrase, password, server, address)
    /\ page' = [page EXCEPT ![p] = {b}]
    /\ UNCHANGED <<keys, token, consent, signed>>

\* The phrase is not asked to sign the charter.
ApiRegister(p, phrase, password, server, address) ==
    AccountRegister(p, phrase, password, server, address) /\ UNCHANGED sessionVars

InsertRow(p) == (InsertServer(p) \/ InsertClient(p)) /\ UNCHANGED sessionVars

\* sign_charter_for_account() for a row of the registration; the page answers
\* the same whether it has signed or failed.
SignRegistered(p) ==
    /\ page[p] # {}
    /\ \E r \in registering[p] : r.next = "done" /\ signed' \in {signed \union {i} : i \in r.rows}
    /\ UNCHANGED <<keys, token, consent, page, accountVars, now>>

\* The page loses its cookies.
AnswerPage(p) ==
    /\ FinishRegistration(p)
    /\ page' = [page EXCEPT ![p] = {}]
    /\ consent' = [b \in Browsers |-> IF b \in page[p] THEN 0 ELSE consent[b]]
    /\ token' = [b \in Browsers |-> IF b \in page[p] THEN {} ELSE token[b]]
    /\ UNCHANGED <<keys, signed>>

AnswerFailure(p) ==
    /\ RegisterFails(p)
    /\ page' = [page EXCEPT ![p] = {}]
    /\ UNCHANGED <<keys, token, consent, signed>>

\* The session of an account, once phrase and password have been checked.
Open(p, b, x, phrase) ==
    /\ token' = [token EXCEPT ![b] = {[of |-> Id(x), expires |-> now + TokenLife]}]
    /\ keys' = [keys EXCEPT ![p] = WithKey(@, x, phrase)]
    /\ UNCHANGED <<consent, signed, page, accountVars, now>>

\* A phrase logs in to its client, that of the first id, not to its server.
Login(p, b, x, phrase, password) ==
    /\ x.role = "client" /\ x.draw = 0 /\ x.phrase = phrase /\ x.password = password
    /\ Open(p, b, x, phrase)

\* The id and the password alone open the session, as at /api/auth.
MayLoginById_mut(x, phrase, password) == x.password = password
MayLoginById(x, phrase, password) == x.password = password /\ x.phrase = phrase

LoginById(p, b, x, phrase, password) ==
    MayLoginById(x, phrase, password) /\ Open(p, b, x, phrase)

\* The key goes from the process that answers, also under the other browsers
\* of the user; their tokens last.
Logout(p, b) ==
    /\ keys' = [keys EXCEPT ![p] =
          {k \in @ : \A t \in LoggedIn(b) : ~(t.of.role = "client" /\ k.name = {t.of.phrase})}]
    /\ token' = [token EXCEPT ![b] = {}]
    /\ consent' = [consent EXCEPT ![b] = 0]
    /\ UNCHANGED <<signed, page, accountVars, now>>

\* POST /api/charter/accept: with the phrase of an account, by anybody.
SignCharter(x) ==
    /\ Id(x) \notin signed
    /\ signed' = signed \union {Id(x)}
    /\ UNCHANGED <<keys, token, consent, page, accountVars, now>>

SessionsRestart(p) ==
    /\ AccountRestart(p)
    /\ keys' = [keys EXCEPT ![p] = {}]
    /\ page' = [page EXCEPT ![p] = {}]
    /\ UNCHANGED <<token, consent, signed>>

SessionsTick == AccountTick /\ UNCHANGED sessionVars

SessionsNext ==
    \/ \E p \in AccountProcesses :
          \/ \E phrase \in Phrases, password \in Passwords, server \in BOOLEAN,
                a \in Addresses :
                \/ \E b \in Browsers : WebRegister(p, b, phrase, password, server, a)
                \/ ApiRegister(p, phrase, password, server, a)
          \/ InsertRow(p)
          \/ SignRegistered(p)
          \/ AnswerPage(p)
          \/ AnswerFailure(p)
          \/ SessionsRestart(p)
          \/ /\ Waiting(p)
             /\ \/ \E b \in Browsers :
                      \/ AcceptCharter(b)
                      \/ Logout(p, b)
                      \/ \E x \in accounts, phrase \in Phrases, password \in Passwords :
                            \/ Login(p, b, x, phrase, password)
                            \/ LoginById(p, b, x, phrase, password)
                \/ \E x \in accounts : SignCharter(x)
    \/ SessionsTick

SessionsSpec ==
    AccountsInit /\ SessionsInit /\ now = 0
    /\ [][SessionsNext]_<<accountVars, sessionVars, now>>

-----------------------------------------------------------------------------
SessionsTypeOK ==
    /\ keys \in [AccountProcesses -> SUBSET [name : SUBSET Phrases, phrase : Phrases]]
    /\ token \in [Browsers -> SUBSET [of : Ids, expires : Nat]]
    /\ consent \in [Browsers -> Nat]
    /\ signed \subseteq Ids
    /\ page \in [AccountProcesses -> SUBSET Browsers]

\* The key that signs the invites of a user is made from the phrase of that
\* user's account and is the only one a process keeps for it, whoever logged
\* in, as what and in which browser, and whoever logged out since.
SessionKeyOwned ==
    \A p \in AccountProcesses : \A k \in keys[p] :
        /\ k.name # {} => k.name = {k.phrase}
        /\ \E x \in accounts : x.phrase = k.phrase /\ KeyName(x) = k.name
        /\ \A l \in keys[p] : l.name = k.name => l = k
=============================================================================
