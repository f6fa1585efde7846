------------------------------ MODULE OAuthProvider ------------------------------
(***************************************************************************)
(* The single-owner authorization server of the Hermes bridge,             *)
(* src/hermes_mcp/oauth.py: connectors register themselves, the owner      *)
(* approves a login with a password, a code is exchanged for tokens, and   *)
(* tokens are renewed, while the service may be restarted at any moment.   *)
(*                                                                         *)
(* Registrations and tokens live in memory and in a file that is replaced  *)
(* whole; pending logins and codes live in memory only.  A handler does    *)
(* not yield, so each is one step.  Ages are not counted: whatever has a   *)
(* lifetime may be found expired at any time.  Rate limits and the checks  *)
(* of what a request may contain only refuse, and are left out.            *)
(***************************************************************************)
EXTENDS Naturals, FiniteSets

CONSTANTS
    MaxClients,   \* MAX_REGISTERED_CLIENTS
    MaxPending,   \* MAX_PENDING_AUTHORIZATIONS
    MaxIds,       \* bound: registrations
    MaxLogins,    \* bound: logins approved
    MaxTokens     \* bound: token pairs issued

ASSUME OAuthBounds == MaxIds \in Nat /\ MaxTokens \in Nat

VARIABLES
    registered, \* clients, numbered in the order of registration
    pending,   \* client -> "none", "asked" or "approved": its login, at most one
    codes,     \* codes not yet exchanged: [client, login]
    access,    \* access tokens, [client, number]
    refresh,   \* refresh tokens, [client, number]
    expired,   \* tokens whose lifetime has passed
    disk,      \* the state file
    given,     \* how many ids, logins and tokens were given out
    held,      \* client -> the refresh token it was given last, while that lives, or 0
    stranded,  \* history: clients that spent that token and got no answer for it
    approved,  \* history: client -> logins the owner approved
    spent      \* history: client -> codes exchanged

memoryVars == <<registered, pending, codes, access, refresh>>
heldVars == <<expired, held, stranded, approved, spent>>
oauthVars == <<memoryVars, disk, given, heldVars>>

Ids == 1..MaxIds
Saved == [clients |-> registered, access |-> access, refresh |-> refresh]

OAuthInit ==
    /\ registered = {}
    /\ pending = [c \in Ids |-> "none"]
    /\ codes = {}
    /\ access = {} /\ refresh = {}
    /\ expired = {}
    /\ disk = Saved
    /\ given = [ids |-> 0, logins |-> 0, tokens |-> 0]
    /\ held = [c \in Ids |-> 0]
    /\ stranded = {}
    /\ approved = [c \in Ids |-> 0]
    /\ spent = [c \in Ids |-> 0]

\* _save: the file is replaced, or it is not and the request fails; a failure may
\* also come after the replacement.
Saves == disk' = Saved'
SaveFails == disk' \in {disk, Saved'}

-----------------------------------------------------------------------------
(* Registration and login *)

\* Mutant: a client that can only refresh is not active.
MutConnected == {t.client : t \in access}

\* Clients with a token, expired or not.
Connected == {t.client : t \in access \union refresh}

\* register_client: when the table is full the oldest client without tokens goes.
Registers ==
    LET c == given.ids + 1
        disposable == registered \ Connected
        oldest == CHOOSE d \in disposable : \A e \in disposable : d <= e
        full == Cardinality(registered) >= MaxClients
    IN  /\ given.ids < MaxIds
        /\ full => disposable # {}
        /\ given' = [given EXCEPT !.ids = c]
        /\ registered' = (IF full THEN registered \ {oldest} ELSE registered) \union {c}
        /\ pending' = IF full THEN [pending EXCEPT ![oldest] = "none"] ELSE pending
        /\ UNCHANGED <<codes, access, refresh, heldVars>>
        /\ Saves \/ SaveFails

\* authorize: a client's earlier login is superseded, those that expired are dropped.
Authorizes(c) ==
    LET left == {d \in Ids : pending[d] # "none"} \ {c}
    IN  /\ c \in registered
        /\ \E stay \in SUBSET left :
              LET kept == [d \in Ids |-> IF d \in stay THEN pending[d] ELSE "none"]
              IN  pending' = IF Cardinality(stay) < MaxPending
                             THEN [kept EXCEPT ![c] = "asked"] ELSE kept
        /\ UNCHANGED <<registered, codes, access, refresh, disk, given, heldVars>>

\* handle_login, with the right password.  The form sent again changes nothing.
LogsIn(c) ==
    /\ pending[c] = "asked"
    /\ given.logins < MaxLogins
    /\ given' = [given EXCEPT !.logins = @ + 1]
    /\ approved' = [approved EXCEPT ![c] = @ + 1]
    /\ pending' = [pending EXCEPT ![c] = "approved"]
    /\ UNCHANGED <<registered, codes, access, refresh, disk, expired, held, stranded, spent>>

\* handle_login_completion: an approved login becomes a code.
Completes(c) ==
    /\ pending[c] = "approved"
    /\ pending' = [pending EXCEPT ![c] = "none"]
    /\ codes' = codes \union {[client |-> c, login |-> approved[c]]}
    /\ UNCHANGED <<registered, access, refresh, disk, given, heldVars>>

-----------------------------------------------------------------------------
(* Tokens *)

\* The token that a client was given last.
HeldToken(c) == [client |-> c, number |-> held[c]]

\* A client lets go of a token that it revokes or that grows too old.
LetsGo(token) ==
    LET gone == {c \in Ids : held[c] # 0 /\ HeldToken(c) = token}
    IN  /\ held' = [c \in Ids |-> IF c \in gone THEN 0 ELSE held[c]]
        /\ stranded' = stranded \ gone

\* _issue_tokens: expired tokens are dropped, a pair is added and saved.  When the save
\* fails, or the answer is lost, the client keeps what it held, which the request spent
\* if it is not among the tokens kept.
Issues(c, kept) ==
    LET token == [client |-> c, number |-> given.tokens + 1]
    IN  /\ given.tokens < MaxTokens
        /\ given' = [given EXCEPT !.tokens = @ + 1]
        /\ access' = (access \ expired) \union {token}
        /\ refresh' = (kept \ expired) \union {token}
        /\ \/ Saves /\ held' = [held EXCEPT ![c] = token.number] /\ stranded' = stranded \ {c}
           \/ /\ Saves \/ SaveFails
              /\ held' = held
              /\ stranded' = stranded \union
                    {d \in {c} : held[d] # 0 /\ HeldToken(d) \notin kept}

ExchangesCode(code) ==
    /\ code \in codes
    /\ code.client \in registered
    /\ codes' = codes \ {code}
    /\ spent' = [spent EXCEPT ![code.client] = @ + 1]
    /\ UNCHANGED <<registered, pending, expired, approved>>
    /\ Issues(code.client, refresh)

\* exchange_refresh_token: a refresh token is used once.
Refreshes(token) ==
    /\ token \in refresh \ expired
    /\ token.client \in registered
    /\ UNCHANGED <<registered, pending, codes, expired, approved, spent>>
    /\ Issues(token.client, refresh \ {token})

\* load_refresh_token and load_access_token find a token that has expired.
FindsExpired(token) ==
    /\ token \in expired
    /\ \/ token \in refresh /\ refresh' = refresh \ {token} /\ UNCHANGED access
       \/ token \in access /\ access' = access \ {token} /\ UNCHANGED refresh
    /\ UNCHANGED <<registered, pending, codes, given, heldVars>>
    /\ Saves \/ SaveFails

\* revoke_token drops the one token it is given; the other of its pair stays.
Revokes(token) ==
    /\ \/ token \in access /\ access' = access \ {token} /\ UNCHANGED <<refresh, held, stranded>>
       \/ token \in refresh /\ refresh' = refresh \ {token} /\ UNCHANGED access /\ LetsGo(token)
    /\ UNCHANGED <<registered, pending, codes, given, expired, approved, spent>>
    /\ Saves \/ SaveFails

\* A token's lifetime passes: the access token's first, the refresh token's much later.
TokenExpires(token) ==
    /\ token \notin expired
    /\ expired' = expired \union {token}
    /\ LetsGo(token)
    /\ UNCHANGED <<memoryVars, disk, given, approved, spent>>

\* The access token's lifetime alone has passed, and it is dropped.
AccessLapses(token) ==
    /\ token \in access
    /\ access' = access \ {token}
    /\ UNCHANGED <<registered, pending, codes, refresh, given, heldVars>>
    /\ Saves \/ SaveFails

\* The service is restarted: what is not in the file is gone, and a token that was spent
\* without ever reaching the file as spent is back.
ServerRestarts ==
    /\ registered' = disk.clients
    /\ access' = disk.access
    /\ refresh' = disk.refresh
    /\ pending' = [c \in Ids |-> "none"]
    /\ codes' = {}
    /\ stranded' = {c \in stranded : HeldToken(c) \notin disk.refresh}
    /\ UNCHANGED <<disk, given, expired, held, approved, spent>>

OAuthNext ==
    \/ Registers
    \/ \E c \in Ids : Authorizes(c) \/ LogsIn(c) \/ Completes(c)
    \/ \E code \in codes : ExchangesCode(code)
    \/ \E token \in access \union refresh :
          \/ Refreshes(token) \/ FindsExpired(token) \/ Revokes(token) \/ AccessLapses(token)
    \/ \E token \in access \union refresh \union disk.access \union disk.refresh :
          TokenExpires(token)
    \/ ServerRestarts

OAuthSpec == OAuthInit /\ [][OAuthNext]_oauthVars

-----------------------------------------------------------------------------
(* Properties *)

\* A client that holds an unexpired refresh token can use it, now and after a restart:
\* neither newcomers at the limit, nor other clients' requests, nor its own that fail, nor
\* failed saves take it or the client's registration away.  The exception is a client
\* whose refresh with that token was not answered, because the save failed or the answer
\* was lost: exchange_refresh_token has dropped the token by then, and only a restart
\* that finds it still in the file brings it back.
StaysConnected ==
    \A c \in Ids : held[c] # 0 /\ c \notin stranded =>
        /\ HeldToken(c) \in refresh /\ c \in registered
        /\ HeldToken(c) \in disk.refresh /\ c \in disk.clients

\* An approval is good for one code, and a code for one pair of tokens, however often
\* a form, a completion or an exchange is repeated.
ApprovalSpentOnce == \A c \in Ids : spent[c] <= approved[c]

\* Who is connected stays so, and nobody is connected twice by one approval.
ConnectionsHold == StaysConnected /\ ApprovalSpentOnce
=============================================================================
