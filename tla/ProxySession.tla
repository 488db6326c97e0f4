---------------------------- MODULE ProxySession ----------------------------
(***************************************************************************)
(* The session of a proxy with the server in local mode: where its token   *)
(* comes from (cmd/agent-proxy/main.go, wsconn/token.go), how it is        *)
(* renewed (StartAutoRefresh), and the connection that is authorised with  *)
(* it (wsconn/client.go, httpserver/proxy_hub.go).  Access and refresh     *)
(* token are issued and deleted together (auth_handler.go), so that a pair *)
(* of them is one value.  A refresh token serves once.  The browser that   *)
(* logs the proxy in keeps the same pair for itself (authStore.js) and     *)
(* renews it, too (http.js).                                               *)
(***************************************************************************)
EXTENDS Naturals, FiniteSets

CONSTANTS Pairs,      \* names of token pairs; a name nobody holds is used again
          Conns,      \* names of connections; likewise
          None,
          Faults,     \* the kinds of faults that may happen
          FaultBound  \* how many of them

\* Each of the six places that hold a pair may hold another one.
ASSUME SizeAssumption ==
    /\ Cardinality(Pairs) > 6
    /\ None \notin Pairs \cup Conns
    /\ FaultBound \in Nat

VARIABLES
    pairs,       \* AuthHandler.tokens and refreshTokens
    old,         \* pairs whose access token has expired
    env,         \* SAMAMS_TOKEN, and
    envRefresh,  \* whether SAMAMS_REFRESH_TOKEN comes with it
    file,        \* ~/.samams/token.json
    proxy,       \* what main is doing
    data,        \* tokenData, then the data of StartAutoRefresh
    renewable,   \* data.RefreshToken # ""
    token,       \* Client.token
    reply,       \* the answer to a refresh, under way to the proxy
    since,       \* what befell the tokens since the proxy has them
    browser,     \* sessionStorage
    conn,        \* Client.conn while readPump reads from it
    open,        \* connections that neither end has closed
    handler,     \* what HandleWebSocket does with each connection
    registered,  \* ProxyHub.conns[userID]
    faults

tokenVars == <<pairs, old, env, envRefresh, file, data, renewable, token, reply, since, browser>>
linkVars  == <<conn, open, handler, registered>>
vars == <<tokenVars, linkVars, proxy, faults>>

Fault(kind) ==
    /\ kind \in Faults /\ faults < FaultBound
    /\ faults' = faults + 1
Calm == UNCHANGED faults

Init ==
    /\ env \in {None, CHOOSE p \in Pairs : TRUE}
    /\ envRefresh \in (IF env = None THEN {FALSE} ELSE BOOLEAN)
    /\ pairs = {env} \ {None} /\ old = {}
    /\ file = None /\ data = None /\ token = None /\ reply = None /\ browser = None
    /\ renewable = FALSE /\ since = {}
    /\ proxy = "down"
    /\ conn = None /\ open = {} /\ registered = None
    /\ handler = [c \in Conns |-> "none"]
    /\ faults = 0

---------------------------------------------------------------------------
\* The server's tokens.  A pair that nobody holds can no longer be presented
\* and is left out.

Used == {env, file, data, token, reply, browser}
NewPair == CHOOSE p \in Pairs : p \notin Used

\* Seeded bug: a refreshed access token leaves its entry behind.
MutIssue(spent) ==
    /\ pairs' = ((pairs \cap Used) \ spent) \cup {NewPair}
    /\ old' = (old \cap Used) \ {NewPair}

\* A login, or a refresh that takes the pair "spent" away.
Issue(spent) ==
    /\ pairs' = ((pairs \cap Used) \ spent) \cup {NewPair}
    /\ old' = (old \cap Used) \ (spent \cup {NewPair})

\* Does the server take the access token?
Authorised(p) == p \in pairs \ old

\* An answer does not take the eight hours that an access token lasts.
Expire ==
    /\ \E p \in (pairs \cap (Used \ {reply})) \ old : old' = old \cup {p}
    /\ Calm
    /\ UNCHANGED <<pairs, env, envRefresh, file, data, renewable, token, reply, since,
                   browser, linkVars, proxy>>

\* The access tokens are kept in memory.  All connections end.
ServerRestarts ==
    /\ Fault("restart")
    /\ pairs' = {} /\ old' = {}
    /\ since' = IF proxy \in {"refreshing", "up"} THEN since \cup {"restart"} ELSE since
    /\ open' = {} /\ registered' = None
    /\ handler' = [c \in Conns |-> "none"]
    /\ UNCHANGED <<env, envRefresh, file, data, renewable, token, reply, browser, conn, proxy>>

---------------------------------------------------------------------------
\* main: token acquisition.

\* LoadTokenData takes the environment before the file.
Loaded == IF env # None THEN env ELSE file

\* A token the server takes is used as it is.  Another one is to be
\* refreshed; without any the browser is opened.
Start ==
    /\ proxy = "down"
    /\ proxy' = IF Loaded = None THEN "login"
                ELSE IF Authorised(Loaded) THEN "up" ELSE "refreshing"
    /\ data' = Loaded /\ token' = Loaded
    /\ renewable' = IF env # None THEN envRefresh ELSE file # None
    /\ since' = {}
    /\ Calm
    /\ UNCHANGED <<pairs, old, env, envRefresh, file, reply, browser, linkVars>>

\* The validation gets no answer in time, and the refresh does.
StartDoubts ==
    /\ Fault("lost")
    /\ proxy = "down" /\ Authorised(Loaded)
    /\ proxy' = "refreshing"
    /\ data' = Loaded /\ token' = Loaded
    /\ renewable' = IF env # None THEN envRefresh ELSE TRUE
    /\ since' = {}
    /\ UNCHANGED <<pairs, old, env, envRefresh, file, reply, browser, linkVars>>

\* No refresh token, or one the server does not know.
StartRefused ==
    /\ proxy = "refreshing" /\ reply = None
    /\ data \notin pairs \/ ~renewable
    /\ proxy' = "login"
    /\ Calm
    /\ UNCHANGED <<tokenVars, linkVars>>

\* SaveTokenData; a failure is logged only.
Save(p) ==
    \/ /\ file' = p /\ since' = since \ {"save"} /\ Calm
    \/ /\ Fault("save") /\ file' = file /\ since' = since \cup {"save"}

\* The page that BrowserLogin opens logs in, keeps the pair and posts it to
\* the proxy's callback.
Login ==
    /\ proxy = "login"
    /\ Issue({})
    /\ browser' = NewPair /\ data' = NewPair /\ token' = NewPair
    /\ renewable' = TRUE
    /\ Save(NewPair)
    /\ proxy' = "up"
    /\ UNCHANGED <<env, envRefresh, reply, linkVars>>

\* Five minutes without a login: log.Fatalf.
LoginFails ==
    /\ proxy = "login"
    /\ proxy' = "down" /\ data' = None /\ token' = None /\ renewable' = FALSE
    /\ Calm
    /\ UNCHANGED <<pairs, old, env, envRefresh, file, reply, since, browser, linkVars>>

\* The proxy's process ends, with what is only in its memory.
ProxyStops ==
    /\ Fault("stop")
    /\ proxy # "down"
    /\ proxy' = "down" /\ data' = None /\ token' = None /\ reply' = None
    /\ renewable' = FALSE /\ since' = {}
    /\ open' = open \ {conn} /\ conn' = None
    /\ UNCHANGED <<pairs, old, env, envRefresh, file, browser, handler, registered>>

---------------------------------------------------------------------------
\* StartAutoRefresh, and the refresh of main.

\* The server deletes the pair and answers with another one.  A refresh that
\* it refuses, or that does not reach it, changes nothing and is repeated a
\* minute later.
Refresh ==
    /\ proxy \in {"up", "refreshing"} /\ reply = None
    /\ renewable /\ data \in pairs
    /\ Issue({data})
    /\ reply' = NewPair
    /\ Calm
    /\ UNCHANGED <<env, envRefresh, file, data, renewable, token, since, browser, linkVars, proxy>>

\* Seeded bugs: the loop goes on with the pair it has spent; the client keeps
\* its token.
MutRefreshed ==
    /\ reply # None
    /\ data' = data /\ token' = reply /\ reply' = None
    /\ Save(reply)
    /\ proxy' = "up"
    /\ UNCHANGED <<pairs, old, env, envRefresh, renewable, browser, linkVars>>
MutUpdateToken ==
    /\ reply # None
    /\ data' = reply /\ token' = token /\ reply' = None
    /\ Save(reply)
    /\ proxy' = "up"
    /\ UNCHANGED <<pairs, old, env, envRefresh, renewable, browser, linkVars>>

\* The new pair replaces the old one, is saved, and becomes the token of the
\* next connection.
Refreshed ==
    /\ reply # None
    /\ data' = reply /\ token' = reply /\ reply' = None
    /\ Save(reply)
    /\ proxy' = "up"
    /\ UNCHANGED <<pairs, old, env, envRefresh, renewable, browser, linkVars>>

LoseReply ==
    /\ Fault("lost")
    /\ reply # None /\ reply' = None
    /\ since' = since \cup {"lost"}
    /\ proxy' = IF proxy = "up" THEN "up" ELSE "login"
    /\ UNCHANGED <<pairs, old, env, envRefresh, file, data, renewable, token, browser, linkVars>>

---------------------------------------------------------------------------
\* The browser.

\* A request answered 401 refreshes the pair that the browser holds.
BrowserRefreshes ==
    /\ browser \in pairs \cap old
    /\ Issue({browser})
    /\ browser' = NewPair
    /\ since' = IF browser = data THEN since \cup {"shared"} ELSE since
    /\ Calm
    /\ UNCHANGED <<env, envRefresh, file, data, renewable, token, reply, linkVars, proxy>>

\* If that is refused too, or there is none, the user is logged in again.
BrowserLogsIn ==
    /\ browser \notin pairs
    /\ Issue({})
    /\ browser' = NewPair
    /\ Calm
    /\ UNCHANGED <<env, envRefresh, file, data, renewable, token, reply, since, linkVars, proxy>>

---------------------------------------------------------------------------
\* Client.Run and ProxyHub.HandleWebSocket.

\* connect, and the server's upgrade.  A dial that fails changes nothing and
\* is repeated.
Connect ==
    /\ proxy = "up" /\ conn = None
    /\ Authorised(token)
    /\ \E c \in {d \in Conns : handler[d] = "none"} :
          /\ conn' = c /\ open' = open \cup {c}
          /\ handler' = [handler EXCEPT ![c] = "accepted"]
    /\ Calm
    /\ UNCHANGED <<tokenVars, registered, proxy>>

\* The new connection replaces the registered one, which is closed.
Register(c) ==
    /\ handler[c] = "accepted"
    /\ open' = open \ {registered}
    /\ registered' = c
    /\ handler' = [handler EXCEPT ![c] = "reading"]
    /\ Calm
    /\ UNCHANGED <<tokenVars, conn, proxy>>

\* The server's readPump returns.
ReadFails(c) ==
    /\ handler[c] = "reading" /\ c \notin open
    /\ handler' = [handler EXCEPT ![c] = "left"]
    /\ Calm
    /\ UNCHANGED <<tokenVars, conn, open, registered, proxy>>

\* Seeded bug: the handler removes whichever connection is registered.
MutUnregister(c) ==
    /\ handler[c] = "left"
    /\ registered' = None
    /\ handler' = [handler EXCEPT ![c] = "none"]
    /\ Calm
    /\ UNCHANGED <<tokenVars, conn, open, proxy>>

\* A handler removes its own connection only.
Unregister(c) ==
    /\ handler[c] = "left"
    /\ registered' = IF registered = c THEN None ELSE registered
    /\ handler' = [handler EXCEPT ![c] = "none"]
    /\ Calm
    /\ UNCHANGED <<tokenVars, conn, open, proxy>>

\* The client's readPump returns, and Run connects again.
Disconnected ==
    /\ conn # None /\ conn \notin open
    /\ conn' = None
    /\ Calm
    /\ UNCHANGED <<tokenVars, open, handler, registered, proxy>>

Cut ==
    /\ Fault("cut")
    /\ \E c \in open : open' = open \ {c}
    /\ UNCHANGED <<tokenVars, conn, handler, registered, proxy>>

---------------------------------------------------------------------------
Next ==
    \/ Expire \/ ServerRestarts
    \/ Start \/ StartDoubts \/ StartRefused \/ Login \/ LoginFails \/ ProxyStops
    \/ Refresh \/ Refreshed \/ LoseReply
    \/ BrowserRefreshes \/ BrowserLogsIn
    \/ Connect \/ Disconnected \/ Cut
    \/ \E c \in Conns : Register(c) \/ ReadFails(c) \/ Unregister(c)

Spec == Init /\ [][Next]_vars

\* Goroutines run on, and requests of the proxy are answered or fail.  A
\* dial is repeated at least every 40 seconds (30 s pause, 10 s timeout) and
\* a refresh at most once a minute, so that renewals cannot keep a dial from
\* meeting a valid token for ever: strong fairness.
Fairness ==
    /\ WF_vars(StartRefused) /\ WF_vars(Refresh) /\ WF_vars(Refreshed)
    /\ SF_vars(Connect) /\ WF_vars(Disconnected)
    /\ \A c \in Conns : WF_vars(Register(c)) /\ WF_vars(ReadFails(c)) /\ WF_vars(Unregister(c))

FairSpec == Spec /\ Fairness

---------------------------------------------------------------------------
\* The types of the variables.
TypeOK ==
    /\ pairs \subseteq Pairs /\ old \subseteq pairs
    /\ {env, file, data, token, reply, browser} \subseteq Pairs \cup {None}
    /\ envRefresh \in BOOLEAN /\ renewable \in BOOLEAN
    /\ proxy \in {"down", "refreshing", "login", "up"}
    /\ proxy = "up" => data # None
    /\ since \subseteq {"restart", "lost", "shared", "save"}
    /\ conn \in Conns \cup {None} /\ open \subseteq Conns
    /\ handler \in [Conns -> {"none", "accepted", "reading", "left"}]
    /\ registered \in Conns \cup {None}
    /\ faults \in 0..FaultBound

\* A connection that is open and read from is the one commands are sent to,
\* and a registered one always has a handler that will remove it: a late end
\* or a late start of an old connection never leaves a live one unreachable
\* (HandleWebSocket).
OneReader ==
    /\ \A c \in open : handler[c] = "reading" => registered = c
    /\ registered # None => handler[registered] \in {"reading", "left"}

\* A renewal loses no token: the proxy holds a refresh token that the server
\* will take, or one is on its way, unless a reply got lost, the server
\* forgot its tokens or the browser spent the pair they share; and what is in
\* memory is in the file for the next start (StartAutoRefresh, main).
TokensKept ==
    proxy = "up" =>
        /\ renewable /\ since \cap {"restart", "lost", "shared"} = {} =>
              {data, reply} \cap pairs # {}
        /\ env = None /\ "save" \notin since => file = data

\* The proxy has no way back to the server until it is started again.
Stranded ==
    /\ reply = None
    /\ data \notin pairs \/ (~renewable /\ data \in old)

Connected == conn \in open /\ registered = conn

\* A proxy that is running is connected again after each cut, expiry or
\* replacement, or it is stranded (Run, StartAutoRefresh).
Reconnects == proxy = "up" ~> Connected \/ Stranded \/ proxy # "up"
=============================================================================
