------------------------ MODULE ProxySession_proofs ------------------------
(***************************************************************************)
(* Theorems about ProxySession, for any connections, any number of faults  *)
(* and any names of token pairs, as long as one is left for the next pair. *)
(***************************************************************************)
EXTENDS ProxySession, FiniteSetTheorems, TLAPS

---------------------------------------------------------------------------
\* Token pairs

\* Six places cannot hold all names.
LEMMA FreshPair == NewPair \in Pairs /\ NewPair \notin Used
  <1> DEFINE A == {env}
             B == A \cup {file}
             C == B \cup {data}
             D == C \cup {token}
             E == D \cup {reply}
             F == E \cup {browser}
  <1>1. IsFiniteSet(A) /\ Cardinality(A) = 1
    BY FS_Singleton
  <1>2. IsFiniteSet(B) /\ Cardinality(B) \in 1..2
    BY <1>1, FS_AddElement
  <1>3. IsFiniteSet(C) /\ Cardinality(C) \in 1..3
    <2> HIDE DEF B
    <2> QED BY <1>2, FS_AddElement
  <1>4. IsFiniteSet(D) /\ Cardinality(D) \in 1..4
    <2> HIDE DEF C
    <2> QED BY <1>3, FS_AddElement
  <1>5. IsFiniteSet(E) /\ Cardinality(E) \in 1..5
    <2> HIDE DEF D
    <2> QED BY <1>4, FS_AddElement
  <1>6. IsFiniteSet(F) /\ Cardinality(F) \in 1..6
    <2> HIDE DEF E
    <2> QED BY <1>5, FS_AddElement
  <1>7. F = Used
    BY DEF Used
  <1>8. ~(Pairs \subseteq Used)
    <2>1. SUFFICES ASSUME Pairs \subseteq F PROVE FALSE
      BY <1>7
    <2> HIDE DEF F
    <2>2. IsFiniteSet(Pairs) /\ Cardinality(Pairs) <= Cardinality(F)
      BY <1>6, <2>1, FS_Subset
    <2>3. Cardinality(Pairs) \in Nat
      BY <2>2, FS_CardinalityType
    <2>4. QED
      BY <1>6, <2>2, <2>3, SizeAssumption
  <1>9. \E p \in Pairs : p \notin Used
    BY <1>8
  <1>10. QED
    BY <1>9 DEF NewPair

---------------------------------------------------------------------------
\* Types

\* Every variable keeps its type, and a proxy that is up has a token (TypeOK).
THEOREM TypeCorrect == Spec => []TypeOK
  <1>1. Init => TypeOK
    <2> SUFFICES ASSUME Init PROVE TypeOK
      OBVIOUS
    <2>1. Pairs # {} /\ (CHOOSE p \in Pairs : TRUE) \in Pairs
      BY FreshPair
    <2>2. envRefresh \in BOOLEAN
      BY DEF Init
    <2>3. pairs \subseteq Pairs /\ old \subseteq pairs /\ env \in Pairs \cup {None}
      BY <2>1 DEF Init
    <2>4. {env, file, data, token, reply, browser} \subseteq Pairs \cup {None}
      BY <2>3 DEF Init
    <2>5. /\ proxy = "down" /\ since = {} /\ open = {}
          /\ conn \in Conns \cup {None} /\ registered \in Conns \cup {None}
          /\ handler \in [Conns -> {"none", "accepted", "reading", "left"}]
      BY DEF Init
    <2>6. faults \in 0..FaultBound
      BY SizeAssumption DEF Init
    <2>7. renewable \in BOOLEAN
      BY DEF Init
    <2>8. QED
      BY <2>2, <2>3, <2>4, <2>5, <2>6, <2>7 DEF TypeOK
  <1>2. TypeOK /\ [Next]_vars => TypeOK'
    <2> SUFFICES ASSUME TypeOK, [Next]_vars PROVE TypeOK'
      OBVIOUS
    <2> USE SizeAssumption, FreshPair DEF TypeOK, tokenVars, linkVars, Calm
    <2>0. ASSUME NEW spent, Issue(spent)
          PROVE  pairs' \subseteq Pairs /\ old' \subseteq pairs'
      BY <2>0 DEF Issue
    <2>1. ASSUME NEW kind, Fault(kind) PROVE faults' \in 0..FaultBound
      BY <2>1 DEF Fault
    <2>2. CASE Expire
      BY <2>2 DEF Expire
    <2>3. CASE ServerRestarts
      BY <2>3, <2>1 DEF ServerRestarts
    <2>4. CASE Start
      BY <2>4 DEF Start, Loaded, Authorised
    <2>5. CASE StartDoubts
      BY <2>5, <2>1 DEF StartDoubts, Loaded, Authorised
    <2>6. CASE StartRefused
      BY <2>6 DEF StartRefused
    <2>7. ASSUME NEW p \in Pairs, Save(p)
          PROVE  /\ file' \in Pairs \cup {None} /\ since' \subseteq {"restart", "lost", "shared", "save"}
                 /\ faults' \in 0..FaultBound
      BY <2>7, <2>1 DEF Save
    <2>8. CASE Login
      BY <2>8, <2>0, <2>7 DEF Login
    <2>9. CASE LoginFails
      BY <2>9 DEF LoginFails
    <2>10. CASE ProxyStops
      BY <2>10, <2>1 DEF ProxyStops
    <2>11. CASE Refresh
      BY <2>11, <2>0 DEF Refresh
    <2>12. CASE Refreshed
      BY <2>12, <2>7 DEF Refreshed
    <2>13. CASE LoseReply
      BY <2>13, <2>1 DEF LoseReply
    <2>14. CASE BrowserRefreshes
      BY <2>14, <2>0 DEF BrowserRefreshes
    <2>15. CASE BrowserLogsIn
      BY <2>15, <2>0 DEF BrowserLogsIn
    <2>16. CASE Connect
      BY <2>16 DEF Connect
    <2>17. CASE Disconnected
      BY <2>17 DEF Disconnected
    <2>18. CASE Cut
      BY <2>18, <2>1 DEF Cut
    <2>19. ASSUME NEW c \in Conns, Register(c) \/ ReadFails(c) \/ Unregister(c)
           PROVE  TypeOK'
      <3>1. CASE Register(c)
        BY <3>1 DEF Register
      <3>2. CASE ReadFails(c)
        BY <3>2 DEF ReadFails
      <3>3. CASE Unregister(c)
        BY <3>3 DEF Unregister
      <3>4. QED
        BY <2>19, <3>1, <3>2, <3>3
    <2>20. CASE UNCHANGED vars
      BY <2>20 DEF vars
    <2>21. QED
      BY <2>2, <2>3, <2>4, <2>5, <2>6, <2>8, <2>9, <2>10, <2>11, <2>12, <2>13, <2>14, <2>15,
         <2>16, <2>17, <2>18, <2>19, <2>20 DEF Next
  <1>3. QED
    BY <1>1, <1>2, PTL DEF Spec

---------------------------------------------------------------------------
\* Connections

\* An open connection has a handler that has not left it.
HandlerInv ==
    /\ OneReader
    /\ \A c \in open : handler[c] \in {"accepted", "reading"}

\* A connection that is open and read from is the registered one, and a
\* registered one has a handler that will remove it (HandleWebSocket).
THEOREM OneReaderHolds == Spec => []OneReader
  <1>1. Init => HandlerInv
    BY DEF Init, HandlerInv, OneReader
  <1>2. TypeOK /\ HandlerInv /\ [Next]_vars => HandlerInv'
    <2> SUFFICES ASSUME TypeOK, HandlerInv, [Next]_vars PROVE HandlerInv'
      OBVIOUS
    <2> USE SizeAssumption DEF HandlerInv, OneReader
    <2>1. CASE UNCHANGED linkVars
      BY <2>1 DEF linkVars
    <2>2. CASE ServerRestarts
      BY <2>2 DEF ServerRestarts
    <2>3. CASE ProxyStops \/ Disconnected \/ Cut
      BY <2>3 DEF ProxyStops, Disconnected, Cut
    <2>4. CASE Connect
      BY <2>4 DEF Connect, TypeOK
    <2>5. ASSUME NEW c \in Conns, Register(c) PROVE HandlerInv'
      BY <2>5 DEF Register, TypeOK
    <2>6. ASSUME NEW c \in Conns, ReadFails(c) PROVE HandlerInv'
      BY <2>6 DEF ReadFails, TypeOK
    <2>7. ASSUME NEW c \in Conns, Unregister(c) PROVE HandlerInv'
      BY <2>7 DEF Unregister, TypeOK
    <2>8. QED
      BY <2>1, <2>2, <2>3, <2>4, <2>5, <2>6, <2>7
         DEF Next, vars, linkVars, Expire, Start, StartDoubts, StartRefused, Login, LoginFails,
             Refresh, Refreshed, LoseReply, BrowserRefreshes, BrowserLogsIn
  <1>3. HandlerInv => OneReader
    BY DEF HandlerInv
  <1>4. QED
    BY <1>1, <1>2, <1>3, TypeCorrect, PTL DEF Spec

---------------------------------------------------------------------------
\* Renewals

\* A pair that is on its way to the proxy is one that the server has and the
\* browser does not, unless the server was restarted.
RenewalInv ==
    /\ TokensKept
    /\ proxy \in {"down", "login"} => reply = None
    /\ reply # None => reply # browser /\ ("restart" \in since \/ reply \in pairs)

\* A renewal loses no token (StartAutoRefresh, main): see TokensKept.
THEOREM TokensKeptHolds == Spec => []TokensKept
  <1>1. Init => RenewalInv
    BY DEF Init, RenewalInv, TokensKept
  <1>2. TypeOK /\ RenewalInv /\ [Next]_vars => RenewalInv'
    <2> SUFFICES ASSUME TypeOK, RenewalInv, [Next]_vars PROVE RenewalInv'
      OBVIOUS
    <2> USE FreshPair DEF RenewalInv, TokensKept, tokenVars
    <2>1. CASE Expire
      BY <2>1 DEF Expire
    <2>2. CASE ServerRestarts
      BY <2>2 DEF ServerRestarts, TypeOK
    <2>3. CASE Start
      BY <2>3 DEF Start, Loaded, Authorised
    <2>4. CASE StartDoubts
      BY <2>4 DEF StartDoubts
    <2>5. CASE StartRefused
      BY <2>5 DEF StartRefused
    <2>6. CASE Login
      BY <2>6 DEF Login, Issue, Save
    <2>7. CASE LoginFails
      BY <2>7 DEF LoginFails
    <2>8. CASE ProxyStops
      BY <2>8 DEF ProxyStops
    <2>9. CASE Refresh
      BY <2>9 DEF Refresh, Issue, Used
    <2>10. CASE Refreshed
      BY <2>10 DEF Refreshed, Save
    <2>11. CASE LoseReply
      BY <2>11 DEF LoseReply
    <2>12. CASE BrowserRefreshes
      <3>1. /\ pairs' = ((pairs \cap Used) \ {browser}) \cup {NewPair} /\ browser' = NewPair
            /\ UNCHANGED <<env, file, data, renewable, reply, proxy>>
        BY <2>12 DEF BrowserRefreshes, Issue
      <3>2. {data, reply} \subseteq Used
        BY DEF Used
      <3>3. reply' # None => reply' # browser' /\ ("restart" \in since' \/ reply' \in pairs')
        BY <2>12, <3>1, <3>2 DEF BrowserRefreshes
      <3>4. CASE browser = data
        BY <2>12, <3>1, <3>3, <3>4 DEF BrowserRefreshes
      <3>5. CASE browser # data
        <4>1. since' = since
          BY <2>12, <3>5 DEF BrowserRefreshes
        <4>2. data \in pairs => data \in pairs'
          BY <3>1, <3>2, <3>5
        <4>3. reply \in pairs => reply \in pairs' \/ reply = None \/ reply = browser
          BY <3>1, <3>2
        <4>4. {data, reply} \cap pairs # {} => {data', reply'} \cap pairs' # {}
          BY <3>1, <4>2, <4>3, SizeAssumption DEF TypeOK
        <4>5. QED
          BY <3>1, <3>3, <4>1, <4>4
      <3>6. QED
        BY <3>4, <3>5
    <2>13. CASE BrowserLogsIn
      BY <2>13 DEF BrowserLogsIn, Issue, Used
    <2>14. CASE UNCHANGED <<tokenVars, proxy>>
      BY <2>14
    <2>15. QED
      BY <2>1, <2>2, <2>3, <2>4, <2>5, <2>6, <2>7, <2>8, <2>9, <2>10, <2>11, <2>12, <2>13, <2>14
         DEF Next, vars, Connect, Disconnected, Cut, Register, ReadFails, Unregister
  <1>3. RenewalInv => TokensKept
    BY DEF RenewalInv
  <1>4. QED
    BY <1>1, <1>2, <1>3, TypeCorrect, PTL DEF Spec
=============================================================================
