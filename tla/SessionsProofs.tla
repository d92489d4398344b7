--------------------------- MODULE SessionsProofs ---------------------------
(* That an ended session stays ended, for any number of tokens and of requests *)
(* at work on one session, but where a rotation escaped.  What makes the walk  *)
(* down a chain enough is that a chain from which none escaped has one tip:    *)
(* rotated tokens are dead already, and the walk stops at the one token that   *)
(* nothing has replaced, however far the chain has grown ahead of it.          *)
EXTENDS Sessions, TLAPS

\* What the theorems ask of the constants.
NoneIsNoToken == None \notin Tokens

TokenRow == [kind : {"none", "identity", "pair"}, live : BOOLEAN, sso : BOOLEAN,
             next : Tokens \cup {None}, session : Tokens \cup {None}]
Step == [pc : {"idle", "read", "mint", "refuse", "reads", "revokes"},
         at : Tokens \cup {None}, then : Tokens \cup {None}]

\* A pair belongs to a session, which is named for a pair of the same scope; a
\* token that was replaced is dead, and its successor of the same session.
ChainsInOrder ==
    \A t \in Tokens :
        /\ token[t].kind = "pair" <=> token[t].session # None
        /\ token[t].session # None =>
            /\ token[token[t].session].kind = "pair"
            /\ token[token[t].session].sso = token[t].sso
        /\ token[t].next # None =>
            /\ token[t].kind = "pair" /\ ~token[t].live
            /\ token[token[t].next].session = token[t].session

\* A chain from which none escaped has one token that nothing has replaced.
OneTip ==
    \A t, u \in Tokens :
        /\ token[t].session # None /\ token[t].session \notin escaped
        /\ token[t].session = token[u].session
        /\ token[t].next = None /\ token[u].next = None
        => t = u

\* A request at work has a pair, and a walk that is about to revoke a token knows
\* a token of the same session to go on to: the successor, if none escaped.
RequestsInOrder ==
    \A r \in Refreshes : refresh[r] # AtRest =>
        /\ refresh[r].pc # "idle" /\ refresh[r].at \in Tokens
        /\ token[refresh[r].at].kind = "pair"
        /\ refresh[r].pc = "revokes" =>
            /\ refresh[r].then # None => token[refresh[r].then].session = token[refresh[r].at].session
            /\ token[refresh[r].at].session \notin escaped => refresh[r].then = token[refresh[r].at].next

\* Only what was opened has ended.
EndedWereOpen == \A s \in ended : token[s].kind = "pair"

IndInv ==
    /\ TypeOK /\ ChainsInOrder /\ OneTip /\ RequestsInOrder
    /\ EndedWereOpen /\ EndedForGood

\* A request walks down this session.
Walks(q, s) == refresh[q].pc \in {"reads", "revokes"} /\ token[refresh[q].at].session = s

---------------------------------------------------------------------------
\* The sessions walked are those that some request walks down.
LEMMA WalkedMeans ==
    \A s : /\ s \in Walked <=> \E q \in Refreshes : Walks(q, s)
           /\ s \in Walked' <=> \E q \in Refreshes : Walks(q, s)'
  BY DEF Walked, Walks

\* Nothing has been issued: the invariant holds at the start.
LEMMA InitInvariant == NoneIsNoToken /\ Init => IndInv
<1> SUFFICES ASSUME NoneIsNoToken, Init PROVE IndInv  OBVIOUS
<1>1. NoToken \in TokenRow /\ AtRest \in Step
  BY DEF NoToken, TokenRow, AtRest, Step
<1>2. TypeOK
  BY <1>1 DEF Init, TypeOK, TokenRow, Step
<1>3. \A t \in Tokens : token[t].kind = "none" /\ token[t].session = None /\ token[t].next = None
  BY DEF Init, NoToken
<1>4. (\A r \in Refreshes : refresh[r] = AtRest) /\ ended = {}
  BY DEF Init
<1>5. ChainsInOrder /\ OneTip
  BY <1>3 DEF ChainsInOrder, OneTip
<1>6. RequestsInOrder /\ EndedWereOpen /\ EndedForGood
  BY <1>4 DEF RequestsInOrder, EndedWereOpen, EndedForGood
<1> QED  BY <1>2, <1>5, <1>6 DEF IndInv

\* A step that only takes life from tokens leaves the chains as they are.
LEMMA RevokeKeeps ==
    ASSUME IndInv, NEW gone \in SUBSET Tokens, Revoke(gone), UNCHANGED escaped
    PROVE  /\ \A t \in Tokens :
                /\ token'[t].kind = token[t].kind /\ token'[t].sso = token[t].sso
                /\ token'[t].next = token[t].next /\ token'[t].session = token[t].session
                /\ token'[t].live = (token[t].live /\ t \notin gone)
           /\ token' \in [Tokens -> TokenRow]
           /\ ChainsInOrder' /\ OneTip'
<1> USE DEF IndInv, TypeOK
<1>1. \A t \in Tokens :
        token'[t] = IF t \in gone THEN [token[t] EXCEPT !.live = FALSE] ELSE token[t]
  BY DEF Revoke
<1>2. \A t \in Tokens :
        /\ token'[t].kind = token[t].kind /\ token'[t].sso = token[t].sso
        /\ token'[t].next = token[t].next /\ token'[t].session = token[t].session
        /\ token'[t].live = (token[t].live /\ t \notin gone)
  BY <1>1
<1>3. token' \in [Tokens -> TokenRow]
  BY DEF Revoke, TokenRow
<1>4. ASSUME NEW t \in Tokens, token[t].session # None PROVE token[t].session \in Tokens
  BY <1>4
<1>5. ASSUME NEW t \in Tokens, token[t].next # None PROVE token[t].next \in Tokens
  BY <1>5
<1>6. ChainsInOrder'
  BY <1>2, <1>4, <1>5 DEF ChainsInOrder
<1>7. OneTip'
  BY <1>2 DEF OneTip
<1> QED  BY <1>2, <1>3, <1>6, <1>7

\* A step that leaves every token's kind, session and successor, and the requests,
\* leaves the requests in order and the walks where they were.
LEMMA WalksStay ==
    ASSUME IndInv, UNCHANGED <<refresh, escaped>>,
           \A t \in Tokens :
              /\ token'[t].kind = token[t].kind /\ token'[t].next = token[t].next
              /\ token'[t].session = token[t].session
    PROVE  RequestsInOrder' /\ \A q \in Refreshes : \A s : Walks(q, s)' <=> Walks(q, s)
<1>1. ASSUME NEW q \in Refreshes, refresh[q] # AtRest
      PROVE  refresh[q].at \in Tokens /\ refresh[q].then \in Tokens \cup {None}
  BY <1>1 DEF IndInv, TypeOK, RequestsInOrder
<1>2. RequestsInOrder'
  BY <1>1 DEF IndInv, RequestsInOrder, AtRest
<1>3. ASSUME NEW q \in Refreshes, NEW s PROVE Walks(q, s)' <=> Walks(q, s)
  <2>1. CASE refresh[q] = AtRest
    BY <2>1 DEF Walks, AtRest
  <2>2. CASE refresh[q] # AtRest
    BY <1>1, <2>2 DEF Walks
  <2> QED  BY <2>1, <2>2
<1> QED  BY <1>2, <1>3

\* Life is taken from tokens, and sessions end that have none left: a logout, an
\* expiry, "everywhere", and the provider turned off.
LEMMA EndingKeeps ==
    ASSUME IndInv, NEW gone \in SUBSET Tokens, NEW over \in SUBSET Tokens,
           Revoke(gone), ended' = ended \cup over, UNCHANGED <<active, barred, refresh, escaped>>,
           \A s \in over : token[s].kind = "pair",
           \A t \in Tokens : token[t].session \in over => t \in gone
    PROVE  IndInv'
<1>1. /\ \A t \in Tokens :
           /\ token'[t].kind = token[t].kind /\ token'[t].sso = token[t].sso
           /\ token'[t].next = token[t].next /\ token'[t].session = token[t].session
           /\ token'[t].live = (token[t].live /\ t \notin gone)
      /\ token' \in [Tokens -> TokenRow]
      /\ ChainsInOrder' /\ OneTip'
  BY RevokeKeeps
<1>2. TypeOK'
  BY <1>1 DEF IndInv, TypeOK, TokenRow
<1>3. RequestsInOrder' /\ \A q \in Refreshes : \A s : Walks(q, s)' <=> Walks(q, s)
  BY <1>1, WalksStay
<1>4. EndedWereOpen'
  BY <1>1 DEF IndInv, TypeOK, EndedWereOpen
<1>5. EndedForGood'
  <2>1. \A s : s \in Walked' <=> s \in Walked
    BY <1>3, WalkedMeans
  <2> QED  BY <1>1, <2>1 DEF IndInv, EndedForGood
<1> QED  BY <1>1, <1>2, <1>3, <1>4, <1>5 DEF IndInv

\* Logging out, and expiry.
LEMMA OneGoes ==
    ASSUME IndInv, NEW t \in Tokens, Logout(t) \/ Expires(t)
    PROVE  IndInv'
<1>1. Revoke({t}) /\ ended' = ended \cup {} /\ UNCHANGED <<active, barred, refresh, escaped>>
  BY DEF Logout, Expires
<1>2. {t} \in SUBSET Tokens /\ {} \in SUBSET Tokens
  OBVIOUS
<1> QED  BY <1>1, <1>2, EndingKeeps

\* Ending takes whole sessions.
LEMMA EndsKeeps ==
    ASSUME IndInv, NEW gone \in SUBSET Tokens, Ends(gone),
           UNCHANGED <<active, barred, refresh, escaped>>,
           \A t \in Tokens, u \in gone :
              token[t].session # None /\ token[t].session = token[u].session => t \in gone
    PROVE  IndInv'
<1>1. Revoke(gone) /\ ended' = ended \cup Sessions(gone)
  BY DEF Ends
<1>2. Sessions(gone) \in SUBSET Tokens
  BY DEF Sessions, IndInv, TypeOK
<1>3. ASSUME NEW s \in Sessions(gone) PROVE token[s].kind = "pair"
  <2>1. PICK u \in gone : s = token[u].session /\ s # None
    BY <1>3 DEF Sessions
  <2> QED  BY <2>1 DEF IndInv, ChainsInOrder
<1>4. ASSUME NEW t \in Tokens, token[t].session \in Sessions(gone) PROVE t \in gone
  <2>1. PICK u \in gone : token[t].session = token[u].session /\ token[u].session # None
    BY <1>4 DEF Sessions
  <2> QED  BY <2>1
<1> QED  BY <1>1, <1>2, <1>3, <1>4, EndingKeeps

\* "Everywhere" reaches every token of a session, whatever started it.
LEMMA EverywhereKeeps ==
    ASSUME IndInv, NEW i \in Tokens, Everywhere(i)
    PROVE  IndInv'
<1>1. Reach(i) \in SUBSET Tokens
  BY DEF Reach
<1>2. \A t \in Tokens : token[t].session # None => t \in Reach(i)
  BY DEF Reach, IndInv, ChainsInOrder
<1> QED  BY <1>1, <1>2, EndsKeeps DEF Everywhere

\* A session is of one scope, so the provider's going takes all of it or none.
LEMMA EndsSsoKeeps ==
    ASSUME IndInv, EndsSso
    PROVE  IndInv'
<1> DEFINE gone == {t \in Tokens : token[t].sso}
<1>1. \A t \in Tokens, u \in gone :
        token[t].session # None /\ token[t].session = token[u].session => t \in gone
  BY DEF IndInv, ChainsInOrder
<1>2. gone \in SUBSET Tokens /\ Ends(gone)
  BY DEF EndsSso
<1> HIDE DEF gone
<1> QED  BY <1>1, <1>2, EndsKeeps DEF EndsSso

---------------------------------------------------------------------------
\* A fresh row is of no chain: it names no session, and nothing names it.
LEMMA FreshIsApart ==
    ASSUME IndInv, NoneIsNoToken, NEW t \in Tokens, Fresh(t)
    PROVE  /\ token[t].session = None /\ token[t].next = None /\ t \notin ended
           /\ \A u \in Tokens : token[u].session # t /\ token[u].next # t
           /\ \A r \in Refreshes : refresh[r] # AtRest => refresh[r].at # t
<1>1. token[t].session = None /\ token[t].next = None
  BY DEF IndInv, ChainsInOrder, Fresh
<1>2. t \notin ended
  BY DEF IndInv, EndedWereOpen, Fresh
<1>3. ASSUME NEW u \in Tokens PROVE token[u].session # t
  BY <1>3 DEF IndInv, ChainsInOrder, Fresh, NoneIsNoToken
<1>4. ASSUME NEW u \in Tokens PROVE token[u].next # t
  BY <1>1, <1>4 DEF IndInv, ChainsInOrder, NoneIsNoToken
<1>5. \A r \in Refreshes : refresh[r] # AtRest => refresh[r].at # t
  BY DEF IndInv, RequestsInOrder, Fresh
<1> QED  BY <1>1, <1>2, <1>3, <1>4, <1>5

\* What a request at work is about to go on to is no fresh row either.
LEMMA ThenIsApart ==
    ASSUME IndInv, NoneIsNoToken, NEW t \in Tokens, Fresh(t),
           NEW r \in Refreshes, refresh[r].pc = "revokes"
    PROVE  refresh[r].then # t
<1>1. refresh[r] # AtRest
  BY DEF AtRest
<1>2. token[t].session = None /\ token[refresh[r].at].session # None
  BY <1>1, FreshIsApart DEF IndInv, RequestsInOrder, ChainsInOrder
<1> QED  BY <1>1, <1>2 DEF IndInv, RequestsInOrder, NoneIsNoToken

\* A login writes a row that no session has; a pair opens a session of its own.
LEMMA IssueKeeps ==
    ASSUME NoneIsNoToken, IndInv, NEW t \in Tokens, Fresh(t), NEW new \in TokenRow,
           new.next = None,
           \/ new.kind = "identity" /\ new.session = None
           \/ new.kind = "pair" /\ new.session = t,
           token' = [token EXCEPT ![t] = new],
           UNCHANGED <<active, barred, refresh, ended, escaped>>
    PROVE  IndInv'
<1>1. TypeOK'
  BY DEF IndInv, TypeOK, TokenRow
<1>2. token'[t] = new /\ \A u \in Tokens : u # t => token'[u] = token[u]
  BY DEF IndInv, TypeOK
<1>3. /\ token[t].session = None /\ token[t].next = None /\ t \notin ended
      /\ \A u \in Tokens : token[u].session # t /\ token[u].next # t
      /\ \A r \in Refreshes : refresh[r] # AtRest => refresh[r].at # t
  BY FreshIsApart
<1>4. /\ \A u \in Tokens : token[u].session \in Tokens \cup {None} /\ token[u].next \in Tokens \cup {None}
      /\ ended \subseteq Tokens /\ None \notin Tokens
  BY DEF IndInv, TypeOK, NoneIsNoToken
<1>5. ChainsInOrder'
  <2> SUFFICES ASSUME NEW u \in Tokens
               PROVE  /\ token'[u].kind = "pair" <=> token'[u].session # None
                      /\ token'[u].session # None =>
                          /\ token'[token'[u].session].kind = "pair"
                          /\ token'[token'[u].session].sso = token'[u].sso
                      /\ token'[u].next # None =>
                          /\ token'[u].kind = "pair" /\ ~token'[u].live
                          /\ token'[token'[u].next].session = token'[u].session
    BY DEF ChainsInOrder
  <2>1. CASE u = t
    BY <1>2, <1>4, <2>1
  <2>2. CASE u # t
    <3>1. token'[u] = token[u]
      BY <1>2, <2>2
    <3>2. token[u].session # None => token'[token[u].session] = token[token[u].session]
      BY <1>2, <1>3, <1>4
    <3>3. token[u].next # None => token'[token[u].next] = token[token[u].next]
      BY <1>2, <1>3, <1>4
    <3> QED  BY <3>1, <3>2, <3>3 DEF IndInv, ChainsInOrder
  <2> QED  BY <2>1, <2>2
<1>6. OneTip'
  BY <1>2, <1>3, <1>4 DEF IndInv, OneTip
<1>7. ASSUME NEW r \in Refreshes, refresh[r] # AtRest
      PROVE  /\ refresh[r].at \in Tokens /\ token'[refresh[r].at] = token[refresh[r].at]
             /\ refresh[r].pc = "revokes" /\ refresh[r].then # None =>
                  token'[refresh[r].then] = token[refresh[r].then]
  <2>1. refresh[r].at \in Tokens /\ refresh[r].then \in Tokens \cup {None}
    BY <1>7 DEF IndInv, TypeOK, RequestsInOrder
  <2>2. refresh[r].pc = "revokes" => refresh[r].then # t
    BY ThenIsApart
  <2> QED  BY <1>2, <1>3, <1>7, <2>1, <2>2
<1>8. RequestsInOrder'
  BY <1>7 DEF IndInv, RequestsInOrder, AtRest
<1>9. EndedWereOpen'
  BY <1>2, <1>3, <1>4 DEF IndInv, EndedWereOpen
<1>10. \A q \in Refreshes : \A s : Walks(q, s)' <=> Walks(q, s)
  BY <1>7 DEF Walks, AtRest
<1>11. EndedForGood'
  <2>1. \A s : s \in Walked' <=> s \in Walked
    BY <1>10, WalkedMeans
  <2> QED  BY <1>2, <1>3, <1>4, <2>1 DEF IndInv, EndedForGood
<1> QED  BY <1>1, <1>5, <1>6, <1>8, <1>9, <1>11 DEF IndInv

\* A login is of no session.
LEMMA LoginKeeps ==
    ASSUME NoneIsNoToken, IndInv, NEW t \in Tokens, NEW sso \in BOOLEAN, Login(t, sso)
    PROVE  IndInv'
<1> DEFINE new == [NoToken EXCEPT !.kind = "identity", !.live = TRUE, !.sso = sso]
<1>1. new \in TokenRow /\ new.next = None /\ new.kind = "identity" /\ new.session = None
  BY DEF NoToken, TokenRow
<1>2. token' = [token EXCEPT ![t] = new] /\ Fresh(t) /\ UNCHANGED <<active, barred, refresh, ended, escaped>>
  BY DEF Login
<1> HIDE DEF new
<1> QED  BY <1>1, <1>2, IssueKeeps

\* A pair is opened in a session of its own.
LEMMA OpenKeeps ==
    ASSUME NoneIsNoToken, IndInv, NEW i \in Tokens, NEW t \in Tokens, Open(i, t)
    PROVE  IndInv'
<1> DEFINE new == [kind |-> "pair", live |-> TRUE, sso |-> token[i].sso, next |-> None, session |-> t]
<1>1. new \in TokenRow /\ new.next = None /\ new.kind = "pair" /\ new.session = t
  BY DEF IndInv, TypeOK, TokenRow
<1>2. token' = [token EXCEPT ![t] = new] /\ Fresh(t) /\ UNCHANGED <<active, barred, refresh, ended, escaped>>
  BY DEF Open
<1> HIDE DEF new
<1> QED  BY <1>1, <1>2, IssueKeeps

---------------------------------------------------------------------------
\* A request at work, as one fact.
LEMMA AtWork ==
    ASSUME IndInv, NEW r \in Refreshes, refresh[r].pc # "idle"
    PROVE  /\ refresh[r] # AtRest /\ refresh[r].at \in Tokens /\ token[refresh[r].at].kind = "pair"
           /\ token[refresh[r].at].session # None
           /\ refresh[r] \in Step
<1>1. refresh[r] # AtRest
  BY DEF AtRest
<1> QED  BY <1>1 DEF IndInv, TypeOK, RequestsInOrder, ChainsInOrder, Step

\* Steps of a request that leave the tokens alone: it begins, goes on with the
\* token it has, or is done and was no walk.  A session it ends, it walks.
LEMMA RequestKeeps ==
    ASSUME IndInv, NEW r \in Refreshes, NEW to \in Step,
           refresh' = [refresh EXCEPT ![r] = to],
           UNCHANGED <<token, escaped>>, active' \in BOOLEAN, barred' \in BOOLEAN,
           ended \subseteq ended', ended' \subseteq Tokens,
           to # AtRest =>
              /\ to.pc # "idle" /\ to.at \in Tokens /\ token[to.at].kind = "pair"
              /\ to.pc = "revokes" => to.then = token[to.at].next,
           \A s : s \in ended' \ ended \/ Walks(r, s) =>
              to.pc \in {"reads", "revokes"} /\ token[to.at].session = s,
           \A s \in ended' \ ended : token[s].kind = "pair"
    PROVE  IndInv'
<1>1. refresh'[r] = to /\ \A q \in Refreshes : q # r => refresh'[q] = refresh[q]
  BY DEF IndInv, TypeOK
<1>2. TypeOK'
  BY DEF IndInv, TypeOK, Step
<1>3. ChainsInOrder' /\ OneTip'
  BY DEF IndInv, ChainsInOrder, OneTip
<1>4. RequestsInOrder'
  <2> SUFFICES ASSUME NEW q \in Refreshes, refresh'[q] # AtRest
               PROVE  /\ refresh'[q].pc # "idle" /\ refresh'[q].at \in Tokens
                      /\ token[refresh'[q].at].kind = "pair"
                      /\ refresh'[q].pc = "revokes" =>
                          /\ refresh'[q].then # None =>
                                token[refresh'[q].then].session = token[refresh'[q].at].session
                          /\ token[refresh'[q].at].session \notin escaped =>
                                refresh'[q].then = token[refresh'[q].at].next
    BY DEF RequestsInOrder, AtRest
  <2>1. CASE q = r
    BY <1>1, <2>1 DEF IndInv, ChainsInOrder
  <2>2. CASE q # r
    BY <1>1, <2>2 DEF IndInv, RequestsInOrder
  <2> QED  BY <2>1, <2>2
<1>5. EndedWereOpen'
  BY DEF IndInv, EndedWereOpen
<1>6. ASSUME NEW s, s \in ended' \ ended \/ s \in Walked PROVE s \in Walked'
  <2>1. CASE s \in ended' \ ended \/ Walks(r, s)
    BY <1>1, <2>1, WalkedMeans DEF Walks
  <2>2. ASSUME NEW q \in Refreshes, q # r, Walks(q, s) PROVE s \in Walked'
    BY <1>1, <2>2, WalkedMeans DEF Walks
  <2> QED  BY <1>6, <2>1, <2>2, WalkedMeans
<1>7. EndedForGood'
  BY <1>6 DEF IndInv, EndedForGood
<1> QED  BY <1>2, <1>3, <1>4, <1>5, <1>7 DEF IndInv

\* A request presents a token: one that was replaced ends the session, and the
\* walk begins.
LEMMA PresentsKeeps ==
    ASSUME IndInv, NEW r \in Refreshes, NEW t \in Tokens, Presents(r, t)
    PROVE  IndInv'
<1> DEFINE s == token[t].session
<1>1. refresh[r] = AtRest /\ token[t].kind = "pair" /\ UNCHANGED <<token, active, barred, escaped>>
  BY DEF Presents
<1>2. s \in Tokens /\ token[s].kind = "pair" /\ ended \subseteq Tokens /\ active \in BOOLEAN /\ barred \in BOOLEAN
  BY <1>1 DEF IndInv, TypeOK, ChainsInOrder
<1>3. \A x : ~Walks(r, x)
  BY <1>1 DEF Walks, AtRest
<1>4. CASE token[t].next # None /\ refresh' = [refresh EXCEPT ![r] = [pc |-> "reads", at |-> t, then |-> None]]
           /\ ended' = ended \cup {s}
  <2> DEFINE to == [pc |-> "reads", at |-> t, then |-> None]
  <2>1. to \in Step /\ to.pc = "reads" /\ to.at = t /\ token[to.at].session = s
    BY DEF Step
  <2>2. refresh' = [refresh EXCEPT ![r] = to] /\ ended' = ended \cup {s}
    BY <1>4
  <2> HIDE DEF to, s
  <2> QED  BY <1>1, <1>2, <1>3, <2>1, <2>2, RequestKeeps
<1>5. CASE refresh' = [refresh EXCEPT ![r] = [pc |-> "read", at |-> t, then |-> None]] /\ ended' = ended
  <2> DEFINE to == [pc |-> "read", at |-> t, then |-> None]
  <2>1. to \in Step /\ to.pc = "read" /\ to.at = t
    BY DEF Step
  <2>2. refresh' = [refresh EXCEPT ![r] = to] /\ ended' = ended
    BY <1>5
  <2> HIDE DEF to, s
  <2> QED  BY <1>1, <1>2, <1>3, <2>1, <2>2, RequestKeeps
<1> QED  BY <1>4, <1>5 DEF Presents

\* Being let through, refused, or sent away says nothing about any token yet.
LEMMA StandsKeeps ==
    ASSUME IndInv, NEW r \in Refreshes, Stands(r)
    PROVE  IndInv'
<1>1. refresh[r].pc = "read" /\ UNCHANGED <<token, active, barred, ended, escaped>>
  BY DEF Stands
<1>2. /\ refresh[r].at \in Tokens /\ token[refresh[r].at].kind = "pair" /\ refresh[r] \in Step
      /\ ended \subseteq Tokens /\ active \in BOOLEAN /\ barred \in BOOLEAN
  BY <1>1, AtWork DEF IndInv, TypeOK
<1> DEFINE refused == [refresh[r] EXCEPT !.pc = "refuse"]
           minted == [refresh[r] EXCEPT !.pc = "mint"]
<1>3. \E to \in {refused, minted, AtRest} : refresh' = [refresh EXCEPT ![r] = to]
  BY DEF Stands
<1>4. PICK to \in {refused, minted, AtRest} : refresh' = [refresh EXCEPT ![r] = to]
  BY <1>3
<1>5. to \in Step /\ (to # AtRest => to.pc \in {"refuse", "mint"} /\ to.at = refresh[r].at)
  BY <1>2 DEF AtRest, Step
<1>6. \A x : ~Walks(r, x)
  BY <1>1 DEF Walks
<1> HIDE DEF refused, minted
<1> QED  BY <1>1, <1>2, <1>4, <1>5, <1>6, RequestKeeps

\* Reading a successor moves nothing but what the walk knows.
LEMMA WalkReadsKeeps ==
    ASSUME IndInv, NEW r \in Refreshes, WalkReads(r)
    PROVE  IndInv'
<1>1. refresh[r].pc = "reads" /\ UNCHANGED <<token, active, barred, ended, escaped>>
  BY DEF WalkReads
<1>2. /\ refresh[r].at \in Tokens /\ token[refresh[r].at].kind = "pair" /\ refresh[r] \in Step
      /\ ended \subseteq Tokens /\ active \in BOOLEAN /\ barred \in BOOLEAN
      /\ token[refresh[r].at].next \in Tokens \cup {None}
  BY <1>1, AtWork DEF IndInv, TypeOK
<1> DEFINE to == [refresh[r] EXCEPT !.pc = "revokes", !.then = token[refresh[r].at].next]
<1>3. refresh' = [refresh EXCEPT ![r] = to]
  BY DEF WalkReads, IndInv, TypeOK
<1>4. to \in Step /\ to.pc = "revokes" /\ to.at = refresh[r].at /\ to.then = token[refresh[r].at].next
  BY <1>2 DEF Step
<1> HIDE DEF to
<1>5. \A s : s \in ended' \ ended \/ Walks(r, s) => token[to.at].session = s
  BY <1>1, <1>4 DEF Walks
<1> QED  BY <1>1, <1>2, <1>3, <1>4, <1>5, RequestKeeps

---------------------------------------------------------------------------
\* A request takes the life of the token it is at.  A walk goes on within its
\* session, or comes to its end at the tip, if none escaped: the session is dead.
LEMMA OneDies ==
    ASSUME IndInv, NEW r \in Refreshes, refresh[r].pc # "idle",
           Revoke({refresh[r].at}), UNCHANGED <<active, barred, ended, escaped>>,
           NEW to \in Step, refresh' = [refresh EXCEPT ![r] = to],
           to # AtRest => to.pc = "reads" /\ to.at \in Tokens
                          /\ token[to.at].session = token[refresh[r].at].session,
           refresh[r].pc = "revokes" /\ to = AtRest => refresh[r].then = None,
           refresh[r].pc \in {"refuse", "revokes"}
    PROVE  IndInv'
<1> DEFINE at == refresh[r].at
<1>1. refresh[r] # AtRest /\ at \in Tokens /\ token[at].kind = "pair" /\ token[at].session # None
  BY AtWork
<1>2. /\ \A t \in Tokens :
           /\ token'[t].kind = token[t].kind /\ token'[t].sso = token[t].sso
           /\ token'[t].next = token[t].next /\ token'[t].session = token[t].session
           /\ token'[t].live = (token[t].live /\ t \notin {at})
      /\ token' \in [Tokens -> TokenRow]
      /\ ChainsInOrder' /\ OneTip'
  <2>1. {at} \in SUBSET Tokens
    BY <1>1
  <2> QED  BY <2>1, RevokeKeeps
<1>3. TypeOK'
  BY <1>2 DEF IndInv, TypeOK, TokenRow, Step
<1>4. refresh'[r] = to /\ \A q \in Refreshes : q # r => refresh'[q] = refresh[q]
  BY DEF IndInv, TypeOK
<1>5. to # AtRest => token[to.at].kind = "pair"
  BY <1>1 DEF IndInv, ChainsInOrder
<1>6. ASSUME NEW q \in Refreshes, refresh[q] # AtRest
      PROVE  refresh[q].at \in Tokens /\ refresh[q].then \in Tokens \cup {None}
  BY <1>6 DEF IndInv, TypeOK, RequestsInOrder
<1>7. RequestsInOrder'
  <2> SUFFICES ASSUME NEW q \in Refreshes, refresh'[q] # AtRest
               PROVE  /\ refresh'[q].pc # "idle" /\ refresh'[q].at \in Tokens
                      /\ token'[refresh'[q].at].kind = "pair"
                      /\ refresh'[q].pc = "revokes" =>
                          /\ refresh'[q].then # None =>
                                token'[refresh'[q].then].session = token'[refresh'[q].at].session
                          /\ token'[refresh'[q].at].session \notin escaped =>
                                refresh'[q].then = token'[refresh'[q].at].next
    BY DEF RequestsInOrder, AtRest
  <2>1. CASE q = r
    BY <1>2, <1>4, <1>5, <2>1
  <2>2. CASE q # r
    <3>1. refresh'[q] = refresh[q] /\ refresh[q] # AtRest
      BY <1>4, <2>2
    <3> QED  BY <1>2, <1>6, <3>1 DEF IndInv, RequestsInOrder
  <2> QED  BY <2>1, <2>2
<1>8. EndedWereOpen'
  BY <1>2 DEF IndInv, TypeOK, EndedWereOpen
<1>9. ASSUME NEW s \in Walked, s \notin Walked'
      PROVE  s = token[at].session /\ refresh[r].pc = "revokes" /\ to = AtRest
  <2>1. PICK q \in Refreshes : Walks(q, s)
    BY WalkedMeans
  <2>2. refresh[q] # AtRest /\ refresh[q].at \in Tokens
    BY <1>6, <2>1 DEF Walks, AtRest
  <2>3. CASE q # r
    <3>1. Walks(q, s)'
      BY <1>2, <1>4, <2>1, <2>2, <2>3 DEF Walks
    <3> QED  BY <1>9, <3>1, WalkedMeans
  <2>4. CASE q = r
    <3>1. s = token[at].session /\ refresh[r].pc = "revokes"
      BY <2>1, <2>4 DEF Walks
    <3>2. CASE to # AtRest
      <4>1. Walks(r, s)'
        BY <1>2, <1>4, <3>1, <3>2 DEF Walks
      <4> QED  BY <1>9, <4>1, WalkedMeans
    <3> QED  BY <3>1, <3>2
  <2> QED  BY <2>3, <2>4
<1>10. EndedForGood'
  <2> SUFFICES ASSUME NEW t \in Tokens, token'[t].session \in ended' \ (Walked' \cup escaped')
               PROVE  ~token'[t].live
    BY DEF EndedForGood
  <2>1. token[t].session \in ended /\ token[t].session \notin escaped /\ token[t].session \notin Walked'
    BY <1>2
  <2>2. CASE token[t].session \notin Walked
    BY <1>2, <2>1, <2>2 DEF IndInv, EndedForGood
  <2>3. CASE token[t].session \in Walked
    <3>1. token[t].session = token[at].session /\ refresh[r].pc = "revokes" /\ to = AtRest
      BY <1>9, <2>1, <2>3
    <3>2. token[at].next = None
      BY <1>1, <2>1, <3>1 DEF IndInv, RequestsInOrder
    <3>3. CASE token[t].next = None
      <4>1. t = at
        BY <1>1, <2>1, <3>1, <3>2, <3>3 DEF IndInv, OneTip
      <4> QED  BY <1>2, <4>1
    <3>4. CASE token[t].next # None
      BY <1>2, <3>4 DEF IndInv, ChainsInOrder
    <3> QED  BY <3>3, <3>4
  <2> QED  BY <2>2, <2>3
<1> QED  BY <1>2, <1>3, <1>7, <1>8, <1>10 DEF IndInv

\* The token of a person who is no member goes.
LEMMA RefusesKeeps ==
    ASSUME IndInv, NEW r \in Refreshes, Refuses(r)
    PROVE  IndInv'
<1>1. AtRest \in Step
  BY DEF AtRest, Step
<1> QED  BY <1>1, OneDies DEF Refuses

\* A walk goes on to the successor it read, or has come to the tip.
LEMMA WalkRevokesKeeps ==
    ASSUME NoneIsNoToken, IndInv, NEW r \in Refreshes, WalkRevokes(r)
    PROVE  IndInv'
<1>1. refresh[r].pc = "revokes" /\ Revoke({refresh[r].at}) /\ UNCHANGED <<active, barred, ended, escaped>>
  BY DEF WalkRevokes
<1>2. refresh[r] # AtRest /\ refresh[r] \in Step
  BY <1>1, AtWork
<1>3. CASE refresh[r].then = None
  <2>1. AtRest \in Step
    BY DEF AtRest, Step
  <2>2. refresh' = [refresh EXCEPT ![r] = AtRest]
    BY <1>3 DEF WalkRevokes, IndInv, TypeOK
  <2> QED  BY <1>1, <1>3, <2>1, <2>2, OneDies
<1>4. CASE refresh[r].then # None
  <2> DEFINE to == [pc |-> "reads", at |-> refresh[r].then, then |-> None]
  <2>1. to \in Step /\ to.pc = "reads" /\ to.at = refresh[r].then /\ to.at \in Tokens
    BY <1>2, <1>4 DEF Step
  <2>2. refresh' = [refresh EXCEPT ![r] = to]
    BY <1>4 DEF WalkRevokes, IndInv, TypeOK
  <2>3. token[to.at].session = token[refresh[r].at].session
    BY <1>1, <1>2, <1>4, <2>1 DEF IndInv, RequestsInOrder
  <2>4. to # AtRest
    BY <2>1 DEF AtRest
  <2> HIDE DEF to
  <2> QED  BY <1>1, <2>1, <2>2, <2>3, <2>4, OneDies
<1> QED  BY <1>3, <1>4

\* A rotation moves the tip of the chain, or another token of its session than the
\* tip stays behind: then an end of the session does not reach what it minted.
LEMMA RotatesKeeps ==
    ASSUME NoneIsNoToken, IndInv, NEW r \in Refreshes, NEW t \in Tokens, Rotates(r, t)
    PROVE  IndInv'
<1> DEFINE old == refresh[r].at
           s == token[old].session
           minted == [token[old] EXCEPT !.live = TRUE, !.next = None]
           replaced == [token[old] EXCEPT !.live = FALSE, !.next = t]
<1>1. /\ refresh[r].pc = "mint" /\ Fresh(t) /\ UNCHANGED <<active, barred, ended>>
      /\ refresh' = [refresh EXCEPT ![r] = AtRest]
      /\ token' = [token EXCEPT ![t] = minted, ![old] = [@ EXCEPT !.live = FALSE, !.next = t]]
      /\ escaped' = IF Escapes(old) THEN escaped \cup {s} ELSE escaped
  BY DEF Rotates
<1>2. refresh[r] # AtRest /\ old \in Tokens /\ token[old].kind = "pair"
  BY <1>1, AtWork
<1>3. /\ token[t].session = None /\ token[t].next = None /\ t \notin ended
      /\ \A u \in Tokens : token[u].session # t /\ token[u].next # t
      /\ \A q \in Refreshes : refresh[q] # AtRest => refresh[q].at # t
  BY <1>1, FreshIsApart
<1>4. t # old /\ s \in Tokens /\ s # None /\ s # t /\ None \notin Tokens
  BY <1>2, <1>3 DEF IndInv, TypeOK, ChainsInOrder, NoneIsNoToken
<1>5. token \in [Tokens -> TokenRow] /\ ended \subseteq Tokens /\ escaped \subseteq Tokens
  BY DEF IndInv, TypeOK, TokenRow
<1>6. /\ token'[t] = minted /\ token'[old] = replaced
      /\ \A u \in Tokens : u # t /\ u # old => token'[u] = token[u]
  BY <1>1, <1>2, <1>4, <1>5
<1>7. minted \in TokenRow /\ replaced \in TokenRow
  <2>1. token[old] \in TokenRow
    BY <1>2, <1>5
  <2> HIDE DEF old
  <2>2. minted \in TokenRow
    BY <2>1 DEF TokenRow
  <2>3. replaced \in TokenRow
    BY <2>1 DEF TokenRow
  <2> QED  BY <2>2, <2>3
<1>8. /\ token'[t].kind = "pair" /\ token'[t].sso = token[old].sso
      /\ token'[t].next = None /\ token'[t].session = s
      /\ token'[old].kind = "pair" /\ token'[old].sso = token[old].sso /\ ~token'[old].live
      /\ token'[old].next = t /\ token'[old].session = s
  BY <1>2, <1>5, <1>6 DEF TokenRow
<1> HIDE DEF minted, replaced
<1>9. TypeOK'
  <2>1. token' \in [Tokens -> TokenRow]
    BY <1>1, <1>5, <1>6, <1>7
  <2>2. AtRest \in Step
    BY DEF AtRest, Step
  <2>3. escaped' \subseteq Tokens
    BY <1>1, <1>4, <1>5
  <2> QED  BY <1>1, <2>1, <2>2, <2>3 DEF IndInv, TypeOK, TokenRow, Step
<1>10. ASSUME NEW u \in Tokens, u # t
       PROVE  /\ token'[u].kind = token[u].kind /\ token'[u].sso = token[u].sso
              /\ token'[u].session = token[u].session
  BY <1>2, <1>6, <1>8, <1>10
<1>11. token[s].kind = "pair" /\ token[s].sso = token[old].sso
  BY <1>2, <1>4 DEF IndInv, ChainsInOrder
<1> HIDE DEF s
<1>12. ChainsInOrder'
  <2> SUFFICES ASSUME NEW u \in Tokens
               PROVE  /\ token'[u].kind = "pair" <=> token'[u].session # None
                      /\ token'[u].session # None =>
                          /\ token'[token'[u].session].kind = "pair"
                          /\ token'[token'[u].session].sso = token'[u].sso
                      /\ token'[u].next # None =>
                          /\ token'[u].kind = "pair" /\ ~token'[u].live
                          /\ token'[token'[u].next].session = token'[u].session
    BY DEF ChainsInOrder
  <2>1. token'[s].kind = "pair" /\ token'[s].sso = token[old].sso
    BY <1>4, <1>10, <1>11
  <2>2. CASE u = t \/ u = old
    BY <1>4, <1>8, <2>1, <2>2
  <2>3. CASE u # t /\ u # old
    <3>1. token'[u] = token[u]
      BY <1>6, <2>3
    <3>2. token[u].session \in Tokens \cup {None} /\ token[u].next \in Tokens \cup {None}
      BY <1>5 DEF TokenRow
    <3>3. token[u].session # None =>
            /\ token'[token[u].session].kind = token[token[u].session].kind
            /\ token'[token[u].session].sso = token[token[u].session].sso
      BY <1>3, <1>10, <3>2
    <3>4. token[u].next # None =>
            token'[token[u].next].session = token[token[u].next].session
      BY <1>3, <1>10, <3>2
    <3> QED  BY <3>1, <3>3, <3>4 DEF IndInv, ChainsInOrder
  <2> QED  BY <2>2, <2>3
<1>13. s \notin escaped' =>
         /\ s \notin escaped /\ token[old].next = None
         /\ s \in ended => token[old].live
         /\ \A q \in Refreshes : ~(refresh[q].pc = "revokes" /\ refresh[q].at = old)
  BY <1>1 DEF Escapes, s
<1>14. escaped \subseteq escaped' /\ \A x : x \in escaped' => x \in escaped \/ x = s
  BY <1>1
<1>15. OneTip'
  <2>1. ASSUME s \notin escaped', NEW u \in Tokens, token'[u].session = s, token'[u].next = None
        PROVE  u = t
    <3>1. u # old
      BY <1>4, <1>8, <2>1
    <3>2. CASE u # t
      <4>1. token[u].session = s /\ token[u].next = None
        BY <1>6, <2>1, <3>1, <3>2
      <4>2. token[old].session = s
        BY DEF s
      <4> QED  BY <1>2, <1>4, <1>13, <2>1, <3>1, <4>1, <4>2 DEF IndInv, OneTip
    <3> QED  BY <3>2
  <2> SUFFICES ASSUME NEW u \in Tokens, NEW v \in Tokens,
                      token'[u].session # None, token'[u].session \notin escaped',
                      token'[u].session = token'[v].session,
                      token'[u].next = None, token'[v].next = None
               PROVE  u = v
    BY DEF OneTip
  <2>2. CASE token'[u].session = s
    BY <2>1, <2>2
  <2>3. CASE token'[u].session # s
    <3>1. token'[u] = token[u] /\ token'[v] = token[v]
      BY <1>6, <1>8, <2>3
    <3> QED  BY <1>14, <3>1 DEF IndInv, OneTip
  <2> QED  BY <2>2, <2>3
<1>16. refresh'[r] = AtRest /\ \A q \in Refreshes : q # r => refresh'[q] = refresh[q]
  BY <1>1 DEF IndInv, TypeOK
<1>17. ASSUME NEW q \in Refreshes, q # r, refresh[q] # AtRest
       PROVE  /\ refresh[q].pc # "idle" /\ refresh[q].at \in Tokens
              /\ token[refresh[q].at].kind = "pair" /\ refresh[q].at # t
              /\ refresh[q].then \in Tokens \cup {None}
  BY <1>3, <1>17 DEF IndInv, TypeOK, RequestsInOrder
<1>18. RequestsInOrder'
  <2> SUFFICES ASSUME NEW q \in Refreshes, refresh'[q] # AtRest
               PROVE  /\ refresh'[q].pc # "idle" /\ refresh'[q].at \in Tokens
                      /\ token'[refresh'[q].at].kind = "pair"
                      /\ refresh'[q].pc = "revokes" =>
                          /\ refresh'[q].then # None =>
                                token'[refresh'[q].then].session = token'[refresh'[q].at].session
                          /\ token'[refresh'[q].at].session \notin escaped' =>
                                refresh'[q].then = token'[refresh'[q].at].next
    BY DEF RequestsInOrder, AtRest
  <2>1. q # r /\ refresh'[q] = refresh[q] /\ refresh[q] # AtRest
    BY <1>16
  <2>2. /\ refresh[q].pc # "idle" /\ refresh[q].at \in Tokens
        /\ token[refresh[q].at].kind = "pair" /\ refresh[q].at # t
        /\ refresh[q].then \in Tokens \cup {None}
    BY <1>17, <2>1
  <2>3. /\ token'[refresh[q].at].kind = "pair"
        /\ token'[refresh[q].at].session = token[refresh[q].at].session
    BY <1>10, <2>2
  <2>4. ASSUME refresh[q].pc = "revokes", refresh[q].then # None
        PROVE  token'[refresh[q].then].session = token[refresh[q].at].session
    <3>1. refresh[q].then # t
      BY <1>1, <2>4, ThenIsApart
    <3>2. token[refresh[q].then].session = token[refresh[q].at].session
      BY <2>1, <2>4 DEF IndInv, RequestsInOrder
    <3> QED  BY <1>10, <2>2, <2>4, <3>1, <3>2
  <2>5. ASSUME refresh[q].pc = "revokes", token[refresh[q].at].session \notin escaped'
        PROVE  refresh[q].then = token'[refresh[q].at].next
    <3>1. refresh[q].then = token[refresh[q].at].next
      BY <1>14, <2>1, <2>5 DEF IndInv, RequestsInOrder
    <3>2. refresh[q].at # old
      BY <1>13, <2>5 DEF s
    <3> HIDE DEF old
    <3> QED  BY <1>6, <2>2, <3>1, <3>2
  <2> HIDE DEF old
  <2> QED  BY <2>1, <2>2, <2>3, <2>4, <2>5
<1>19. EndedWereOpen'
  BY <1>1, <1>3, <1>5, <1>10 DEF IndInv, EndedWereOpen
<1>20. ASSUME NEW x \in Walked PROVE x \in Walked'
  <2>1. PICK q \in Refreshes : Walks(q, x)
    BY WalkedMeans
  <2>2. q # r /\ refresh[q] # AtRest
    BY <1>1, <2>1 DEF Walks, AtRest
  <2>3. refresh'[q] = refresh[q] /\ token'[refresh[q].at].session = token[refresh[q].at].session
    BY <1>10, <1>16, <1>17, <2>2
  <2>4. Walks(q, x)'
    BY <2>1, <2>3 DEF Walks
  <2> QED  BY <2>4, WalkedMeans
<1>21. EndedForGood'
  <2> SUFFICES ASSUME NEW u \in Tokens, token'[u].session \in ended' \ (Walked' \cup escaped')
               PROVE  ~token'[u].live
    BY DEF EndedForGood
  <2>1. CASE token'[u].session = s
    <3>1. s \in ended /\ s \notin escaped /\ s \notin Walked /\ token[old].live
      BY <1>1, <1>13, <1>20, <2>1
    <3>2. token[old].session = s
      BY DEF s
    <3> QED  BY <1>2, <3>1, <3>2 DEF IndInv, EndedForGood
  <2>2. CASE token'[u].session # s
    <3>1. token'[u] = token[u]
      BY <1>6, <1>8, <2>2
    <3> QED  BY <1>1, <1>14, <1>20, <3>1 DEF IndInv, EndedForGood
  <2> QED  BY <2>1, <2>2
<1> QED  BY <1>9, <1>12, <1>15, <1>18, <1>19, <1>21 DEF IndInv

---------------------------------------------------------------------------
\* What the workspace thinks of the person touches no token.
LEMMA StandingKeeps ==
    ASSUME IndInv, Disables \/ Requires \/ UNCHANGED session_vars
    PROVE  IndInv'
<1>1. UNCHANGED <<token, refresh, ended, escaped>> /\ active' \in BOOLEAN /\ barred' \in BOOLEAN
  BY DEF IndInv, TypeOK, Disables, Requires, session_vars
<1>2. TypeOK'
  BY <1>1 DEF IndInv, TypeOK
<1>3. ChainsInOrder' /\ OneTip' /\ EndedWereOpen'
  BY <1>1 DEF IndInv, ChainsInOrder, OneTip, EndedWereOpen
<1>4. RequestsInOrder'
  BY <1>1 DEF IndInv, RequestsInOrder, AtRest
<1>5. EndedForGood'
  BY <1>1 DEF IndInv, EndedForGood, Walked
<1> QED  BY <1>2, <1>3, <1>4, <1>5 DEF IndInv

\* Every step keeps the invariant.
LEMMA NextKeeps == NoneIsNoToken /\ IndInv /\ [Next]_session_vars => IndInv'
<1> SUFFICES ASSUME NoneIsNoToken, IndInv, [Next]_session_vars PROVE IndInv'
  OBVIOUS
<1>1. ASSUME NEW t \in Tokens, NEW sso \in BOOLEAN, Login(t, sso) PROVE IndInv'
  BY <1>1, LoginKeeps
<1>2. ASSUME NEW t \in Tokens, Logout(t) \/ Expires(t) PROVE IndInv'
  BY <1>2, OneGoes
<1>3. ASSUME NEW t \in Tokens, Everywhere(t) PROVE IndInv'
  BY <1>3, EverywhereKeeps
<1>4. ASSUME NEW i \in Tokens, NEW t \in Tokens, Open(i, t) PROVE IndInv'
  BY <1>4, OpenKeeps
<1>5. ASSUME NEW r \in Refreshes, NEW t \in Tokens, Presents(r, t) PROVE IndInv'
  BY <1>5, PresentsKeeps
<1>6. ASSUME NEW r \in Refreshes, NEW t \in Tokens, Rotates(r, t) PROVE IndInv'
  BY <1>6, RotatesKeeps
<1>7. ASSUME NEW r \in Refreshes, Stands(r) PROVE IndInv'
  BY <1>7, StandsKeeps
<1>8. ASSUME NEW r \in Refreshes, Refuses(r) PROVE IndInv'
  BY <1>8, RefusesKeeps
<1>9. ASSUME NEW r \in Refreshes, WalkReads(r) PROVE IndInv'
  BY <1>9, WalkReadsKeeps
<1>10. ASSUME NEW r \in Refreshes, WalkRevokes(r) PROVE IndInv'
  BY <1>10, WalkRevokesKeeps
<1>11. CASE EndsSso
  BY <1>11, EndsSsoKeeps
<1>12. CASE Disables \/ Requires \/ UNCHANGED session_vars
  BY <1>12, StandingKeeps
<1> QED
  BY <1>1, <1>2, <1>3, <1>4, <1>5, <1>6, <1>7, <1>8, <1>9, <1>10, <1>11, <1>12 DEF Next

\* The invariant holds of every behaviour, whatever requests do to one session.
THEOREM SessionsInvariance ==
    ASSUME NoneIsNoToken
    PROVE  Spec => []IndInv
<1>1. Init => IndInv
  BY InitInvariant
<1>2. IndInv /\ [Next]_session_vars => IndInv'
  BY NextKeeps
<1> QED  BY <1>1, <1>2, PTL DEF Spec

\* Types: tokens, requests and the ended sessions are what they are said to be,
\* for any number of each.
THEOREM SessionsTypes ==
    ASSUME NoneIsNoToken
    PROVE  Spec => []TypeOK
<1>1. IndInv => TypeOK
  BY DEF IndInv
<1> QED  BY <1>1, SessionsInvariance, PTL

\* After "everywhere", a provider turned off, or a rotated token presented again
\* (revokeChain), no token of the session is alive but before the eyes of a walk,
\* however long its chain and whichever requests refresh, walk and log out of it
\* at once; only a rotation that wrote over its token's end is excepted.
THEOREM EndedStaysEnded ==
    ASSUME NoneIsNoToken
    PROVE  Spec => []EndedForGood
<1>1. IndInv => EndedForGood
  BY DEF IndInv
<1> QED  BY <1>1, SessionsInvariance, PTL
=============================================================================
