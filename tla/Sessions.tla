------------------------------ MODULE Sessions ------------------------------
(* The sessions of one person in one workspace (src/apps/api/src/auth/         *)
(* sessions, platform/repositories/refresh-token.repository.ts): refresh       *)
(* tokens that a refresh rotates into a chain, the identity that opens a pair, *)
(* the reuse of a rotated token, and the ways a session ends.                  *)
(*                                                                             *)
(* A refresh reads its token, then the workspace and the membership, and       *)
(* rotates in a later transaction; the walk down a chain reads and revokes one *)
(* token at a time.  A secret is known to whoever was given it, so a request   *)
(* may present any token ever issued.  A session is named for the first token  *)
(* of its chain.  Nothing keeps two requests off one session.                  *)
EXTENDS Naturals, FiniteSets

CONSTANTS
    Tokens,    \* rows of RefreshToken
    Refreshes,  \* requests that may be in flight
    None

VARIABLES
    token,    \* the rows
    active,   \* the membership is active
    barred,   \* the workspace asks for a factor or a provider this person lacks
    refresh,  \* what each request does next, and with which token
    ended,    \* history: sessions that somebody has ended
    escaped   \* history: sessions with a token that no end of theirs reaches

session_vars == <<token, active, barred, refresh, ended, escaped>>

NoToken == [kind |-> "none", live |-> FALSE, sso |-> FALSE, next |-> None, session |-> None]
AtRest == [pc |-> "idle", at |-> None, then |-> None]

TypeOK ==
    /\ token \in [Tokens -> [kind : {"none", "identity", "pair"}, live : BOOLEAN, sso : BOOLEAN,
                             next : Tokens \cup {None}, session : Tokens \cup {None}]]
    /\ active \in BOOLEAN /\ barred \in BOOLEAN
    /\ refresh \in [Refreshes -> [pc : {"idle", "read", "mint", "refuse", "reads", "revokes"},
                                 at : Tokens \cup {None}, then : Tokens \cup {None}]]
    /\ ended \subseteq Tokens /\ escaped \subseteq Tokens

Init ==
    /\ token = [t \in Tokens |-> NoToken]
    /\ active = TRUE /\ barred = FALSE
    /\ refresh = [r \in Refreshes |-> AtRest]
    /\ ended = {} /\ escaped = {}

Fresh(t) == token[t].kind = "none"
Identity(t) == token[t].kind = "identity" /\ token[t].live
Sessions(ts) == {token[t].session : t \in ts} \ {None}

Revoke(gone) ==
    token' = [t \in Tokens |-> IF t \in gone THEN [token[t] EXCEPT !.live = FALSE] ELSE token[t]]

Ends(gone) == Revoke(gone) /\ ended' = ended \cup Sessions(gone)

---------------------------------------------------------------------------
(* A login, by password or by the workspace's identity provider, is a new      *)
(* identity; a live identity opens a pair, the first of its chain, and its     *)
(* scope rides along.                                                          *)
Login(t, sso) ==
    /\ Fresh(t)
    /\ token' = [token EXCEPT ![t] = [NoToken EXCEPT !.kind = "identity", !.live = TRUE, !.sso = sso]]
    /\ UNCHANGED <<active, barred, refresh, ended, escaped>>

Admits(sso) == active /\ (barred => sso)

Open(i, t) ==
    /\ Identity(i) /\ Fresh(t) /\ Admits(token[i].sso)
    /\ token' = [token EXCEPT ![t] = [kind |-> "pair", live |-> TRUE, sso |-> token[i].sso,
                                     next |-> None, session |-> t]]
    /\ UNCHANGED <<active, barred, refresh, ended, escaped>>

(* A refresh reads the token it is given: one that was replaced, and the chain *)
(* is walked from there; a dead one is refused; a live one goes on.            *)
Presents(r, t) ==
    /\ refresh[r] = AtRest /\ token[t].kind = "pair"
    /\ \/ /\ token[t].next # None
          /\ refresh' = [refresh EXCEPT ![r] = [pc |-> "reads", at |-> t, then |-> None]]
          /\ ended' = ended \cup {token[t].session}
       \/ /\ token[t].next = None /\ token[t].live
          /\ refresh' = [refresh EXCEPT ![r] = [pc |-> "read", at |-> t, then |-> None]]
          /\ ended' = ended
    /\ UNCHANGED <<token, active, barred, escaped>>

(* No membership, and the token goes; a requirement that is not met leaves it  *)
(* good and mints nothing.                                                     *)
Stands(r) ==
    /\ refresh[r].pc = "read"
    /\ refresh' = [refresh EXCEPT ![r] =
                    IF ~active THEN [@ EXCEPT !.pc = "refuse"]
                    ELSE IF Admits(token[refresh[r].at].sso) THEN [@ EXCEPT !.pc = "mint"] ELSE AtRest]
    /\ UNCHANGED <<token, active, barred, ended, escaped>>

Refuses(r) ==
    /\ refresh[r].pc = "refuse"
    /\ Revoke({refresh[r].at})
    /\ refresh' = [refresh EXCEPT ![r] = AtRest]
    /\ UNCHANGED <<active, barred, ended, escaped>>

(* A new token that no end of its session reaches: its predecessor has another *)
(* successor by now, or was revoked with its session, or a walk has read that  *)
(* nothing replaced it and is about to revoke it.                              *)
Escapes(old) ==
    \/ token[old].next # None
    \/ ~token[old].live /\ token[old].session \in ended
    \/ \E q \in Refreshes : refresh[q].pc = "revokes" /\ refresh[q].at = old

(* The new token is created and the old one marked replaced by it, in one      *)
(* transaction, whatever the old one has become since it was read.             *)
Rotates(r, t) ==
    LET old == refresh[r].at IN
    /\ refresh[r].pc = "mint" /\ Fresh(t)
    /\ token' = [token EXCEPT ![t] = [token[old] EXCEPT !.live = TRUE, !.next = None],
                              ![old] = [@ EXCEPT !.live = FALSE, !.next = t]]
    /\ escaped' = IF Escapes(old) THEN escaped \cup {token[old].session} ELSE escaped
    /\ refresh' = [refresh EXCEPT ![r] = AtRest]
    /\ UNCHANGED <<active, barred, ended>>

(* The walk reads which token replaced this one, revokes it, and goes on.      *)
WalkReads(r) ==
    /\ refresh[r].pc = "reads"
    /\ refresh' = [refresh EXCEPT ![r].pc = "revokes", ![r].then = token[refresh[r].at].next]
    /\ UNCHANGED <<token, active, barred, ended, escaped>>

\* A walk that revokes the token presented and no more.
RevokesOne(r) ==
    /\ refresh[r].pc = "revokes"
    /\ Revoke({refresh[r].at})
    /\ refresh' = [refresh EXCEPT ![r] = AtRest]
    /\ UNCHANGED <<active, barred, ended, escaped>>

WalkRevokes(r) ==
    /\ refresh[r].pc = "revokes"
    /\ Revoke({refresh[r].at})
    /\ refresh' = [refresh EXCEPT ![r] =
                    IF @.then = None THEN AtRest ELSE [pc |-> "reads", at |-> @.then, then |-> None]]
    /\ UNCHANGED <<active, barred, ended, escaped>>

---------------------------------------------------------------------------
(* Logging out of the workspace ends the token presented and no other of its   *)
(* chain.                                                                      *)
Logout(t) ==
    /\ token[t].kind = "pair" /\ token[t].live
    /\ Revoke({t})
    /\ UNCHANGED <<active, barred, refresh, ended, escaped>>

(* Everywhere, from a live identity, is all of the person's tokens; from one   *)
(* the provider started, the pairs and the identities it started.              *)
Reach(i) == IF token[i].sso THEN {t \in Tokens : token[t].sso \/ token[t].kind = "pair"} ELSE Tokens

Everywhere(i) ==
    /\ Identity(i) /\ Ends(Reach(i))
    /\ UNCHANGED <<active, barred, refresh, escaped>>

(* The connection to the provider is turned off or replaced.                   *)
EndsSso ==
    /\ \E t \in Tokens : token[t].sso /\ token[t].live
    /\ Ends({t \in Tokens : token[t].sso})
    /\ UNCHANGED <<active, barred, refresh, escaped>>

(* A token lives for its days.                                                 *)
Expires(t) ==
    /\ token[t].live /\ Revoke({t})
    /\ UNCHANGED <<active, barred, refresh, ended, escaped>>

Disables == active' = ~active /\ UNCHANGED <<token, barred, refresh, ended, escaped>>
Requires == barred' = ~barred /\ UNCHANGED <<token, active, refresh, ended, escaped>>

Next ==
    \/ \E t \in Tokens : Login(t, TRUE) \/ Login(t, FALSE) \/ Logout(t) \/ Everywhere(t) \/ Expires(t)
    \/ \E i, t \in Tokens : Open(i, t)
    \/ \E r \in Refreshes, t \in Tokens : Presents(r, t) \/ Rotates(r, t)
    \/ \E r \in Refreshes : Stands(r) \/ Refuses(r) \/ WalkReads(r) \/ WalkRevokes(r)
    \/ EndsSso \/ Disables \/ Requires

Spec == Init /\ [][Next]_session_vars

---------------------------------------------------------------------------
(* A walk is under way down the chain of such a session.                       *)
Walked == {token[refresh[r].at].session : r \in {q \in Refreshes : refresh[q].pc \in {"reads", "revokes"}}}

(* A session that was ended stays ended: after "everywhere", a provider turned *)
(* off, or a rotated token presented again, no token of its chain is live but  *)
(* before the eyes of a walk, however many requests refresh it, present its    *)
(* tokens, walk it and log out of it at once.  The one way out is a rotation   *)
(* that wrote over what its token had become since it was read.                *)
EndedForGood ==
    \A t \in Tokens : token[t].session \in ended \ (Walked \cup escaped) => ~token[t].live

(* "Ends every session of a user: every refresh token and pg_id revoked"       *)
(* (session.service.ts:151), and "presenting a rotated token revokes its whole *)
(* chain" (:63), whoever refreshes it meanwhile: the code does not keep to it. *)
EndsEverySession ==
    \A t \in Tokens : token[t].session \in ended \ Walked => ~token[t].live
=============================================================================
