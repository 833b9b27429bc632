------------------------------- MODULE Sessions -------------------------------
(***************************************************************************)
(* Who talks to the legacy server and for how long: the OpenID Connect     *)
(* sign-in with its login challenges and browser sessions (oidc.go), the   *)
(* authentication of a request (auth.go), and the chat sessions behind it  *)
(* (chat_sessions.go, pkg/triage ChatSessionManager).                      *)
(*                                                                         *)
(* A step is what happens between two acquisitions of a mutex or around    *)
(* one call of the identity provider or of the model.  Nothing is          *)
(* persisted.  Identifiers are random: a used one is never drawn again.    *)
(*                                                                         *)
(* A subject stands for the actor the server calls it by (its mail, name   *)
(* or id, authenticateRequest): two subjects with one mail would be one    *)
(* actor.  A token is configured, so nobody is the local actor             *)
(* (tokenAuthenticator.authenticate without one admits everybody).         *)
(***************************************************************************)
EXTENDS Naturals, Sequences, FiniteSets

CONSTANTS
  People,         \* subjects of the identity provider
  InGroup,        \* those with an allowed group, or everyone when none is configured
  LoginStates,    \* identifiers of login challenges
  BrowserIDs,     \* identifiers of browser sessions
  Callbacks,      \* requests of /auth/callback
  Chatters,       \* requests of /api/chat
  Chats,          \* identifiers of chat sessions
  ApiToken,       \* the static token, and the actor it stands for
  Bearers,        \* the bearer tokens requests carry: the static one, and identity tokens
  Nothing,        \* no cookie, no bearer token, no holder
  ChallengeLife,  \* ten minutes
  SessionLife,    \* the cap of 24 hours
  IdentityLife,   \* the longest an identity token is valid
  ChatLife,       \* options.ttl
  MaxTurns,       \* options.maxTurns
  Remembered,     \* how many turns fit in options.maxHistoryBytes
  LastMoment      \* bound of the clock

ASSUME SessionsAssumption ==
  /\ InGroup \subseteq People
  /\ Bearers \subseteq People \cup {ApiToken}
  /\ ApiToken \notin People /\ Nothing \notin People \cup BrowserIDs \cup LoginStates \cup Chatters \cup {ApiToken}
  /\ {ChallengeLife, SessionLife, IdentityLife, ChatLife, MaxTurns, Remembered} \subseteq Nat \ {0}

VARIABLES
  moment,      \* the clock
  discovered,  \* oidcAuthenticator.verifier and oauthCfg are set
  challenges,  \* oidcAuthenticator.challenges, by state
  callback,    \* where each callback is
  browsers,    \* oidcAuthenticator.sessions, and for each the login it came from and whether it was signed out
  chatter,     \* where each chat request is, and whether its cookie was signed out when it came
  chats        \* chatSessionState: owner, expiry, the lock's holder, the turns

signIn == <<challenges, callback>>
talk == <<chatter, chats>>
sessionVars == <<moment, discovered, signIn, browsers, talk>>

NoChallenge == [is |-> "unused", expires |-> 0]
NoBrowser == [is |-> "unused", who |-> Nothing, expires |-> 0, until |-> 0, login |-> Nothing, out |-> FALSE]
NoCallback == [at |-> "idle", login |-> Nothing, who |-> Nothing, until |-> 0]
NoChatter == [at |-> "idle", op |-> "none", chat |-> Nothing, cookie |-> Nothing, bearer |-> Nothing,
              actor |-> Nothing, late |-> FALSE, read |-> NoBrowser, prompt |-> <<>>]
NoChat == [is |-> "unused", actor |-> Nothing, expires |-> 0, holder |-> Nothing, turns |-> <<>>]

SessionsInit ==
  /\ moment = 0
  /\ discovered = FALSE
  /\ challenges = [s \in LoginStates |-> NoChallenge]
  /\ callback = [k \in Callbacks |-> NoCallback]
  /\ browsers = [b \in BrowserIDs |-> NoBrowser]
  /\ chatter = [c \in Chatters |-> NoChatter]
  /\ chats = [i \in Chats |-> NoChat]

TimePasses ==
  /\ moment < LastMoment
  /\ moment' = moment + 1
  /\ UNCHANGED <<discovered, signIn, browsers, talk>>

-----------------------------------------------------------------------------
(* Signing in. *)

\* ensureVerifier: discovery is tried again by every request until it succeeds.
EnsureVerifier ==
  /\ ~discovered
  /\ discovered' = TRUE
  /\ UNCHANGED <<moment, signIn, browsers, talk>>

\* Principal.Valid and the session's own expiry.
Current(b) == moment <= b.expires /\ moment < b.until

Gone(b) == [NoBrowser EXCEPT !.is = "gone", !.login = b.login, !.out = b.out]
PrunedBrowsers == [b \in BrowserIDs |-> IF browsers[b].is = "live" /\ ~Current(browsers[b])
                                          THEN Gone(browsers[b]) ELSE browsers[b]]
PrunedChallenges == [s \in LoginStates |-> IF challenges[s].is = "open" /\ moment > challenges[s].expires
                                             THEN [is |-> "gone", expires |-> 0] ELSE challenges[s]]

HandleLogin(s) ==
  /\ discovered /\ challenges[s].is = "unused"
  /\ browsers' = PrunedBrowsers
  /\ challenges' = [PrunedChallenges EXCEPT ![s] = [is |-> "open", expires |-> moment + ChallengeLife]]
  /\ UNCHANGED <<moment, discovered, callback, talk>>

\* The challenge is taken under the lock, whether or not it is still in time.
ConsumeNone(s) == challenges
Consume(s) == [challenges EXCEPT ![s] = [is |-> "gone", expires |-> 0]]

\* A callback whose cookie carries its own state.  A browser may send it twice.
CallbackTakes(k, s) ==
  /\ discovered /\ callback[k].at = "idle"
  /\ challenges[s].is = "open"
  /\ challenges' = Consume(s)
  /\ callback' = [callback EXCEPT ![k] =
       IF moment > challenges[s].expires THEN NoCallback ELSE [@ EXCEPT !.at = "exchange", !.login = s]]
  /\ UNCHANGED <<moment, discovered, browsers, talk>>

\* The code is exchanged, the token verified against the nonce and the groups.
CallbackVerifies(k, p) ==
  /\ callback[k].at = "exchange"
  /\ callback' = [callback EXCEPT ![k] =
       IF p \in InGroup THEN [@ EXCEPT !.at = "store", !.who = p, !.until = moment + IdentityLife] ELSE NoCallback]
  /\ UNCHANGED <<moment, discovered, challenges, browsers, talk>>

\* The exchange or the verification fails.
CallbackFails(k) ==
  /\ callback[k].at = "exchange"
  /\ callback' = [callback EXCEPT ![k] = NoCallback]
  /\ UNCHANGED <<moment, discovered, challenges, browsers, talk>>

Earlier(a, b) == IF a < b THEN a ELSE b

CallbackStores(k, b) ==
  /\ callback[k].at = "store" /\ browsers[b].is = "unused"
  /\ browsers' = [browsers EXCEPT ![b] =
       [NoBrowser EXCEPT !.is = "live", !.who = callback[k].who, !.until = callback[k].until,
                         !.expires = Earlier(callback[k].until, moment + SessionLife), !.login = callback[k].login]]
  /\ callback' = [callback EXCEPT ![k] = NoCallback]
  /\ UNCHANGED <<moment, discovered, challenges, talk>>

SignsOutCookie(b) == [browsers EXCEPT ![b].out = TRUE]
SignsOut(b) == [browsers EXCEPT ![b] = [Gone(@) EXCEPT !.out = TRUE]]

\* The session is deleted whoever asks, and asking again changes nothing.
HandleLogout(b) ==
  /\ browsers[b].is = "live"
  /\ browsers' = SignsOut(b)
  /\ UNCHANGED <<moment, discovered, signIn, talk>>

-----------------------------------------------------------------------------
(* Authenticating a request. *)

ChatterAt(c, at) == chatter' = [chatter EXCEPT ![c].at = at, ![c].cookie = Nothing, ![c].late = FALSE]
ChatterEnds(c) == chatter' = [chatter EXCEPT ![c] = NoChatter]

\* authenticateSession: a copy of the session is taken under the read lock.
RequestComes(c, op, i, cookie, bearer) ==
  /\ chatter[c].at = "idle"
  /\ cookie # Nothing => browsers[cookie].is # "unused"
  /\ op # "create" => chats[i].is # "unused"
  /\ chatter' = [chatter EXCEPT ![c] =
       [NoChatter EXCEPT !.at = "check", !.op = op, !.chat = i, !.cookie = cookie, !.bearer = bearer, 
                         !.late = cookie # Nothing /\ browsers[cookie].out,
                         !.read = IF cookie # Nothing /\ browsers[cookie].is = "live"
                                    THEN browsers[cookie] ELSE NoBrowser]]
  /\ UNCHANGED <<moment, discovered, signIn, browsers, chats>>

\* What a request remembers of its credentials is the cookie that let it in.
Admit(c, actor, cookie) ==
  chatter' = [chatter EXCEPT ![c].at = "admitted", ![c].actor = actor, ![c].read = NoBrowser, ![c].bearer = Nothing,
                             ![c].cookie = cookie, ![c].late = @ /\ cookie # Nothing]

\* The copy is good: its identity is the actor.  The bearer token is not looked at.
SessionAdmits(c) ==
  /\ chatter[c].at = "check" /\ chatter[c].read.is = "live" /\ Current(chatter[c].read)
  /\ Admit(c, chatter[c].read.who, chatter[c].cookie)
  /\ UNCHANGED <<moment, discovered, signIn, browsers, chats>>

\* The copy is out of date: the session is deleted, and the request has no cookie.
SessionExpired(c) ==
  /\ chatter[c].at = "check" /\ chatter[c].read.is = "live" /\ ~Current(chatter[c].read)
  /\ browsers' = [browsers EXCEPT ![chatter[c].cookie] = Gone(@)]
  /\ chatter' = [chatter EXCEPT ![c].read = NoBrowser, ![c].cookie = Nothing, ![c].late = FALSE]
  /\ UNCHANGED <<moment, discovered, signIn, chats>>

\* tokenAuthenticator.authenticate: the static token, whoever holds it.
TokenAuthenticates(bearer) == bearer = ApiToken

\* The static token, else verifyBearerToken, which also looks at the groups.
BearerAdmits(c) ==
  /\ chatter[c].at = "check" /\ chatter[c].read.is # "live"
  /\ \/ TokenAuthenticates(chatter[c].bearer)
     \/ discovered /\ chatter[c].bearer \in InGroup
  /\ Admit(c, chatter[c].bearer, Nothing)
  /\ UNCHANGED <<moment, discovered, signIn, browsers, chats>>

\* A request without a valid credential, or an identity token that does not verify.
RequestRefused(c) ==
  /\ chatter[c].at = "check" /\ chatter[c].read.is # "live"
  /\ ~TokenAuthenticates(chatter[c].bearer)
  /\ ChatterEnds(c)
  /\ UNCHANGED <<moment, discovered, signIn, browsers, chats>>

-----------------------------------------------------------------------------
(* Chat sessions. *)

ChatCreate(c) ==
  LET i == chatter[c].chat
  IN  /\ chatter[c].at = "admitted" /\ chatter[c].op = "create" /\ chats[i].is = "unused"
      /\ chats' = [chats EXCEPT ![i] = [NoChat EXCEPT !.is = "open", !.actor = chatter[c].actor,
                                                      !.expires = moment + ChatLife]]
      /\ ChatterEnds(c)
      /\ UNCHANGED <<moment, discovered, signIn, browsers>>

\* authorizedSession finds the session, then waits for its lock to look inside.
ChatFound(c) ==
  /\ chatter[c].at = "admitted" /\ chatter[c].op # "create"
  /\ IF chats[chatter[c].chat].is = "open" THEN ChatterAt(c, "authorize") ELSE ChatterEnds(c)
  /\ UNCHANGED <<moment, discovered, signIn, browsers, chats>>

ChatAlive(i) == moment < chats[i].expires

\* Get and Query end here as well: they change nothing, so no request of theirs is modelled.
ChatAuthorized(c) ==
  LET i == chatter[c].chat
  IN  /\ chatter[c].at = "authorize" /\ chats[i].holder = Nothing
      /\ IF chats[i].actor = chatter[c].actor /\ ChatAlive(i)
           THEN ChatterAt(c, chatter[c].op) ELSE ChatterEnds(c)
      /\ UNCHANGED <<moment, discovered, signIn, browsers, chats>>

\* buildSessionQuery: the history, of which only the end is kept when it is too long.
Prompt(turns, message) ==
  LET from == IF Len(turns) > Remembered THEN Len(turns) - Remembered + 1 ELSE 1
  IN  Append([n \in 1..(Len(turns) - from + 1) |-> turns[from + n - 1].asked], message)

HoldsNot(c) == Nothing
Holds(c) == c

\* Send takes the lock, looks at the limits again and asks the model with the lock held.
\* A session closed meanwhile is still asked: the request has its pointer.
ChatSend(c) ==
  LET i == chatter[c].chat
  IN  /\ chatter[c].at = "send" /\ chats[i].holder = Nothing
      /\ IF ChatAlive(i) /\ Len(chats[i].turns) < MaxTurns
           THEN /\ chats' = [chats EXCEPT ![i].holder = Holds(c)]
                /\ chatter' = [chatter EXCEPT ![c].at = "asked", ![c].prompt = Prompt(chats[i].turns, c)]
           ELSE UNCHANGED chats /\ ChatterEnds(c)
      /\ UNCHANGED <<moment, discovered, signIn, browsers>>

\* The model answers: question and answer join the history together.
ChatReply(c) ==
  LET i == chatter[c].chat
  IN  /\ chatter[c].at = "asked"
      /\ chats' = [chats EXCEPT ![i].holder = Nothing,
                     ![i].turns = Append(@, [asked |-> c, by |-> chatter[c].actor, prompt |-> chatter[c].prompt])]
      /\ ChatterEnds(c)
      /\ UNCHANGED <<moment, discovered, signIn, browsers>>

\* It fails, or answers nothing: the history is as it was.
ChatUnanswered(c) ==
  /\ chatter[c].at = "asked"
  /\ chats' = [chats EXCEPT ![chatter[c].chat].holder = Nothing]
  /\ ChatterEnds(c)
  /\ UNCHANGED <<moment, discovered, signIn, browsers>>

ChatClose(c) ==
  /\ chatter[c].at = "close"
  /\ chats' = [chats EXCEPT ![chatter[c].chat].is = "closed"]
  /\ ChatterEnds(c)
  /\ UNCHANGED <<moment, discovered, signIn, browsers>>

-----------------------------------------------------------------------------
ChatRequest(c) ==
  \/ \E op \in {"create", "send", "close"}, i \in Chats,
        cookie \in BrowserIDs \cup {Nothing}, bearer \in Bearers \cup {Nothing} :
       RequestComes(c, op, i, cookie, bearer)
  \/ SessionAdmits(c) \/ SessionExpired(c) \/ BearerAdmits(c) \/ RequestRefused(c)
  \/ ChatCreate(c) \/ ChatFound(c) \/ ChatAuthorized(c)
  \/ ChatSend(c) \/ ChatReply(c) \/ ChatUnanswered(c) \/ ChatClose(c)

SessionsNext ==
  \/ TimePasses \/ EnsureVerifier
  \/ \E s \in LoginStates : HandleLogin(s) \/ \E k \in Callbacks : CallbackTakes(k, s)
  \/ \E k \in Callbacks : CallbackFails(k) \/ \E p \in People : CallbackVerifies(k, p)
  \/ \E b \in BrowserIDs : HandleLogout(b) \/ \E k \in Callbacks : CallbackStores(k, b)
  \/ \E c \in Chatters : ChatRequest(c)

SessionsSpec == SessionsInit /\ [][SessionsNext]_sessionVars

-----------------------------------------------------------------------------
\* A sign-in is worth one browser session, of someone in an allowed group, however
\* often its callback is sent and however the exchanges with the identity provider
\* overlap (handleCallback deletes the challenge before it leaves the lock).
OneSessionPerLogin ==
  \A s \in LoginStates :
    /\ Cardinality({b \in BrowserIDs : browsers[b].login = s} \cup {k \in Callbacks : callback[k].login = s}) <= 1
    /\ \A b \in BrowserIDs : browsers[b].login = s /\ browsers[b].is = "live" => browsers[b].who \in InGroup

\* Whoever is let in through a cookie had not signed out before the request came:
\* the copy authenticateSession works on may be stale by the length of one request,
\* never by more, and a session that ran out or was pruned is not read again.
SignedOutStaysOut ==
  \A c \in Chatters :
    chatter[c].at = "admitted" /\ chatter[c].cookie # Nothing => ~chatter[c].late

\* The questions of a chat session come one at a time: each is the owner's and was
\* asked with all the turns before it (as many as fit), none slips in between a
\* question and its answer, and the turn limit holds whoever waited for the lock
\* (ChatSessionManager.Send keeps the session locked while the model answers).
ConversationIsWhole ==
  \A i \in Chats :
    /\ Len(chats[i].turns) <= MaxTurns
    /\ \A n \in DOMAIN chats[i].turns :
         LET turn == chats[i].turns[n]
             kept == Earlier(n - 1, Remembered)
         IN  /\ turn.by = chats[i].actor
             /\ turn.prompt = [m \in 1..(kept + 1) |-> chats[i].turns[n - 1 - kept + m].asked]
=============================================================================
