---------------------------- MODULE AuthorityProofs ----------------------------
(***************************************************************************)
(* Proofs about who and what is believed: a sign-in is worth one session,  *)
(* whoever signed out stays out and a conversation is whole (Sessions); an *)
(* incident recovered is one that was seen healthy for the whole window    *)
(* (Recovery); a claim that may be acted on rests on nothing disputed or   *)
(* revoked, however deep (Knowledge).                                      *)
(*                                                                         *)
(* The loop over the samples and the lineage of a claim are recursive      *)
(* functions.  What holds of them for every input is shown by the least    *)
(* counterexample: a set of naturals that is not empty has a least member. *)
(***************************************************************************)
EXTENDS Sessions, Recovery, Knowledge, FiniteSetTheorems, SequenceTheorems, TLAPS

Actors == People \cup {ApiToken, Nothing}
ChallengeRow == [is : {"unused", "open", "gone"}, expires : Nat]
BrowserRow == [is : {"unused", "live", "gone"}, who : Actors, expires : Nat, until : Nat,
               login : LoginStates \cup {Nothing}, out : BOOLEAN]
CallbackRow == [at : {"idle", "exchange", "store"}, login : LoginStates \cup {Nothing}, who : Actors, until : Nat]
ChatterRow == [at : {"idle", "check", "admitted", "authorize", "send", "close", "asked"},
               op : {"none", "create", "send", "close"}, chat : Chats \cup {Nothing},
               cookie : BrowserIDs \cup {Nothing}, bearer : Actors, actor : Actors, late : BOOLEAN,
               read : BrowserRow, prompt : Seq(Chatters)]
Turn == [asked : Chatters, by : Actors, prompt : Seq(Chatters)]
ChatRow == [is : {"unused", "open", "closed"}, actor : Actors, expires : Nat, holder : Chatters \cup {Nothing},
            turns : Seq(Turn)]

-----------------------------------------------------------------------------
(* The inductive invariant. *)

SignInTypeOK ==
  /\ moment \in Nat
  /\ challenges \in [LoginStates -> ChallengeRow]
  /\ callback \in [Callbacks -> CallbackRow]
  /\ browsers \in [BrowserIDs -> BrowserRow]

\* A challenge that was not taken has no callback and no session; one that was has at most one
\* of them.
LoginsHold ==
  /\ \A s \in LoginStates : challenges[s].is # "gone" =>
       (\A b \in BrowserIDs : browsers[b].login # s) /\ (\A k \in Callbacks : callback[k].login # s)
  /\ \A a, b \in BrowserIDs : browsers[a].login = browsers[b].login /\ browsers[a].login # Nothing => a = b
  /\ \A j, k \in Callbacks : callback[j].login = callback[k].login /\ callback[j].login # Nothing => j = k
  /\ \A b \in BrowserIDs, k \in Callbacks : browsers[b].login = callback[k].login => browsers[b].login = Nothing

\* Who gets this far is in an allowed group, and a live session was not signed out.
AdmittedHold ==
  /\ \A k \in Callbacks : callback[k].at = "store" => callback[k].who \in InGroup
  /\ \A b \in BrowserIDs : browsers[b].is = "live" => browsers[b].who \in InGroup /\ ~browsers[b].out

SignInInv == SignInTypeOK /\ LoginsHold /\ AdmittedHold

\* What a chat request counts on at each of its steps.
ChatterHolds(c, row) ==
  /\ row.at # "idle" => row.chat \in Chats /\ row.op # "none"
  /\ row.at = "check" /\ row.read.is = "live" => ~row.late
  /\ row.at = "admitted" /\ row.cookie # Nothing => ~row.late
  /\ row.at \in {"authorize", "send", "close", "asked"} => row.op # "create"
  /\ row.at # "idle" /\ row.op # "create" => chats[row.chat].is # "unused"
  /\ row.at \in {"send", "asked"} => chats[row.chat].actor = row.actor
  /\ row.at = "asked" => /\ chats[row.chat].holder = c
                         /\ Len(chats[row.chat].turns) < MaxTurns
                         /\ row.prompt = Prompt(chats[row.chat].turns, c)

TalkTypeOK == chatter \in [Chatters -> ChatterRow] /\ chats \in [Chats -> ChatRow]

TalkInv == TalkTypeOK /\ ConversationIsWhole /\ \A c \in Chatters : ChatterHolds(c, chatter[c])

SessionsInv == SignInInv /\ TalkInv

-----------------------------------------------------------------------------
(* Signing in. *)

LEMMA NoRows ==
  /\ NoChallenge \in ChallengeRow /\ NoChallenge.is = "unused"
  /\ NoCallback \in CallbackRow /\ NoCallback.at = "idle" /\ NoCallback.login = Nothing
  /\ NoBrowser \in BrowserRow /\ NoBrowser.is = "unused" /\ NoBrowser.login = Nothing /\ NoBrowser.out = FALSE
  /\ NoChatter \in ChatterRow /\ NoChatter.at = "idle"
  /\ NoChat \in ChatRow /\ NoChat.is = "unused" /\ NoChat.turns = <<>>
<1>1. NoChallenge \in ChallengeRow /\ NoChallenge.is = "unused"
  BY DEF NoChallenge, ChallengeRow
<1>2. NoCallback \in CallbackRow /\ NoCallback.at = "idle" /\ NoCallback.login = Nothing
  BY DEF NoCallback, CallbackRow, Actors
<1>3. NoBrowser \in BrowserRow /\ NoBrowser.is = "unused" /\ NoBrowser.login = Nothing /\ NoBrowser.out = FALSE
  BY DEF NoBrowser, BrowserRow, Actors
<1>4. NoChatter \in ChatterRow /\ NoChatter.at = "idle"
  <2>1. <<>> \in Seq(Chatters)
    OBVIOUS
  <2> QED
    BY <1>3, <2>1 DEF NoChatter, ChatterRow, Actors
<1>5. NoChat \in ChatRow /\ NoChat.is = "unused" /\ NoChat.turns = <<>>
  BY DEF NoChat, ChatRow, Actors
<1> QED
  BY <1>1, <1>2, <1>3, <1>4, <1>5

\* A session that is gone remembers only which login it was and whether it was signed out.
LEMMA GoneIsTyped ==
  ASSUME NEW row \in BrowserRow
  PROVE  Gone(row) \in BrowserRow /\ Gone(row).is = "gone" /\ Gone(row).login = row.login /\ Gone(row).out = row.out
<1>1. Gone(row) \in BrowserRow
  BY NoRows DEF Gone, BrowserRow
<1> QED
  BY <1>1, NoRows DEF Gone, BrowserRow

\* Sessions end, are pruned or stay: none is new.
LEMMA SessionsEnd ==
  ASSUME SignInInv, UNCHANGED <<moment, callback>>, browsers' \in [BrowserIDs -> BrowserRow],
         challenges' \in [LoginStates -> ChallengeRow],
         \A b \in BrowserIDs : /\ browsers'[b].login = browsers[b].login
                               /\ browsers'[b].is = "live" => browsers'[b] = browsers[b],
         \A s \in LoginStates : challenges'[s].is # "gone" => challenges[s].is # "gone"
  PROVE  SignInInv'
<1>1. SignInTypeOK'
  BY DEF SignInInv, SignInTypeOK
<1>2. LoginsHold'
  BY DEF SignInInv, LoginsHold
<1>3. AdmittedHold'
  BY DEF SignInInv, AdmittedHold
<1> QED
  BY <1>1, <1>2, <1>3 DEF SignInInv

LEMMA HandleLoginKeeps ==
  ASSUME SignInInv, NEW s \in LoginStates, HandleLogin(s)
  PROVE  SignInInv'
<1>1. /\ moment \in Nat /\ challenges \in [LoginStates -> ChallengeRow] /\ browsers \in [BrowserIDs -> BrowserRow]
      /\ challenges[s].is = "unused" /\ UNCHANGED <<moment, callback>>
      /\ browsers' = PrunedBrowsers
      /\ challenges' = [PrunedChallenges EXCEPT ![s] = [is |-> "open", expires |-> moment + ChallengeLife]]
  BY DEF SignInInv, SignInTypeOK, HandleLogin
<1>2. \A b \in BrowserIDs : browsers'[b] = browsers[b] \/ browsers'[b] = Gone(browsers[b])
  BY <1>1 DEF PrunedBrowsers
<1>3. /\ browsers' \in [BrowserIDs -> BrowserRow]
      /\ \A b \in BrowserIDs : /\ browsers'[b].login = browsers[b].login
                               /\ browsers'[b].is = "live" => browsers'[b] = browsers[b]
  <2>1. \A b \in BrowserIDs : browsers'[b] \in BrowserRow
    BY <1>1, <1>2, GoneIsTyped
  <2>2. browsers' = [b \in BrowserIDs |-> browsers'[b]]
    BY <1>1 DEF PrunedBrowsers
  <2> QED
    BY <1>1, <1>2, <2>1, <2>2, GoneIsTyped
<1>4. PICK row \in ChallengeRow : row = [is |-> "open", expires |-> moment + ChallengeLife]
  <2>1. moment + ChallengeLife \in Nat
    BY <1>1, SessionsAssumption
  <2>2. [is |-> "open", expires |-> moment + ChallengeLife] \in ChallengeRow
    BY <2>1 DEF ChallengeRow
  <2> QED
    BY <2>2
<1>5. PICK pruned \in [LoginStates -> ChallengeRow] :
        /\ pruned = PrunedChallenges
        /\ \A t \in LoginStates : pruned[t].is # "gone" => challenges[t].is # "gone"
  <2>1. \A t \in LoginStates :
          PrunedChallenges[t] = challenges[t] \/ PrunedChallenges[t] = [is |-> "gone", expires |-> 0]
    BY DEF PrunedChallenges
  <2>2. PrunedChallenges \in [LoginStates -> ChallengeRow]
    BY <1>1 DEF PrunedChallenges, ChallengeRow
  <2> QED
    BY <2>1, <2>2
<1>6. challenges' = [pruned EXCEPT ![s] = row]
  BY <1>1, <1>4, <1>5
<1>7. /\ challenges' \in [LoginStates -> ChallengeRow]
      /\ \A t \in LoginStates : challenges'[t].is # "gone" => challenges[t].is # "gone"
  BY <1>1, <1>5, <1>6
<1> QED
  BY <1>1, <1>3, <1>7, SessionsEnd

\* A callback takes its challenge: the challenge is gone, and the callback is the only one.
LEMMA CallbackTakesKeeps ==
  ASSUME SignInInv, NEW k \in Callbacks, NEW s \in LoginStates, CallbackTakes(k, s)
  PROVE  SignInInv'
<1>1. /\ moment \in Nat /\ challenges \in [LoginStates -> ChallengeRow] /\ callback \in [Callbacks -> CallbackRow]
      /\ callback[k].at = "idle" /\ challenges[s].is = "open" /\ UNCHANGED <<moment, browsers>>
  BY DEF SignInInv, SignInTypeOK, CallbackTakes
<1>2. /\ challenges' \in [LoginStates -> ChallengeRow] /\ challenges'[s].is = "gone"
      /\ \A t \in LoginStates \ {s} : challenges'[t] = challenges[t]
  <2>1. PICK gone \in ChallengeRow : gone = [is |-> "gone", expires |-> 0] /\ gone.is = "gone"
    <3>1. [is |-> "gone", expires |-> 0] \in ChallengeRow
      BY DEF ChallengeRow
    <3> QED
      BY <3>1
  <2>2. challenges' = [challenges EXCEPT ![s] = gone]
    BY <2>1 DEF CallbackTakes, Consume
  <2> QED
    BY <1>1, <2>1, <2>2
<1>3. PICK row \in CallbackRow :
        /\ callback' = [callback EXCEPT ![k] = row] /\ row.at # "store" /\ row.login \in {s, Nothing}
  <2>1. callback[k] \in CallbackRow
    BY <1>1
  <2> DEFINE taken == [callback[k] EXCEPT !.at = "exchange", !.login = s]
  <2>2. taken \in CallbackRow /\ taken.at = "exchange" /\ taken.login = s
    BY <2>1 DEF CallbackRow
  <2>3. callback' = [callback EXCEPT ![k] = IF moment > challenges[s].expires THEN NoCallback ELSE taken]
    BY DEF CallbackTakes
  <2> HIDE DEF taken
  <2> QED
    BY <2>2, <2>3, NoRows
<1>4. callback' \in [Callbacks -> CallbackRow] /\ callback'[k] = row /\ \A j \in Callbacks \ {k} : callback'[j] = callback[j]
  BY <1>1, <1>3
<1>5. SignInTypeOK'
  BY <1>1, <1>2, <1>4 DEF SignInInv, SignInTypeOK
<1>6. (\A b \in BrowserIDs : browsers[b].login # s) /\ (\A j \in Callbacks : callback[j].login # s)
  BY <1>1 DEF SignInInv, LoginsHold
<1>7. LoginsHold'
  BY <1>1, <1>2, <1>3, <1>4, <1>6, SessionsAssumption DEF SignInInv, LoginsHold
<1>8. AdmittedHold'
  BY <1>1, <1>3, <1>4 DEF SignInInv, AdmittedHold
<1> QED
  BY <1>5, <1>7, <1>8 DEF SignInInv

\* A callback goes on or ends, with its own login or none.
LEMMA CallbackMoves ==
  ASSUME SignInInv, NEW k \in Callbacks, NEW row \in CallbackRow, callback' = [callback EXCEPT ![k] = row],
         row.login \in {callback[k].login, Nothing}, row.at = "store" => row.who \in InGroup,
         UNCHANGED <<moment, challenges, browsers>>
  PROVE  SignInInv'
<1>1. /\ callback' \in [Callbacks -> CallbackRow] /\ callback'[k] = row
      /\ \A j \in Callbacks \ {k} : callback'[j] = callback[j]
  BY DEF SignInInv, SignInTypeOK
<1>2. LoginsHold'
  BY <1>1, SessionsAssumption DEF SignInInv, LoginsHold
<1>3. AdmittedHold'
  BY <1>1 DEF SignInInv, AdmittedHold
<1> QED
  BY <1>1, <1>2, <1>3 DEF SignInInv, SignInTypeOK

LEMMA CallbackFailsKeeps ==
  ASSUME SignInInv, NEW k \in Callbacks, CallbackFails(k)
  PROVE  SignInInv'
  BY CallbackMoves, NoRows DEF CallbackFails

LEMMA CallbackVerifiesKeeps ==
  ASSUME SignInInv, NEW k \in Callbacks, NEW p \in People, CallbackVerifies(k, p)
  PROVE  SignInInv'
<1>1. moment \in Nat /\ callback[k] \in CallbackRow /\ UNCHANGED <<moment, challenges, browsers>>
  BY DEF SignInInv, SignInTypeOK, CallbackVerifies
<1>2. CASE p \in InGroup
  <2>1. PICK until \in Nat : until = moment + IdentityLife
    BY <1>1, SessionsAssumption
  <2> DEFINE row == [callback[k] EXCEPT !.at = "store", !.who = p, !.until = until]
  <2>2. row \in CallbackRow
    BY <1>1 DEF CallbackRow, Actors
  <2>3. row.login = callback[k].login /\ row.who = p
    BY <1>1 DEF CallbackRow
  <2>4. callback' = [callback EXCEPT ![k] = row]
    BY <1>2, <2>1 DEF CallbackVerifies
  <2> HIDE DEF row
  <2> QED
    BY <1>1, <1>2, <2>2, <2>3, <2>4, CallbackMoves
<1>3. CASE p \notin InGroup
  BY <1>1, <1>3, CallbackMoves, NoRows DEF CallbackVerifies
<1> QED
  BY <1>2, <1>3

\* The callback becomes a session: the login passes from the one to the other.
LEMMA CallbackStoresKeeps ==
  ASSUME SignInInv, NEW k \in Callbacks, NEW b \in BrowserIDs, CallbackStores(k, b)
  PROVE  SignInInv'
<1>1. /\ moment \in Nat /\ callback \in [Callbacks -> CallbackRow] /\ browsers \in [BrowserIDs -> BrowserRow]
      /\ callback[k] \in CallbackRow /\ callback[k].who \in InGroup /\ UNCHANGED <<moment, challenges>>
  BY DEF SignInInv, SignInTypeOK, AdmittedHold, CallbackStores
<1>2. callback[k].until \in Nat
  BY <1>1 DEF CallbackRow
<1>3. PICK expires \in Nat : expires = Earlier(callback[k].until, moment + SessionLife)
  BY <1>1, <1>2, SessionsAssumption DEF Earlier
<1> DEFINE row == [NoBrowser EXCEPT !.is = "live", !.who = callback[k].who, !.until = callback[k].until,
                                    !.expires = expires, !.login = callback[k].login]
<1>4. row \in BrowserRow
  BY <1>1, NoRows DEF BrowserRow, CallbackRow
<1>5. row.login = callback[k].login /\ row.who = callback[k].who /\ row.out = FALSE
  BY NoRows DEF BrowserRow
<1>6. browsers' = [browsers EXCEPT ![b] = row] /\ callback' = [callback EXCEPT ![k] = NoCallback]
  BY <1>3 DEF CallbackStores
<1> HIDE DEF row
<1>7. /\ browsers' \in [BrowserIDs -> BrowserRow] /\ browsers'[b] = row
      /\ \A a \in BrowserIDs \ {b} : browsers'[a] = browsers[a]
  BY <1>1, <1>4, <1>6
<1>8. /\ callback' \in [Callbacks -> CallbackRow] /\ callback'[k] = NoCallback
      /\ \A j \in Callbacks \ {k} : callback'[j] = callback[j]
  BY <1>1, <1>6, NoRows
<1>9. SignInTypeOK'
  BY <1>1, <1>7, <1>8 DEF SignInInv, SignInTypeOK
<1>10. LoginsHold'
  <2>1. /\ \A a \in BrowserIDs : browsers[a].login = callback[k].login => browsers[a].login = Nothing
        /\ \A j \in Callbacks : callback[j].login = callback[k].login /\ callback[j].login # Nothing => j = k
        /\ \A s \in LoginStates : callback[k].login = s => challenges[s].is = "gone"
    BY DEF SignInInv, LoginsHold
  <2>2. \A s \in LoginStates : challenges'[s].is # "gone" =>
          (\A a \in BrowserIDs : browsers'[a].login # s) /\ (\A j \in Callbacks : callback'[j].login # s)
    BY <1>1, <1>5, <1>7, <1>8, <2>1, NoRows, SessionsAssumption DEF SignInInv, LoginsHold
  <2>3. \A a, d \in BrowserIDs : browsers'[a].login = browsers'[d].login /\ browsers'[a].login # Nothing => a = d
    BY <1>5, <1>7, <2>1 DEF SignInInv, LoginsHold
  <2>4. \A i, j \in Callbacks : callback'[i].login = callback'[j].login /\ callback'[i].login # Nothing => i = j
    BY <1>8, NoRows DEF SignInInv, LoginsHold
  <2>5. \A a \in BrowserIDs, j \in Callbacks : browsers'[a].login = callback'[j].login => browsers'[a].login = Nothing
    BY <1>5, <1>7, <1>8, <2>1, NoRows DEF SignInInv, LoginsHold
  <2> QED
    BY <2>2, <2>3, <2>4, <2>5 DEF LoginsHold
<1>11. AdmittedHold'
  BY <1>1, <1>5, <1>7, <1>8, NoRows DEF SignInInv, AdmittedHold
<1> QED
  BY <1>9, <1>10, <1>11 DEF SignInInv

\* A session that ends keeps its login.
LEMMA SessionGone ==
  ASSUME SignInInv, NEW b \in BrowserIDs, NEW row \in BrowserRow, row.is = "gone", row.login = browsers[b].login,
         browsers' = [browsers EXCEPT ![b] = row], UNCHANGED <<moment, challenges, callback>>
  PROVE  SignInInv'
<1>1. /\ browsers' \in [BrowserIDs -> BrowserRow] /\ browsers'[b] = row
      /\ \A a \in BrowserIDs \ {b} : browsers'[a] = browsers[a]
  BY DEF SignInInv, SignInTypeOK
<1> QED
  BY <1>1, SessionsEnd DEF SignInInv, SignInTypeOK

LEMMA HandleLogoutKeeps ==
  ASSUME SignInInv, NEW b \in BrowserIDs, HandleLogout(b)
  PROVE  SignInInv'
<1>1. PICK gone \in BrowserRow : gone = Gone(browsers[b]) /\ gone.is = "gone" /\ gone.login = browsers[b].login
  BY GoneIsTyped DEF SignInInv, SignInTypeOK
<1> DEFINE row == [gone EXCEPT !.out = TRUE]
<1>2. row \in BrowserRow
  BY DEF BrowserRow
<1>3. row.is = "gone" /\ row.login = browsers[b].login
  BY <1>1 DEF BrowserRow
<1>4. browsers' = [browsers EXCEPT ![b] = row] /\ UNCHANGED <<moment, challenges, callback>>
  BY <1>1 DEF HandleLogout, SignsOut, signIn
<1> HIDE DEF row
<1> QED
  BY <1>2, <1>3, <1>4, SessionGone

-----------------------------------------------------------------------------
(* Chat requests. *)

\* What a step may do to the chat sessions while a request moves: none is unused again or changes
\* its owner, and what a request asks for is touched by that request alone.
ChatsKept(c) ==
  \A i \in Chats :
    /\ chats[i].is # "unused" => chats'[i].is # "unused" /\ chats'[i].actor = chats[i].actor
    /\ \/ chats'[i].turns = chats[i].turns /\ chats'[i].holder = chats[i].holder
       \/ chats[i].holder \in {Nothing, c} \/ chats[i].is = "unused"

LEMMA ChatterMoves ==
  ASSUME TalkInv, NEW c \in Chatters, NEW row \in ChatterRow, chatter' = [chatter EXCEPT ![c] = row],
         ChatterHolds(c, row)', chats' \in [Chats -> ChatRow], ChatsKept(c), ConversationIsWhole'
  PROVE  TalkInv'
<1>1. /\ chatter' \in [Chatters -> ChatterRow] /\ chatter'[c] = row
      /\ \A d \in Chatters \ {c} : chatter'[d] = chatter[d]
  BY DEF TalkInv, TalkTypeOK
<1>2. ASSUME NEW d \in Chatters \ {c} PROVE ChatterHolds(d, chatter[d])'
  <2>1. PICK q \in ChatterRow : q = chatter[d] /\ q = chatter'[d] /\ ChatterHolds(d, q)
    BY <1>1 DEF TalkInv, TalkTypeOK
  <2>2. q.at # "idle" /\ q.op # "create" => chats'[q.chat].is # "unused" /\ chats'[q.chat].actor = chats[q.chat].actor
    BY <2>1 DEF ChatterHolds, ChatsKept
  <2>3. q.at = "asked" => chats'[q.chat].turns = chats[q.chat].turns /\ chats'[q.chat].holder = chats[q.chat].holder
    BY <2>1, SessionsAssumption DEF ChatterHolds, ChatsKept
  <2>4. ChatterHolds(d, q)'
    BY <2>1, <2>2, <2>3 DEF ChatterHolds
  <2> QED
    BY <2>1, <2>4
<1>3. ChatterHolds(c, chatter[c])'
  BY <1>1
<1> QED
  BY <1>1, <1>2, <1>3 DEF TalkInv, TalkTypeOK

\* The chat sessions stay as they are.
LEMMA ChatterGoes ==
  ASSUME TalkInv, NEW c \in Chatters, NEW row \in ChatterRow, chatter' = [chatter EXCEPT ![c] = row],
         ChatterHolds(c, row), UNCHANGED chats
  PROVE  TalkInv'
<1>1. ChatterHolds(c, row)'
  BY DEF ChatterHolds
<1>2. ChatsKept(c) /\ ConversationIsWhole'
  BY DEF ChatsKept, TalkInv, ConversationIsWhole
<1> QED
  BY <1>1, <1>2, ChatterMoves DEF TalkInv, TalkTypeOK

LEMMA ChatterEndsKeeps ==
  ASSUME TalkInv, NEW c \in Chatters, ChatterEnds(c), UNCHANGED chats
  PROVE  TalkInv'
<1>1. ChatterHolds(c, NoChatter)
  BY NoRows DEF ChatterHolds
<1> QED
  BY <1>1, NoRows, ChatterGoes DEF ChatterEnds

LEMMA TalkKept ==
  ASSUME TalkInv, UNCHANGED <<chatter, chats>>
  PROVE  TalkInv'
  BY DEF TalkInv, TalkTypeOK, ChatterHolds, ConversationIsWhole

\* A request comes: a copy of a live session was not signed out.
LEMMA RequestComesKeeps ==
  ASSUME SessionsInv, NEW c \in Chatters, NEW op \in {"create", "send", "close"}, NEW i \in Chats,
         NEW cookie \in BrowserIDs \cup {Nothing}, NEW bearer \in Bearers \cup {Nothing},
         RequestComes(c, op, i, cookie, bearer)
  PROVE  TalkInv'
<1> DEFINE late == cookie # Nothing /\ browsers[cookie].out
           read == IF cookie # Nothing /\ browsers[cookie].is = "live" THEN browsers[cookie] ELSE NoBrowser
<1>1. TalkInv /\ browsers \in [BrowserIDs -> BrowserRow] /\ UNCHANGED chats
  BY DEF SessionsInv, SignInInv, SignInTypeOK, RequestComes
<1>2. read \in BrowserRow
  BY <1>1, NoRows
<1>3. cookie # Nothing => browsers[cookie].out \in BOOLEAN
  BY <1>1 DEF BrowserRow
<1>4. late \in BOOLEAN
  BY <1>3
<1>5. read.is = "live" => ~late
  BY NoRows DEF SessionsInv, SignInInv, AdmittedHold
<1>6. bearer \in Actors
  BY SessionsAssumption DEF Actors
<1>7. op # "create" => chats[i].is # "unused"
  BY DEF RequestComes
<1>8. chatter' = [chatter EXCEPT ![c] = [NoChatter EXCEPT !.at = "check", !.op = op, !.chat = i, !.cookie = cookie,
                                                          !.bearer = bearer, !.late = late, !.read = read]]
  BY DEF RequestComes
<1> HIDE DEF late, read
<1> DEFINE row == [NoChatter EXCEPT !.at = "check", !.op = op, !.chat = i, !.cookie = cookie,
                                    !.bearer = bearer, !.late = late, !.read = read]
<1>9. row \in ChatterRow
  BY <1>2, <1>4, <1>6, NoRows DEF ChatterRow
<1>10. row.at = "check" /\ row.op = op /\ row.chat = i /\ row.late = late /\ row.read = read
  BY NoRows DEF ChatterRow
<1>11. chatter' = [chatter EXCEPT ![c] = row]
  BY <1>8
<1> HIDE DEF row
<1>12. ChatterHolds(c, row)
  BY <1>5, <1>7, <1>10 DEF ChatterHolds
<1>13. PICK q \in ChatterRow : q = row
  BY <1>9
<1> QED
  BY <1>1, <1>11, <1>12, <1>13, ChatterGoes

\* What is known of a request that is under way.
LEMMA ChatterFacts ==
  ASSUME TalkInv, NEW c \in Chatters
  PROVE  chatter[c] \in ChatterRow /\ chatter \in [Chatters -> ChatterRow] /\ ChatterHolds(c, chatter[c])
  BY DEF TalkInv, TalkTypeOK

LEMMA AdmitKeeps ==
  ASSUME TalkInv, NEW c \in Chatters, NEW actor \in Actors, NEW cookie \in BrowserIDs \cup {Nothing},
         chatter[c].at = "check", cookie # Nothing => ~chatter[c].late, Admit(c, actor, cookie), UNCHANGED chats
  PROVE  TalkInv'
<1>1. PICK q \in ChatterRow : q = chatter[c] /\ ChatterHolds(c, q)
  BY ChatterFacts
<1>2. q.late \in BOOLEAN
  BY DEF ChatterRow
<1>3. PICK late \in BOOLEAN : late = (q.late /\ cookie # Nothing)
  BY <1>2
<1> DEFINE row == [q EXCEPT !.at = "admitted", !.actor = actor, !.read = NoBrowser, !.bearer = Nothing,
                            !.cookie = cookie, !.late = late]
<1>4. row \in ChatterRow
  BY NoRows DEF ChatterRow, Actors
<1>5. /\ row.at = "admitted" /\ row.op = q.op /\ row.chat = q.chat /\ row.late = late /\ row.cookie = cookie
  BY DEF ChatterRow
<1>6. chatter' = [chatter EXCEPT ![c] = row]
  <2>1. chatter' = [chatter EXCEPT ![c].at = "admitted", ![c].actor = actor, ![c].read = NoBrowser, ![c].bearer = Nothing,
                                   ![c].cookie = cookie, ![c].late = late]
    BY <1>1, <1>3, ChatterFacts DEF Admit
  <2> QED
    BY <1>1, <2>1, ChatterFacts
<1> HIDE DEF row
<1>7. ChatterHolds(c, row)
  BY <1>1, <1>3, <1>5 DEF ChatterHolds
<1>8. PICK r \in ChatterRow : r = row
  BY <1>4
<1> QED
  BY <1>6, <1>7, <1>8, ChatterGoes

LEMMA SessionAdmitsKeeps ==
  ASSUME TalkInv, NEW c \in Chatters, SessionAdmits(c)
  PROVE  TalkInv'
<1>1. PICK q \in ChatterRow : q = chatter[c] /\ ChatterHolds(c, q)
  BY ChatterFacts
<1>2. q.at = "check" /\ q.read.is = "live" /\ Admit(c, q.read.who, q.cookie) /\ UNCHANGED chats
  BY <1>1 DEF SessionAdmits
<1>3. q.read.who \in Actors /\ q.cookie \in BrowserIDs \cup {Nothing} /\ ~q.late
  BY <1>1, <1>2 DEF ChatterRow, BrowserRow, ChatterHolds
<1> QED
  BY <1>1, <1>2, <1>3, AdmitKeeps

LEMMA BearerAdmitsKeeps ==
  ASSUME TalkInv, NEW c \in Chatters, BearerAdmits(c)
  PROVE  TalkInv'
<1>1. chatter[c].bearer \in Actors
  BY ChatterFacts DEF ChatterRow
<1> QED
  BY <1>1, AdmitKeeps DEF BearerAdmits

LEMMA SessionExpiredKeeps ==
  ASSUME TalkInv, NEW c \in Chatters, SessionExpired(c)
  PROVE  TalkInv'
<1>1. PICK q \in ChatterRow : q = chatter[c] /\ ChatterHolds(c, q) /\ q.at = "check"
  BY ChatterFacts DEF SessionExpired
<1> DEFINE row == [q EXCEPT !.read = NoBrowser, !.cookie = Nothing, !.late = FALSE]
<1>2. row \in ChatterRow
  BY NoRows DEF ChatterRow
<1>3. row.at = "check" /\ row.op = q.op /\ row.chat = q.chat /\ row.late = FALSE
  BY <1>1 DEF ChatterRow
<1>4. chatter' = [chatter EXCEPT ![c] = row] /\ UNCHANGED chats
  <2>1. chatter' = [chatter EXCEPT ![c].read = NoBrowser, ![c].cookie = Nothing, ![c].late = FALSE]
    BY DEF SessionExpired
  <2> QED
    BY <1>1, <2>1, ChatterFacts DEF SessionExpired
<1> HIDE DEF row
<1>5. ChatterHolds(c, row)
  BY <1>1, <1>3 DEF ChatterHolds
<1>6. PICK r \in ChatterRow : r = row
  BY <1>2
<1> QED
  BY <1>4, <1>5, <1>6, ChatterGoes

\* A request that was let in goes on to a chat session.
LEMMA ChatterAtKeeps ==
  ASSUME TalkInv, NEW c \in Chatters, NEW at \in {"authorize", "send", "close"}, ChatterAt(c, at),
         chatter[c].at \in {"admitted", "authorize"}, chatter[c].op # "create",
         at = "send" => chats[chatter[c].chat].actor = chatter[c].actor, UNCHANGED chats
  PROVE  TalkInv'
<1>1. PICK q \in ChatterRow : q = chatter[c] /\ ChatterHolds(c, q)
  BY ChatterFacts
<1> DEFINE row == [q EXCEPT !.at = at, !.cookie = Nothing, !.late = FALSE]
<1>2. row \in ChatterRow
  BY DEF ChatterRow
<1>3. row.at = at /\ row.op = q.op /\ row.chat = q.chat /\ row.actor = q.actor /\ row.late = FALSE
  BY DEF ChatterRow
<1>4. chatter' = [chatter EXCEPT ![c] = row]
  <2>1. chatter' = [chatter EXCEPT ![c].at = at, ![c].cookie = Nothing, ![c].late = FALSE]
    BY DEF ChatterAt
  <2> QED
    BY <1>1, <2>1, ChatterFacts
<1> HIDE DEF row
<1>5. ChatterHolds(c, row)
  BY <1>1, <1>3 DEF ChatterHolds
<1>6. PICK r \in ChatterRow : r = row
  BY <1>2
<1> QED
  BY <1>4, <1>5, <1>6, ChatterGoes

LEMMA ChatFoundKeeps ==
  ASSUME TalkInv, NEW c \in Chatters, ChatFound(c)
  PROVE  TalkInv'
  BY ChatterAtKeeps, ChatterEndsKeeps DEF ChatFound

LEMMA ChatAuthorizedKeeps ==
  ASSUME TalkInv, NEW c \in Chatters, ChatAuthorized(c)
  PROVE  TalkInv'
<1>1. chatter[c].op \in {"send", "close"} /\ chatter[c].at = "authorize" /\ UNCHANGED chats
  BY ChatterFacts DEF ChatAuthorized, ChatterHolds, ChatterRow
<1>2. CASE ChatterAt(c, chatter[c].op) /\ chats[chatter[c].chat].actor = chatter[c].actor
  BY <1>1, <1>2, ChatterAtKeeps
<1>3. CASE ChatterEnds(c)
  BY <1>1, <1>3, ChatterEndsKeeps
<1> QED
  BY <1>2, <1>3 DEF ChatAuthorized

LEMMA RequestRefusedKeeps ==
  ASSUME TalkInv, NEW c \in Chatters, RequestRefused(c)
  PROVE  TalkInv'
  BY ChatterEndsKeeps DEF RequestRefused

-----------------------------------------------------------------------------
(* Chat sessions. *)

\* ConversationIsWhole, of one session's owner and turns.
WholeTurns(actor, turns) ==
  /\ Len(turns) <= MaxTurns
  /\ \A n \in DOMAIN turns :
       /\ turns[n].by = actor
       /\ turns[n].prompt = [m \in 1..(Earlier(n - 1, Remembered) + 1) |->
                               turns[n - 1 - Earlier(n - 1, Remembered) + m].asked]

\* One session changes.
LEMMA ConversationKeeps ==
  ASSUME TalkInv, NEW i \in Chats, NEW row \in ChatRow, chats' = [chats EXCEPT ![i] = row],
         WholeTurns(row.actor, row.turns)
  PROVE  /\ chats' \in [Chats -> ChatRow] /\ ConversationIsWhole'
         /\ chats'[i] = row /\ \A j \in Chats \ {i} : chats'[j] = chats[j]
<1>1. /\ chats' \in [Chats -> ChatRow]
      /\ chats'[i] = row /\ \A j \in Chats \ {i} : chats'[j] = chats[j]
  BY DEF TalkInv, TalkTypeOK
<1>2. \A j \in Chats : WholeTurns(chats[j].actor, chats[j].turns)
  BY DEF TalkInv, ConversationIsWhole, WholeTurns
<1>3. \A j \in Chats : WholeTurns(chats'[j].actor, chats'[j].turns)
  BY <1>1, <1>2
<1>4. ConversationIsWhole'
  BY <1>3 DEF ConversationIsWhole, WholeTurns
<1> QED
  BY <1>1, <1>4

\* The last step of a request changes one session, which is new or which nobody else holds.
LEMMA ChatChanges ==
  ASSUME TalkInv, NEW c \in Chatters, NEW i \in Chats, NEW row \in ChatRow, chats' = [chats EXCEPT ![i] = row],
         WholeTurns(row.actor, row.turns), ChatterEnds(c),
         \/ chats[i].is = "unused"
         \/ /\ row.is # "unused" /\ row.actor = chats[i].actor
            /\ \/ row.turns = chats[i].turns /\ row.holder = chats[i].holder
               \/ chats[i].holder = c
  PROVE  TalkInv'
<1>1. /\ chats' \in [Chats -> ChatRow] /\ ConversationIsWhole'
      /\ chats'[i] = row /\ \A j \in Chats \ {i} : chats'[j] = chats[j]
  BY ConversationKeeps
<1>2. ChatsKept(c)
  BY <1>1 DEF ChatsKept
<1>3. ChatterHolds(c, NoChatter)'
  BY NoRows DEF ChatterHolds
<1> QED
  BY <1>1, <1>2, <1>3, NoRows, ChatterMoves DEF ChatterEnds

LEMMA ChatCreateKeeps ==
  ASSUME SessionsInv, NEW c \in Chatters, ChatCreate(c)
  PROVE  TalkInv'
<1>1. PICK i \in Chats : i = chatter[c].chat
  BY ChatterFacts DEF ChatCreate, SessionsInv, ChatterHolds
<1>2. PICK expires \in Nat : expires = moment + ChatLife
  BY SessionsAssumption DEF SessionsInv, SignInInv, SignInTypeOK
<1>3. PICK actor \in Actors : actor = chatter[c].actor
  BY ChatterFacts DEF SessionsInv, ChatterRow
<1> DEFINE row == [NoChat EXCEPT !.is = "open", !.actor = actor, !.expires = expires]
<1>4. row \in ChatRow
  BY NoRows DEF ChatRow
<1>5. row.turns = <<>>
  BY NoRows DEF ChatRow
<1>6. chats' = [chats EXCEPT ![i] = row] /\ chats[i].is = "unused" /\ ChatterEnds(c)
  BY <1>1, <1>2, <1>3 DEF ChatCreate
<1> HIDE DEF row
<1>7. PICK r \in ChatRow : r = row
  BY <1>4
<1>8. WholeTurns(r.actor, r.turns)
  BY <1>5, <1>7, SessionsAssumption DEF WholeTurns
<1> QED
  BY <1>6, <1>7, <1>8, ChatChanges DEF SessionsInv

\* What is known of the session a request is at.
LEMMA ChatFacts ==
  ASSUME TalkInv, NEW c \in Chatters, chatter[c].at \in {"send", "close", "asked"}
  PROVE  /\ chatter[c].chat \in Chats /\ chats[chatter[c].chat] \in ChatRow
         /\ chats[chatter[c].chat].is # "unused"
         /\ WholeTurns(chats[chatter[c].chat].actor, chats[chatter[c].chat].turns)
<1>1. chatter[c].chat \in Chats /\ chats[chatter[c].chat].is # "unused"
  BY ChatterFacts DEF ChatterHolds
<1> QED
  BY <1>1 DEF TalkInv, TalkTypeOK, ConversationIsWhole, WholeTurns

LEMMA ChatCloseKeeps ==
  ASSUME TalkInv, NEW c \in Chatters, ChatClose(c)
  PROVE  TalkInv'
<1>1. PICK i \in Chats : i = chatter[c].chat /\ chats[i].is # "unused" /\ chats[i] \in ChatRow
                         /\ WholeTurns(chats[i].actor, chats[i].turns)
  BY ChatFacts DEF ChatClose
<1> DEFINE row == [chats[i] EXCEPT !.is = "closed"]
<1>2. row \in ChatRow
  BY <1>1 DEF ChatRow
<1>3. row.is = "closed" /\ row.actor = chats[i].actor /\ row.turns = chats[i].turns /\ row.holder = chats[i].holder
  BY <1>1 DEF ChatRow
<1>4. chats' = [chats EXCEPT ![i] = row] /\ ChatterEnds(c)
  BY <1>1 DEF ChatClose
<1> HIDE DEF row
<1>5. PICK r \in ChatRow : r = row
  BY <1>2
<1>6. WholeTurns(r.actor, r.turns)
  BY <1>1, <1>3, <1>5
<1> QED
  BY <1>3, <1>4, <1>5, <1>6, ChatChanges

LEMMA ChatUnansweredKeeps ==
  ASSUME TalkInv, NEW c \in Chatters, ChatUnanswered(c)
  PROVE  TalkInv'
<1>1. PICK i \in Chats : i = chatter[c].chat /\ chats[i].is # "unused" /\ chats[i] \in ChatRow
                         /\ WholeTurns(chats[i].actor, chats[i].turns)
  BY ChatFacts DEF ChatUnanswered
<1> DEFINE row == [chats[i] EXCEPT !.holder = Nothing]
<1>2. row \in ChatRow
  BY <1>1 DEF ChatRow
<1>3. row.is = chats[i].is /\ row.actor = chats[i].actor /\ row.turns = chats[i].turns
  BY <1>1 DEF ChatRow
<1>4. chats' = [chats EXCEPT ![i] = row] /\ ChatterEnds(c)
  BY <1>1 DEF ChatUnanswered
<1> HIDE DEF row
<1>5. PICK r \in ChatRow : r = row
  BY <1>2
<1>6. WholeTurns(r.actor, r.turns)
  BY <1>1, <1>3, <1>5
<1>7. chats[i].holder = c
  BY <1>1, ChatterFacts DEF ChatUnanswered, ChatterHolds
<1> QED
  BY <1>1, <1>3, <1>4, <1>5, <1>6, <1>7, ChatChanges

\* What a question is asked with: the turns kept, and the question.
LEMMA PromptIs ==
  ASSUME NEW turns \in Seq(Turn), NEW c \in Chatters
  PROVE  LET kept == Earlier(Len(turns), Remembered)
         IN  /\ kept \in 0..Len(turns)
             /\ Prompt(turns, c) \in Seq(Chatters)
             /\ Prompt(turns, c) =
                  [m \in 1..(kept + 1) |-> IF m = kept + 1 THEN c ELSE turns[Len(turns) - kept + m].asked]
<1> DEFINE kept == Earlier(Len(turns), Remembered)
           old == [n \in 1..kept |-> turns[Len(turns) - kept + n].asked]
<1>1. Len(turns) \in Nat /\ kept \in Nat /\ kept <= Len(turns)
  BY SessionsAssumption DEF Earlier
<1>2. \A n \in 1..kept : turns[Len(turns) - kept + n] \in Turn
  <2>1. \A n \in 1..kept : Len(turns) - kept + n \in 1..Len(turns)
    BY <1>1
  <2> QED
    BY <2>1
<1>3. \A n \in 1..kept : turns[Len(turns) - kept + n].asked \in Chatters
  BY <1>2 DEF Turn
<1>4. Prompt(turns, c) = Append(old, c)
  <2> DEFINE from == IF Len(turns) > Remembered THEN Len(turns) - Remembered + 1 ELSE 1
  <2>1. Len(turns) - from + 1 = kept /\ \A n \in 1..kept : from + n - 1 = Len(turns) - kept + n
    BY SessionsAssumption DEF Earlier
  <2>2. [n \in 1..(Len(turns) - from + 1) |-> turns[from + n - 1].asked] = old
    BY <2>1
  <2> HIDE DEF old
  <2> QED
    BY <2>2 DEF Prompt
<1>5. old \in Seq(Chatters) /\ Len(old) = kept
  <2> HIDE DEF kept
  <2>1. old \in [1..kept -> Chatters]
    BY <1>3
  <2> HIDE DEF old
  <2>2. old \in Seq(Chatters)
    BY <1>1, <2>1, SeqDef
  <2>3. 1..kept = 1..Len(old) /\ Len(old) \in Nat
    BY <2>1, <2>2, LenProperties
  <2> QED
    BY <1>1, <2>2, <2>3
<1>6. Append(old, c) = [m \in 1..(kept + 1) |-> IF m = kept + 1 THEN c ELSE turns[Len(turns) - kept + m].asked]
  <2>1. Append(old, c) = [m \in 1..(kept + 1) |-> IF m = kept + 1 THEN c ELSE old[m]]
    <3> HIDE DEF old, kept
    <3>1. /\ Append(old, c) \in Seq(Chatters) /\ Len(Append(old, c)) = kept + 1
          /\ \A m \in 1..kept : Append(old, c)[m] = old[m]
          /\ Append(old, c)[kept + 1] = c
      BY <1>5, AppendProperties
    <3>2. Append(old, c) \in [1..(kept + 1) -> Chatters]
      BY <3>1, LenProperties
    <3>3. \A m \in 1..(kept + 1) : m # kept + 1 => m \in 1..kept
      BY <1>1
    <3> QED
      BY <3>1, <3>2, <3>3
  <2>2. \A m \in 1..(kept + 1) : m # kept + 1 => old[m] = turns[Len(turns) - kept + m].asked
    <3> HIDE DEF kept
    <3> QED
      BY <1>1
  <2> QED
    BY <2>1, <2>2
<1>7. Append(old, c) \in Seq(Chatters)
  <2> HIDE DEF old, kept
  <2> QED
    BY <1>5
<1> QED
  BY <1>1, <1>4, <1>6, <1>7

\* The question takes the session's lock and is asked with the history as it is.
LEMMA ChatSendKeeps ==
  ASSUME TalkInv, NEW c \in Chatters, ChatSend(c)
  PROVE  TalkInv'
<1>1. PICK i \in Chats : i = chatter[c].chat /\ chats[i].is # "unused" /\ chats[i] \in ChatRow
                         /\ WholeTurns(chats[i].actor, chats[i].turns)
  BY ChatFacts DEF ChatSend
<1>2. PICK q \in ChatterRow : q = chatter[c] /\ ChatterHolds(c, q) /\ q.at = "send" /\ q.chat = i
  BY <1>1, ChatterFacts DEF ChatSend
<1>3. CASE ChatAlive(i) /\ Len(chats[i].turns) < MaxTurns
  <2>1. PICK prompt \in Seq(Chatters) : prompt = Prompt(chats[i].turns, c)
    BY <1>1, PromptIs DEF ChatRow
  <2> DEFINE row == [q EXCEPT !.at = "asked", !.prompt = prompt]
             chat == [chats[i] EXCEPT !.holder = c]
  <2>2. row \in ChatterRow
    BY DEF ChatterRow
  <2>3. row.at = "asked" /\ row.op = q.op /\ row.chat = i /\ row.actor = q.actor /\ row.prompt = prompt
    BY <1>2 DEF ChatterRow
  <2>4. chat \in ChatRow
    BY <1>1 DEF ChatRow
  <2>5. /\ chat.is = chats[i].is /\ chat.actor = chats[i].actor /\ chat.turns = chats[i].turns /\ chat.holder = c
    BY <1>1 DEF ChatRow
  <2>6. chats' = [chats EXCEPT ![i] = chat] /\ chats[i].holder = Nothing
    BY <1>1, <1>3 DEF ChatSend, Holds
  <2>7. chatter' = [chatter EXCEPT ![c] = row]
    <3>1. chatter' = [chatter EXCEPT ![c].at = "asked", ![c].prompt = prompt]
      BY <1>1, <1>3, <2>1 DEF ChatSend
    <3> QED
      BY <1>2, <3>1, ChatterFacts
  <2> HIDE DEF row, chat
  <2>8. PICK h \in ChatRow : h = chat
    BY <2>4
  <2>9. /\ chats' \in [Chats -> ChatRow] /\ ConversationIsWhole'
        /\ chats'[i] = chat /\ \A j \in Chats \ {i} : chats'[j] = chats[j]
    BY <1>1, <2>5, <2>6, <2>8, ConversationKeeps
  <2>10. ChatsKept(c)
    BY <1>1, <2>5, <2>6, <2>9 DEF ChatsKept
  <2>11. PICK r \in ChatterRow : r = row
    BY <2>2
  <2>12. ChatterHolds(c, r)'
    <3>1. r.at = "asked" /\ r.op \in {"send", "close"} /\ r.chat = i /\ r.actor = chats[i].actor /\ r.prompt = prompt
      BY <1>2, <2>3, <2>11 DEF ChatterHolds, ChatterRow
    <3> QED
      BY <1>1, <1>3, <2>1, <2>5, <2>9, <3>1 DEF ChatterHolds
  <2> QED
    BY <2>7, <2>9, <2>10, <2>11, <2>12, ChatterMoves
<1>4. CASE ~(ChatAlive(i) /\ Len(chats[i].turns) < MaxTurns)
  BY <1>1, <1>4, ChatterEndsKeeps DEF ChatSend
<1> QED
  BY <1>3, <1>4

\* A turn that was asked with all that came before it joins the history.
LEMMA TurnJoins ==
  ASSUME NEW actor, NEW turns \in Seq(Turn), NEW c \in Chatters, NEW turn \in Turn, WholeTurns(actor, turns),
         Len(turns) < MaxTurns, turn.asked = c, turn.by = actor, turn.prompt = Prompt(turns, c)
  PROVE  Append(turns, turn) \in Seq(Turn) /\ WholeTurns(actor, Append(turns, turn))
<1>1. PICK new \in Seq(Turn) : /\ new = Append(turns, turn) /\ Len(new) = Len(turns) + 1
                               /\ \A n \in 1..Len(turns) : new[n] = turns[n]
                               /\ new[Len(turns) + 1] = turn
  BY AppendProperties
<1>2. Len(turns) \in Nat /\ MaxTurns \in Nat /\ DOMAIN turns = 1..Len(turns) /\ DOMAIN new = 1..(Len(turns) + 1)
  BY <1>1, SessionsAssumption
<1>3. ASSUME NEW n \in 1..Len(turns)
      PROVE  /\ new[n].by = actor
             /\ new[n].prompt = [m \in 1..(Earlier(n - 1, Remembered) + 1) |->
                                   new[n - 1 - Earlier(n - 1, Remembered) + m].asked]
  <2> DEFINE kept == Earlier(n - 1, Remembered)
  <2>1. kept \in Nat /\ kept <= n - 1
    <3>1. Remembered \in Nat
      BY SessionsAssumption
    <3>2. n - 1 \in Nat
      BY <1>2
    <3> QED
      BY <3>1, <3>2 DEF Earlier
  <2>2. turns[n].by = actor /\ turns[n].prompt = [m \in 1..(kept + 1) |-> turns[n - 1 - kept + m].asked]
    BY <1>2 DEF WholeTurns
  <2> HIDE DEF kept
  <2>3. \A m \in 1..(kept + 1) : n - 1 - kept + m \in 1..Len(turns)
    BY <1>2, <2>1
  <2>4. [m \in 1..(kept + 1) |-> turns[n - 1 - kept + m].asked] = [m \in 1..(kept + 1) |-> new[n - 1 - kept + m].asked]
    BY <1>1, <2>3
  <2> QED
    BY <1>1, <2>2, <2>4 DEF kept
<1>4. /\ turn.by = actor
      /\ turn.prompt = [m \in 1..(Earlier(Len(turns), Remembered) + 1) |->
                          new[Len(turns) - Earlier(Len(turns), Remembered) + m].asked]
  <2> DEFINE kept == Earlier(Len(turns), Remembered)
  <2>1. /\ kept \in 0..Len(turns)
        /\ Prompt(turns, c) =
             [m \in 1..(kept + 1) |-> IF m = kept + 1 THEN c ELSE turns[Len(turns) - kept + m].asked]
    BY PromptIs
  <2> HIDE DEF kept
  <2>2. \A m \in 1..(kept + 1) :
          (IF m = kept + 1 THEN c ELSE turns[Len(turns) - kept + m].asked) = new[Len(turns) - kept + m].asked
    <3>1. \A m \in 1..(kept + 1) : m # kept + 1 => Len(turns) - kept + m \in 1..Len(turns)
      BY <1>2, <2>1
    <3>2. Len(turns) - kept + (kept + 1) = Len(turns) + 1
      BY <1>2, <2>1
    <3> QED
      BY <1>1, <3>1, <3>2
  <2> QED
    BY <2>1, <2>2 DEF kept
<1>5. ASSUME NEW n \in 1..(Len(turns) + 1), n \notin 1..Len(turns)
      PROVE  /\ new[n].by = actor
             /\ new[n].prompt = [m \in 1..(Earlier(n - 1, Remembered) + 1) |->
                                   new[n - 1 - Earlier(n - 1, Remembered) + m].asked]
  <2>1. n = Len(turns) + 1 /\ n - 1 = Len(turns)
    BY <1>2, <1>5
  <2> QED
    BY <1>1, <1>4, <2>1
<1>6. Len(new) <= MaxTurns
  BY <1>1, <1>2
<1>7. WholeTurns(actor, new)
  BY <1>2, <1>3, <1>5, <1>6 DEF WholeTurns
<1> QED
  BY <1>1, <1>7

LEMMA ChatReplyKeeps ==
  ASSUME TalkInv, NEW c \in Chatters, ChatReply(c)
  PROVE  TalkInv'
<1>1. PICK i \in Chats : i = chatter[c].chat /\ chats[i].is # "unused" /\ chats[i] \in ChatRow
                         /\ WholeTurns(chats[i].actor, chats[i].turns)
  BY ChatFacts DEF ChatReply
<1>2. PICK turns \in Seq(Turn) : turns = chats[i].turns
  BY <1>1 DEF ChatRow
<1>3. PICK q \in ChatterRow : q = chatter[c] /\ ChatterHolds(c, q) /\ q.at = "asked" /\ q.chat = i
  BY <1>1, ChatterFacts DEF ChatReply
<1> DEFINE turn == [asked |-> c, by |-> q.actor, prompt |-> q.prompt]
<1>4. turn \in Turn
  BY DEF Turn, ChatterRow
<1>5. /\ Len(turns) < MaxTurns /\ turn.asked = c /\ turn.by = chats[i].actor /\ turn.prompt = Prompt(turns, c)
      /\ chats[i].holder = c
  BY <1>2, <1>3 DEF ChatterHolds
<1>6. PICK new \in Seq(Turn) : new = Append(turns, turn) /\ WholeTurns(chats[i].actor, new)
  <2> HIDE DEF turn
  <2>1. PICK t \in Turn : t = turn
    BY <1>4
  <2> QED
    BY <1>1, <1>2, <1>5, <2>1, TurnJoins
<1> DEFINE row == [chats[i] EXCEPT !.holder = Nothing, !.turns = new]
<1>7. row \in ChatRow
  BY <1>1 DEF ChatRow
<1>8. row.is = chats[i].is /\ row.actor = chats[i].actor /\ row.turns = new
  BY <1>1 DEF ChatRow
<1>9. chats' = [chats EXCEPT ![i] = row] /\ ChatterEnds(c)
  <2>1. chats' = [chats EXCEPT ![i].holder = Nothing, ![i].turns = Append(@, turn)] /\ ChatterEnds(c)
    BY <1>1, <1>3 DEF ChatReply
  <2> HIDE DEF turn
  <2> QED
    BY <1>2, <1>6, <2>1
<1> HIDE DEF row
<1>10. PICK r \in ChatRow : r = row
  BY <1>7
<1>11. WholeTurns(r.actor, r.turns)
  BY <1>6, <1>8, <1>10
<1> QED
  BY <1>1, <1>5, <1>8, <1>9, <1>10, <1>11, ChatChanges

-----------------------------------------------------------------------------
(* The invariant holds of every behaviour. *)

\* A request that finds its session run out ends that session and no other.
LEMMA SessionExpiredEnds ==
  ASSUME SignInInv, TalkInv, NEW c \in Chatters, SessionExpired(c)
  PROVE  SignInInv'
<1>1. /\ chatter[c].cookie \in BrowserIDs \cup {Nothing} /\ browsers \in [BrowserIDs -> BrowserRow]
      /\ browsers' = [browsers EXCEPT ![chatter[c].cookie] = Gone(@)]
      /\ UNCHANGED <<moment, challenges, callback>>
  BY ChatterFacts DEF SessionExpired, ChatterRow, SignInInv, SignInTypeOK, signIn
<1>2. CASE chatter[c].cookie \in BrowserIDs
  <2>1. PICK b \in BrowserIDs : b = chatter[c].cookie
    BY <1>2
  <2>2. PICK gone \in BrowserRow : gone = Gone(browsers[b]) /\ gone.is = "gone" /\ gone.login = browsers[b].login
    BY <1>1, GoneIsTyped
  <2>3. browsers' = [browsers EXCEPT ![b] = gone]
    BY <1>1, <2>1, <2>2
  <2> QED
    BY <1>1, <2>2, <2>3, SessionGone
<1>3. CASE chatter[c].cookie \notin BrowserIDs
  <2>1. browsers' = browsers
    BY <1>1, <1>3
  <2> QED
    BY <1>1, <2>1 DEF SignInInv, SignInTypeOK, LoginsHold, AdmittedHold
<1> QED
  BY <1>2, <1>3

LEMMA SignInKept ==
  ASSUME SignInInv, UNCHANGED <<signIn, browsers>>, moment' \in Nat
  PROVE  SignInInv'
  BY DEF SignInInv, SignInTypeOK, LoginsHold, AdmittedHold, signIn

LEMMA SessionsInitHolds == SessionsInit => SessionsInv
<1> SUFFICES ASSUME SessionsInit PROVE SessionsInv
  OBVIOUS
<1>1. SignInTypeOK
  BY NoRows DEF SessionsInit, SignInTypeOK
<1>2. LoginsHold
  BY NoRows, SessionsAssumption DEF SessionsInit, LoginsHold
<1>3. AdmittedHold
  BY NoRows DEF SessionsInit, AdmittedHold
<1>4. TalkTypeOK
  BY NoRows DEF SessionsInit, TalkTypeOK
<1>5. ConversationIsWhole
  <2>1. \A i \in Chats : chats[i].turns = <<>>
    BY NoRows DEF SessionsInit
  <2> QED
    BY <2>1, SessionsAssumption DEF ConversationIsWhole
<1>6. \A c \in Chatters : ChatterHolds(c, chatter[c])
  BY NoRows DEF SessionsInit, ChatterHolds
<1> QED
  BY <1>1, <1>2, <1>3, <1>4, <1>5, <1>6 DEF SessionsInv, SignInInv, TalkInv

LEMMA ChatRequestKeeps ==
  ASSUME SessionsInv, NEW c \in Chatters, ChatRequest(c)
  PROVE  SessionsInv'
<1>1. SignInInv /\ TalkInv /\ moment \in Nat
  BY DEF SessionsInv, SignInInv, SignInTypeOK
<1>2. ASSUME NEW op \in {"create", "send", "close"}, NEW i \in Chats,
             NEW cookie \in BrowserIDs \cup {Nothing}, NEW bearer \in Bearers \cup {Nothing},
             RequestComes(c, op, i, cookie, bearer)
      PROVE  SessionsInv'
  BY <1>1, <1>2, RequestComesKeeps, SignInKept DEF RequestComes, SessionsInv
<1>3. CASE SessionAdmits(c)
  BY <1>1, <1>3, SessionAdmitsKeeps, SignInKept DEF SessionAdmits, SessionsInv
<1>4. CASE SessionExpired(c)
  BY <1>1, <1>4, SessionExpiredKeeps, SessionExpiredEnds DEF SessionsInv
<1>5. CASE BearerAdmits(c)
  BY <1>1, <1>5, BearerAdmitsKeeps, SignInKept DEF BearerAdmits, SessionsInv
<1>6. CASE RequestRefused(c)
  BY <1>1, <1>6, RequestRefusedKeeps, SignInKept DEF RequestRefused, SessionsInv
<1>7. CASE ChatCreate(c)
  BY <1>1, <1>7, ChatCreateKeeps, SignInKept DEF ChatCreate, SessionsInv
<1>8. CASE ChatFound(c)
  BY <1>1, <1>8, ChatFoundKeeps, SignInKept DEF ChatFound, SessionsInv
<1>9. CASE ChatAuthorized(c)
  BY <1>1, <1>9, ChatAuthorizedKeeps, SignInKept DEF ChatAuthorized, SessionsInv
<1>10. CASE ChatSend(c)
  BY <1>1, <1>10, ChatSendKeeps, SignInKept DEF ChatSend, SessionsInv
<1>11. CASE ChatReply(c)
  BY <1>1, <1>11, ChatReplyKeeps, SignInKept DEF ChatReply, SessionsInv
<1>12. CASE ChatUnanswered(c)
  BY <1>1, <1>12, ChatUnansweredKeeps, SignInKept DEF ChatUnanswered, SessionsInv
<1>13. CASE ChatClose(c)
  BY <1>1, <1>13, ChatCloseKeeps, SignInKept DEF ChatClose, SessionsInv
<1> QED
  BY <1>2, <1>3, <1>4, <1>5, <1>6, <1>7, <1>8, <1>9, <1>10, <1>11, <1>12, <1>13 DEF ChatRequest

LEMMA SessionsStepKeeps == SessionsInv /\ [SessionsNext]_sessionVars => SessionsInv'
<1> SUFFICES ASSUME SessionsInv, [SessionsNext]_sessionVars PROVE SessionsInv'
  OBVIOUS
<1>1. SignInInv /\ TalkInv /\ moment \in Nat
  BY DEF SessionsInv, SignInInv, SignInTypeOK
<1>2. CASE TimePasses
  BY <1>1, <1>2, TalkKept, SignInKept DEF TimePasses, SessionsInv, talk
<1>3. CASE EnsureVerifier
  BY <1>1, <1>3, TalkKept, SignInKept DEF EnsureVerifier, SessionsInv, talk
<1>4. ASSUME NEW s \in LoginStates, HandleLogin(s) PROVE SessionsInv'
  BY <1>1, <1>4, TalkKept, HandleLoginKeeps DEF HandleLogin, SessionsInv, talk
<1>5. ASSUME NEW s \in LoginStates, NEW k \in Callbacks, CallbackTakes(k, s) PROVE SessionsInv'
  BY <1>1, <1>5, TalkKept, CallbackTakesKeeps DEF CallbackTakes, SessionsInv, talk
<1>6. ASSUME NEW k \in Callbacks, CallbackFails(k) PROVE SessionsInv'
  BY <1>1, <1>6, TalkKept, CallbackFailsKeeps DEF CallbackFails, SessionsInv, talk
<1>7. ASSUME NEW k \in Callbacks, NEW p \in People, CallbackVerifies(k, p) PROVE SessionsInv'
  BY <1>1, <1>7, TalkKept, CallbackVerifiesKeeps DEF CallbackVerifies, SessionsInv, talk
<1>8. ASSUME NEW b \in BrowserIDs, HandleLogout(b) PROVE SessionsInv'
  BY <1>1, <1>8, TalkKept, HandleLogoutKeeps DEF HandleLogout, SessionsInv, talk
<1>9. ASSUME NEW b \in BrowserIDs, NEW k \in Callbacks, CallbackStores(k, b) PROVE SessionsInv'
  BY <1>1, <1>9, TalkKept, CallbackStoresKeeps DEF CallbackStores, SessionsInv, talk
<1>10. ASSUME NEW c \in Chatters, ChatRequest(c) PROVE SessionsInv'
  BY <1>10, ChatRequestKeeps
<1>11. CASE UNCHANGED sessionVars
  BY <1>1, <1>11, TalkKept, SignInKept DEF SessionsInv, sessionVars, talk
<1> QED
  BY <1>2, <1>3, <1>4, <1>5, <1>6, <1>7, <1>8, <1>9, <1>10, <1>11 DEF SessionsNext

LEMMA SessionsInvHolds == SessionsSpec => []SessionsInv
  BY SessionsInitHolds, SessionsStepKeeps, PTL DEF SessionsSpec

-----------------------------------------------------------------------------
(* What the invariant says. *)

\* A set in which any two members are the same has at most one.
LEMMA AtMostOne ==
  ASSUME NEW S, \A x, y \in S : x = y
  PROVE  Cardinality(S) <= 1
<1>1. CASE S = {}
  BY <1>1, FS_EmptySet
<1>2. CASE S # {}
  <2>1. PICK x \in S : TRUE
    BY <1>2
  <2>2. S = {x}
    BY <2>1
  <2> QED
    BY <2>2, FS_Singleton
<1> QED
  BY <1>1, <1>2

\* A sign-in is worth one browser session, of someone in an allowed group, however often its
\* callback is sent and however the exchanges overlap: handleCallback takes the challenge from the
\* map under the lock, so a second callback with the same state finds none.
THEOREM SessionsOnePerLogin == SessionsSpec => []OneSessionPerLogin
<1>1. SessionsInv => OneSessionPerLogin
  <2> SUFFICES ASSUME SessionsInv, NEW s \in LoginStates
               PROVE  /\ Cardinality({b \in BrowserIDs : browsers[b].login = s}
                                       \cup {k \in Callbacks : callback[k].login = s}) <= 1
                      /\ \A b \in BrowserIDs : browsers[b].login = s /\ browsers[b].is = "live"
                                                 => browsers[b].who \in InGroup
    BY DEF OneSessionPerLogin
  <2> DEFINE Of == {b \in BrowserIDs : browsers[b].login = s} \cup {k \in Callbacks : callback[k].login = s}
  <2>1. s # Nothing
    BY SessionsAssumption
  <2>2. \A x, y \in Of : x = y
    BY <2>1 DEF SessionsInv, SignInInv, LoginsHold
  <2>3. Cardinality(Of) <= 1
    <3> HIDE DEF Of
    <3> QED
      BY <2>2, AtMostOne
  <2> QED
    BY <2>3 DEF SessionsInv, SignInInv, AdmittedHold
<1> QED
  BY <1>1, SessionsInvHolds, PTL

\* Whoever is let in through a cookie had not signed out before the request came:
\* authenticateSession copies a session under the read lock, handleLogout deletes it under the
\* same lock, and what is not in the map is never put back.
THEOREM SessionsSignedOutStayOut == SessionsSpec => []SignedOutStaysOut
<1>1. SessionsInv => SignedOutStaysOut
  BY DEF SessionsInv, TalkInv, ChatterHolds, SignedOutStaysOut
<1> QED
  BY <1>1, SessionsInvHolds, PTL

\* Every question of a chat session is its owner's and was asked with all the turns before it, and
\* the turn limit holds whoever waited for the lock: ChatSessionManager.Send looks at the limits and
\* builds the prompt after it has the lock, and holds the lock until the model has answered.
THEOREM SessionsKeepConversations == SessionsSpec => []ConversationIsWhole
<1>1. SessionsInv => ConversationIsWhole
  BY DEF SessionsInv, TalkInv
<1> QED
  BY <1>1, SessionsInvHolds, PTL

-----------------------------------------------------------------------------
(* Least counterexamples. *)

\* Every set of naturals that is not empty has a least member: what stands for
\* induction over data here, applied to the set of the counterexamples.
LEMMA LeastNat ==
  ASSUME NEW T, T \subseteq Nat, T # {}
  PROVE  \E m \in T : \A k \in T : m <= k
<1>1. IsWellFoundedOn(OpToRel(<, Nat), Nat)
  BY NatLessThanWellFounded
<1>2. PICK m \in T : \A y \in T : ~(<<y, m>> \in OpToRel(<, Nat))
  BY <1>1, WFMin
<1>3. ASSUME NEW k \in T PROVE m <= k
  <2>1. k \in Nat /\ m \in Nat
    OBVIOUS
  <2>2. ~(k < m)
    <3>1. SUFFICES ASSUME k < m PROVE FALSE
      OBVIOUS
    <3>2. <<k, m>> \in Nat \X Nat
      BY <2>1
    <3>3. <<k, m>> \in OpToRel(<, Nat)
      BY <3>1, <3>2 DEF OpToRel
    <3>4. QED
      BY <3>3, <1>2
  <2>3. QED
    BY <2>1, <2>2
<1>4. QED
  BY <1>3

-----------------------------------------------------------------------------
(* The order of the samples. *)

Newer(S, s) == {t \in S : t.at > s.at}

\* A set of samples, no two of one time, in the span of the clock.
Timed(S, last) ==
  /\ \A s \in S : s.at \in 0..last
  /\ \A s, t \in S : s.at = t.at => s = t

\* Samples of different times are finitely many.
LEMMA TimedIsFinite ==
  ASSUME NEW S, NEW last \in Nat, Timed(S, last)
  PROVE  IsFiniteSet(S)
<1> DEFINE f == [s \in S |-> s.at]
<1>1. f \in Injection(S, 0..last)
  BY DEF Timed, Injection, IsInjective
<1>2. IsFiniteSet(0..last)
  BY FS_Interval
<1> HIDE DEF f
<1>3. QED
  BY <1>1, <1>2, FS_Injection

\* How many samples are newer than one tells them apart, and every number below
\* that of the samples is taken.
LEMMA Ranks ==
  ASSUME NEW S, NEW last \in Nat, Timed(S, last)
  PROVE  /\ Cardinality(S) \in Nat
         /\ \A s \in S : Cardinality(Newer(S, s)) \in 0..(Cardinality(S) - 1)
         /\ \A s, t \in S : s.at < t.at => Cardinality(Newer(S, t)) < Cardinality(Newer(S, s))
         /\ \A s, t \in S : Cardinality(Newer(S, t)) = Cardinality(Newer(S, s)) => s = t
         /\ \A k \in 0..(Cardinality(S) - 1) : \E s \in S : Cardinality(Newer(S, s)) = k
<1>1. IsFiniteSet(S) /\ Cardinality(S) \in Nat
  BY TimedIsFinite, FS_CardinalityType
<1>2. ASSUME NEW s \in S
      PROVE  /\ IsFiniteSet(Newer(S, s))
             /\ Cardinality(Newer(S, s)) \in Nat
             /\ Cardinality(Newer(S, s)) <= Cardinality(S)
             /\ Cardinality(Newer(S, s)) # Cardinality(S)
  <2>1. Newer(S, s) \subseteq S
    BY DEF Newer
  <2>2. s \notin Newer(S, s)
    BY DEF Newer, Timed
  <2>3. Newer(S, s) # S
    BY <2>2
  <2>4. QED
    BY <2>1, <2>3, <1>1, FS_Subset, FS_CardinalityType
<1>3. \A s \in S : Cardinality(Newer(S, s)) \in 0..(Cardinality(S) - 1)
  BY <1>1, <1>2
<1>4. ASSUME NEW s \in S, NEW t \in S, s.at < t.at
      PROVE  Cardinality(Newer(S, t)) < Cardinality(Newer(S, s))
  <2>1. s.at \in Nat /\ t.at \in Nat /\ \A x \in S : x.at \in Nat
    BY DEF Timed
  <2>2. Newer(S, t) \subseteq Newer(S, s)
    BY <2>1, <1>4 DEF Newer
  <2>3. t \in Newer(S, s) /\ t \notin Newer(S, t)
    BY <2>1, <1>4 DEF Newer
  <2>4. Newer(S, t) # Newer(S, s)
    BY <2>3
  <2>5. /\ Cardinality(Newer(S, t)) <= Cardinality(Newer(S, s))
        /\ Cardinality(Newer(S, t)) # Cardinality(Newer(S, s))
    BY <2>2, <2>4, <1>2, FS_Subset
  <2>6. Cardinality(Newer(S, t)) \in Nat /\ Cardinality(Newer(S, s)) \in Nat
    BY <1>2
  <2>7. QED
    BY <2>5, <2>6
<1>5. ASSUME NEW s \in S, NEW t \in S, Cardinality(Newer(S, t)) = Cardinality(Newer(S, s))
      PROVE  s = t
  <2>1. s.at \in Nat /\ t.at \in Nat
    BY DEF Timed
  <2>2. ~(s.at < t.at) /\ ~(t.at < s.at)
    BY <1>2, <1>4, <1>5
  <2>3. s.at = t.at
    BY <2>1, <2>2
  <2>4. QED
    BY <2>3 DEF Timed
<1>6. \A k \in 0..(Cardinality(S) - 1) : \E s \in S : Cardinality(Newer(S, s)) = k
  <2> DEFINE T == 0..(Cardinality(S) - 1)
             rank == [s \in S |-> Cardinality(Newer(S, s))]
  <2>1. IsFiniteSet(T) /\ Cardinality(T) = Cardinality(S)
    <3>1. PICK c \in Int : c = Cardinality(S) - 1
      BY <1>1
    <3>2. /\ IsFiniteSet(0..c)
          /\ Cardinality(0..c) = IF 0 > c THEN 0 ELSE c - 0 + 1
      BY FS_Interval
    <3>3. QED
      BY <1>1, <3>1, <3>2
  <2>2. rank \in [S -> T]
    BY <1>3
  <2>3. IsInjective(rank)
    BY <1>5 DEF IsInjective
  <2>4. rank \in Injection(S, T)
    BY <2>2, <2>3 DEF Injection
  <2> HIDE DEF rank, T
  <2>5. rank \in Surjection(S, T)
    BY <2>1, <2>4, FS_Injection
  <2>6. \A k \in T : \E s \in S : rank[s] = k
    BY <2>5 DEF Surjection
  <2>7. QED
    BY <2>6 DEF rank, T
<1>7. QED
  BY <1>1, <1>3, <1>4, <1>5, <1>6

Sample == [of : Nat, handle : Handles, at : Nat, reading : Readings, complete : BOOLEAN, generation : Nat]

Rows(from, n, h) == {s \in from : s.of = n /\ s.handle = h /\ s.at + Window + 2 * MaximumGap >= time}

\* HealthSamples lists the samples of a handle once each, the newest first, and down to
\* any of them leaves none out.
LEMMA SamplesInOrder ==
  ASSUME NEW from, NEW n, NEW h, time \in Nat, Timed(Rows(from, n, h), time),
         NEW seq, seq = HealthSamples(from, n, h)
  PROVE  /\ Len(seq) \in Nat /\ seq \in [1..Len(seq) -> Rows(from, n, h)]
         /\ \A i, j \in 1..Len(seq) : i < j => seq[j].at < seq[i].at
         /\ \A m \in 1..Len(seq), s \in Rows(from, n, h) : s.at >= seq[m].at => \E j \in 1..m : s = seq[j]
<1> DEFINE rows == Rows(from, n, h)
           c == Cardinality(rows)
           rank(s) == Cardinality(Newer(rows, s))
<1>1. /\ c \in Nat
      /\ \A s \in rows : rank(s) \in 0..(c - 1)
      /\ \A s, t \in rows : s.at < t.at => rank(t) < rank(s)
      /\ \A s, t \in rows : rank(t) = rank(s) => s = t
      /\ \A k \in 0..(c - 1) : \E s \in rows : rank(s) = k
  BY Ranks
<1>2. seq = [i \in 1..c |-> CHOOSE s \in rows : rank(s) = i - 1]
  BY DEF HealthSamples, Rows, Newer
<1> HIDE DEF rank, c, rows
<1>3. ASSUME NEW i \in 1..c
      PROVE  seq[i] \in rows /\ rank(seq[i]) = i - 1
  <2>1. i - 1 \in 0..(c - 1)
    BY <1>1
  <2>2. \E s \in rows : rank(s) = i - 1
    BY <1>1, <2>1
  <2>3. seq[i] = CHOOSE s \in rows : rank(s) = i - 1
    BY <1>2
  <2>4. QED
    BY <2>2, <2>3
<1>4. seq \in [1..c -> rows]
  BY <1>2, <1>3
<1>5. Len(seq) = c
  <2>1. seq \in Seq(rows)
    BY <1>1, <1>4
  <2>2. QED
    BY <1>1, <1>2, <2>1
<1>6. ASSUME NEW s \in rows PROVE s.at \in Nat
  BY <1>6 DEF Timed, rows
<1>7. ASSUME NEW s \in rows, NEW t \in rows, rank(s) < rank(t) PROVE t.at < s.at
  <2>1. s.at \in Nat /\ t.at \in Nat
    BY <1>6
  <2>2. rank(s) \in Int /\ rank(t) \in Int
    BY <1>1
  <2>3. s.at # t.at
    <3>1. SUFFICES ASSUME s.at = t.at PROVE FALSE
      OBVIOUS
    <3>2. s = t
      BY <3>1 DEF Timed, rows
    <3>3. QED
      BY <3>2, <2>2, <1>7
  <2>4. ~(s.at < t.at)
    BY <1>1, <2>2, <1>7
  <2>5. QED
    BY <2>1, <2>3, <2>4
<1>8. ASSUME NEW i \in 1..c, NEW j \in 1..c, i < j PROVE seq[j].at < seq[i].at
  <2>1. rank(seq[i]) < rank(seq[j])
    BY <1>3, <1>8, <1>1
  <2>2. QED
    BY <2>1, <1>3, <1>7
<1>9. ASSUME NEW m \in 1..c, NEW s \in rows, s.at >= seq[m].at PROVE \E j \in 1..m : s = seq[j]
  <2>1. seq[m] \in rows /\ rank(seq[m]) = m - 1
    BY <1>3
  <2>2. ~(rank(seq[m]) < rank(s))
    BY <1>7, <1>6, <1>9, <2>1
  <2>3. rank(s) \in 0..(m - 1)
    BY <1>1, <2>1, <2>2
  <2>4. PICK j \in 1..m : rank(s) = j - 1
    BY <2>3
  <2>5. j \in 1..c
    BY <1>1
  <2>6. seq[j] \in rows /\ rank(seq[j]) = rank(s)
    BY <1>3, <2>4, <2>5
  <2>7. s = seq[j]
    BY <1>1, <2>6
  <2>8. QED
    BY <2>7
<1>10. QED
  <2>1. seq \in [1..Len(seq) -> Rows(from, n, h)] /\ Len(seq) \in Nat
    BY <1>1, <1>4, <1>5 DEF rows
  <2>2. \A i, j \in 1..Len(seq) : i < j => seq[j].at < seq[i].at
    BY <1>5, <1>8
  <2>3. \A m \in 1..Len(seq), s \in Rows(from, n, h) : s.at >= seq[m].at => \E j \in 1..m : s = seq[j]
    BY <1>5, <1>9 DEF rows
  <2>4. QED
    BY <2>1, <2>2, <2>3

-----------------------------------------------------------------------------
(* The walk over the samples. *)

FirstWalk == [n |-> 0, head |-> NoSample, previous |-> time, status |-> "WINDOW_INCOMPLETE"]

\* A turn of the loop after each of the first k samples.
WalksTo(seq, k) ==
  \E g : g = [i \in 0..k |-> IF i = 0 THEN FirstWalk ELSE AssessSample(g[i - 1], seq[i])]

LEMMA WalkExists ==
  ASSUME NEW seq, NEW l \in Nat
  PROVE  WalksTo(seq, l)
<1> SUFFICES ASSUME ~WalksTo(seq, l) PROVE FALSE
  OBVIOUS
<1> DEFINE T == {k \in Nat : ~WalksTo(seq, k)}
<1>1. PICK k \in T : \A j \in T : k <= j
  <2>1. T \subseteq Nat /\ T # {}
    OBVIOUS
  <2> HIDE DEF T
  <2>2. QED
    BY <2>1, LeastNat
<1>2. k \in Nat /\ ~WalksTo(seq, k)
  OBVIOUS
<1>3. CASE k = 0
  <2> DEFINE g == [i \in 0..0 |-> FirstWalk]
  <2>1. g = [i \in 0..0 |-> IF i = 0 THEN FirstWalk ELSE AssessSample(g[i - 1], seq[i])]
    OBVIOUS
  <2> HIDE DEF g
  <2>2. WalksTo(seq, 0)
    BY <2>1 DEF WalksTo
  <2>3. QED
    BY <2>2, <1>2, <1>3
<1>4. CASE k # 0
  <2>1. k - 1 \in Nat /\ ~(k <= k - 1)
    BY <1>2, <1>4
  <2>2. WalksTo(seq, k - 1)
    BY <1>1, <2>1
  <2>3. PICK g : g = [i \in 0..(k - 1) |-> IF i = 0 THEN FirstWalk ELSE AssessSample(g[i - 1], seq[i])]
    BY <2>2 DEF WalksTo
  <2> DEFINE f == [i \in 0..k |-> IF i = k THEN AssessSample(g[k - 1], seq[k]) ELSE g[i]]
  <2>4. ASSUME NEW i \in 0..k
        PROVE  f[i] = IF i = 0 THEN FirstWalk ELSE AssessSample(f[i - 1], seq[i])
    <3>1. CASE i = 0
      BY <3>1, <2>3, <1>2, <1>4
    <3>2. CASE i # 0
      <4>1. i - 1 \in 0..k /\ i - 1 # k /\ i - 1 \in 0..(k - 1)
        BY <1>2, <3>2
      <4>2. f[i - 1] = g[i - 1]
        BY <4>1
      <4>3. CASE i = k
        BY <4>3, <4>2, <3>2
      <4>4. CASE i # k
        <5>1. i \in 0..(k - 1)
          BY <4>4, <1>2
        <5>2. g[i] = AssessSample(g[i - 1], seq[i])
          BY <5>1, <2>3, <3>2
        <5>3. f[i] = g[i]
          BY <4>4
        <5>4. QED
          BY <5>2, <5>3, <4>2, <3>2
      <4>5. QED
        BY <4>3, <4>4
    <3>3. QED
      BY <3>1, <3>2
  <2>5. f = [i \in 0..k |-> f[i]]
    OBVIOUS
  <2> HIDE DEF f
  <2>6. f = [i \in 0..k |-> IF i = 0 THEN FirstWalk ELSE AssessSample(f[i - 1], seq[i])]
    BY <2>4, <2>5, Zenon
  <2>7. WalksTo(seq, k)
    BY <2>6 DEF WalksTo
  <2>8. QED
    BY <2>7, <1>2
<1>5. QED
  BY <1>3, <1>4

\* What AssessWindow's loop holds after a sample follows from what it held before.
LEMMA WalkSteps ==
  ASSUME NEW seq, Len(seq) \in Nat
  PROVE  LET w == AssessWalk(seq)
         IN  /\ w[0] = FirstWalk
             /\ \A i \in 1..Len(seq) : w[i] = AssessSample(w[i - 1], seq[i])
<1> DEFINE w == AssessWalk(seq)
<1>1. WalksTo(seq, Len(seq))
  BY WalkExists
<1>2. w = CHOOSE g : g = [i \in 0..Len(seq) |-> IF i = 0 THEN FirstWalk ELSE AssessSample(g[i - 1], seq[i])]
  BY DEF AssessWalk, FirstWalk
<1>3. w = [i \in 0..Len(seq) |-> IF i = 0 THEN FirstWalk ELSE AssessSample(w[i - 1], seq[i])]
  BY <1>1, <1>2 DEF WalksTo
<1> HIDE DEF w
<1>4. w[0] = FirstWalk
  BY <1>3
<1>5. ASSUME NEW i \in 1..Len(seq) PROVE w[i] = AssessSample(w[i - 1], seq[i])
  BY <1>3
<1>6. QED
  BY <1>4, <1>5 DEF w
\* The first m samples are complete, ready and of one credential, and none is further
\* than the gap from the one before, the first from now.
GoodTo(seq, m) ==
  \A i \in 1..m : /\ seq[i].complete /\ seq[i].reading = "ready" /\ seq[i].generation = seq[1].generation
                  /\ ~AssessGap(IF i = 1 THEN time ELSE seq[i - 1].at, seq[i])

\* What the loop holds after i samples.
WalkHolds(seq, i, w) ==
  /\ w.status = "WINDOW_INCOMPLETE" =>
       /\ w.n = i /\ GoodTo(seq, i)
       /\ w.previous = (IF i = 0 THEN time ELSE seq[i].at)
       /\ i > 0 => w.head = seq[1]
  /\ w.status = "RECOVERED" =>
       /\ w.n \in 1..i /\ w.head = seq[1] /\ GoodTo(seq, w.n)
       /\ w.n >= MinimumSamples /\ seq[1].at - seq[w.n].at >= Window

\* What is coded Healthy is ready or short of the minimum.
LEMMA HealthyReadings == \A x : CodeOf(x) = "Healthy" <=> x \in {"ready", "short"}
  BY DEF CodeOf

LEMMA WalkHoldsNext ==
  ASSUME NEW seq, NEW i \in Nat \ {0}, NEW w, NEW v,
         \A j \in 1..i : seq[j] \in Sample,
         WalkHolds(seq, i - 1, w), v = AssessSample(w, seq[i])
  PROVE  WalkHolds(seq, i, v)
<1>1. CASE w.status # "WINDOW_INCOMPLETE"
  <2>1. v = w
    BY <1>1 DEF AssessSample
  <2>2. CASE w.status = "RECOVERED"
    <3>1. w.n \in 1..(i - 1)
      BY <2>2 DEF WalkHolds
    <3>2. w.n \in 1..i
      BY <3>1
    <3>3. QED
      BY <1>1, <2>1, <2>2, <3>2 DEF WalkHolds
  <2>3. QED
    BY <1>1, <2>1, <2>2 DEF WalkHolds
<1>2. CASE w.status = "WINDOW_INCOMPLETE"
  <2>1. w.n = i - 1 /\ GoodTo(seq, i - 1) /\ w.previous = (IF i - 1 = 0 THEN time ELSE seq[i - 1].at)
    BY <1>2 DEF WalkHolds
  <2>2. (IF w.n = 0 THEN seq[i] ELSE w.head) = seq[1]
    BY <1>2, <2>1 DEF WalkHolds
  <2>3. w.previous = IF i = 1 THEN time ELSE seq[i - 1].at
    BY <2>1
  <2>4. seq[i] \in Sample /\ seq[1] \in Sample
    OBVIOUS
  <2>5. PICK status :
          /\ v = [n |-> i, head |-> seq[1], previous |-> seq[i].at, status |-> status]
          /\ status = IF AssessGap(w.previous, seq[i]) \/ ~seq[i].complete \/ seq[i].generation # seq[1].generation
                        THEN "UNKNOWN"
                      ELSE IF CodeOf(seq[i].reading) # "Healthy" \/ seq[i].reading = "short" THEN "NOT_RECOVERED"
                      ELSE IF i >= MinimumSamples /\ seq[1].at - seq[i].at >= Window THEN "RECOVERED"
                      ELSE "WINDOW_INCOMPLETE"
    <3>1. w.n + 1 = i
      BY <2>1
    <3>2. QED
      BY <1>2, <2>2, <3>1 DEF AssessSample
  <2>6. v.n = i /\ v.head = seq[1] /\ v.previous = seq[i].at /\ v.status = status
    BY <2>5
  <2>7. CASE status \notin {"WINDOW_INCOMPLETE", "RECOVERED"}
    BY <2>6, <2>7 DEF WalkHolds
  <2>8. ASSUME status \in {"WINDOW_INCOMPLETE", "RECOVERED"}
        PROVE  /\ GoodTo(seq, i)
               /\ status = "RECOVERED" => i >= MinimumSamples /\ seq[1].at - seq[i].at >= Window
    <3>1. /\ ~AssessGap(w.previous, seq[i]) /\ seq[i].complete /\ seq[i].generation = seq[1].generation
          /\ seq[i].reading = "ready"
          /\ status = "RECOVERED" => i >= MinimumSamples /\ seq[1].at - seq[i].at >= Window
      <4>1. /\ ~AssessGap(w.previous, seq[i]) /\ seq[i].complete /\ seq[i].generation = seq[1].generation
            /\ CodeOf(seq[i].reading) = "Healthy" /\ seq[i].reading # "short"
            /\ status = "RECOVERED" => i >= MinimumSamples /\ seq[1].at - seq[i].at >= Window
        BY <2>5, <2>8
      <4>2. QED
        BY <4>1, HealthyReadings
    <3>2. ASSUME NEW j \in 1..i
          PROVE  /\ seq[j].complete /\ seq[j].reading = "ready" /\ seq[j].generation = seq[1].generation
                 /\ ~AssessGap(IF j = 1 THEN time ELSE seq[j - 1].at, seq[j])
      <4>1. CASE j = i
        BY <3>1, <2>3, <4>1
      <4>2. CASE j # i
        <5>1. j \in 1..(i - 1)
          BY <4>2
        <5>2. QED
          BY <5>1, <2>1 DEF GoodTo
      <4>3. QED
        BY <4>1, <4>2
    <3>3. QED
      BY <3>1, <3>2 DEF GoodTo
  <2>9. CASE status \in {"WINDOW_INCOMPLETE", "RECOVERED"}
    BY <2>6, <2>8, <2>9 DEF WalkHolds
  <2>10. QED
    BY <2>7, <2>9
<1>3. QED
  BY <1>1, <1>2
LEMMA WalkHoldsAll ==
  ASSUME NEW seq, Len(seq) \in Nat, \A j \in 1..Len(seq) : seq[j] \in Sample
  PROVE  \A i \in 0..Len(seq) : WalkHolds(seq, i, AssessWalk(seq)[i])
<1> DEFINE w == AssessWalk(seq)
           l == Len(seq)
           T == {i \in 0..l : ~WalkHolds(seq, i, w[i])}
<1>1. w[0] = FirstWalk /\ \A i \in 1..l : w[i] = AssessSample(w[i - 1], seq[i])
  BY WalkSteps
<1> SUFFICES ASSUME T # {} PROVE FALSE
  OBVIOUS
<1>2. PICK k \in T : \A j \in T : k <= j
  <2>1. T \subseteq Nat
    OBVIOUS
  <2> HIDE DEF T
  <2>2. QED
    BY <2>1, LeastNat
<1>3. k \in 0..l /\ ~WalkHolds(seq, k, w[k])
  OBVIOUS
<1> HIDE DEF w
<1>4. k # 0
  <2>1. WalkHolds(seq, 0, FirstWalk)
    BY DEF WalkHolds, FirstWalk, GoodTo
  <2>2. QED
    BY <2>1, <1>1, <1>3
<1>5. k \in 1..l /\ k - 1 \in 0..l /\ ~(k <= k - 1)
  BY <1>3, <1>4
<1>6. WalkHolds(seq, k - 1, w[k - 1])
  BY <1>2, <1>5
<1>7. w[k] = AssessSample(w[k - 1], seq[k])
  BY <1>1, <1>5
<1>8. k \in Nat \ {0} /\ \A j \in 1..k : seq[j] \in Sample
  BY <1>5
<1> HIDE DEF T, l
<1>9. WalkHolds(seq, k, w[k])
  BY <1>6, <1>7, <1>8, WalkHoldsNext
<1>10. QED
  BY <1>9, <1>3
-----------------------------------------------------------------------------
(* What a verdict rests on. *)

Report == [at : Nat, generation : Nat, reading : [Handles -> Readings], complete : BOOLEAN]

\* No report is of the future, and no two are of one time.
ReportsInTime(set, t) == /\ \A r \in set : r.at <= t
                         /\ \A r, q \in set : r.at = q.at => r = q

\* A sample is what a report that joined the incident said.
Reported(from, rec) ==
  \A s \in from : \E r \in DOMAIN rec, h \in Handles : rec[r] = s.of /\ s = SampleOf(r, h, s.of)

\* What a report that joined an incident said has its sample, or a later one under the same code.
Sampled(from, rec) ==
  \A r \in DOMAIN rec, h \in Handles :
    rec[r] # 0 => \E s \in from : s.of = rec[r] /\ s.handle = h /\ CodeOf(s.reading) = CodeOf(r.reading[h]) /\ s.at >= r.at

\* A report with enough ready replicas, or one that got no sample.
ReadyOrSkipped(r, h, n, store) ==
  r.reading[h] = "ready" \/ (r.reading[h] = "short" /\ SampleOf(r, h, n) \notin store)

\* RecoveredIsSustained of one handle.
Sustained(h, n, rec, doubts, t, store) ==
  \E from \in 0..t :
    LET chain == {r \in DOMAIN rec : rec[r] = n /\ r.at >= from /\ r.complete /\ r.reading[h] = "ready"
                                     /\ SampleOf(r, h, n) \notin doubts}
    IN  /\ \E c \in SUBSET chain :
             /\ Cardinality(c) >= MinimumSamples
             /\ \A r, q \in c : r.generation = q.generation
             /\ \E first, last \in c : last.at - first.at >= Window
             /\ \A r \in c : \/ t - r.at <= MaximumGap
                             \/ \E q \in c : q.at > r.at /\ q.at - r.at <= MaximumGap
        /\ \A r \in DOMAIN rec : rec[r] = n /\ r.at >= from => ReadyOrSkipped(r, h, n, store)

LEMMA HandleSustained ==
  ASSUME NEW from, NEW rec, NEW n \in Nat \ {0}, NEW h \in Handles, time \in Nat,
         from \subseteq Sample, DOMAIN rec \subseteq Report, ReportsInTime(DOMAIN rec, time),
         Reported(from, rec), Sampled(from, rec),
         HandleStatus(from, n, h) = "RECOVERED"
  PROVE  Sustained(h, n, rec, disputed, time, from)
<1> DEFINE seq == HealthSamples(from, n, h)
           w == AssessWalk(seq)[Len(seq)]
           rows == Rows(from, n, h)
<1>0. Window \in Nat /\ MaximumGap \in Nat /\ MinimumSamples \in Nat /\ MinimumSamples # 0
  BY RecoveryAssumption
<1>1. ASSUME NEW s \in rows
      PROVE  \E r \in DOMAIN rec : rec[r] = n /\ s = SampleOf(r, h, n)
  <2>1. s \in from /\ s.of = n /\ s.handle = h
    BY DEF Rows
  <2>2. PICK r \in DOMAIN rec, x \in Handles : rec[r] = s.of /\ s = SampleOf(r, x, s.of)
    BY <2>1 DEF Reported
  <2>3. SampleOf(r, x, s.of).handle = x
    BY DEF SampleOf
  <2>4. x = h
    BY <2>1, <2>2, <2>3
  <2>5. QED
    BY <2>1, <2>2, <2>4
<1>2. \A r : SampleOf(r, h, n).at = r.at /\ SampleOf(r, h, n).reading = r.reading[h]
             /\ SampleOf(r, h, n).complete = r.complete /\ SampleOf(r, h, n).generation = r.generation
  BY DEF SampleOf
<1>3. Timed(rows, time)
  <2>1. ASSUME NEW s \in rows PROVE s.at \in 0..time
    <3>1. PICK r \in DOMAIN rec : s = SampleOf(r, h, n)
      BY <1>1
    <3>2. r.at \in Nat /\ r.at <= time
      BY DEF Report, ReportsInTime
    <3>3. QED
      BY <3>1, <3>2, <1>2
  <2>2. ASSUME NEW s \in rows, NEW t \in rows, s.at = t.at PROVE s = t
    <3>1. PICK r \in DOMAIN rec : s = SampleOf(r, h, n)
      BY <1>1
    <3>2. PICK q \in DOMAIN rec : t = SampleOf(q, h, n)
      BY <1>1
    <3>3. r.at = q.at
      BY <1>2, <2>2, <3>1, <3>2
    <3>4. r = q
      BY <3>3 DEF ReportsInTime
    <3>5. QED
      BY <3>1, <3>2, <3>4
  <2>3. QED
    BY <2>1, <2>2 DEF Timed
<1>4. rows \subseteq Sample /\ rows \subseteq from
  BY DEF Rows
<1>5. /\ w.status = "RECOVERED" /\ \A i \in 1..w.n : seq[i] \notin disputed
  BY DEF HandleStatus, AssessWindow
<1> HIDE DEF w, rows
<1>6. /\ Len(seq) \in Nat /\ seq \in [1..Len(seq) -> rows]
      /\ \A i, j \in 1..Len(seq) : i < j => seq[j].at < seq[i].at
      /\ \A m \in 1..Len(seq), s \in rows : s.at >= seq[m].at => \E j \in 1..m : s = seq[j]
  BY <1>3, SamplesInOrder DEF rows
<1> HIDE DEF seq
<1>7. \A j \in 1..Len(seq) : seq[j] \in rows /\ seq[j] \in Sample
  BY <1>4, <1>6
<1>8. WalkHolds(seq, Len(seq), w)
  <2>1. Len(seq) \in 0..Len(seq)
    BY <1>6
  <2>2. QED
    BY <1>6, <1>7, <2>1, WalkHoldsAll DEF w
<1>9. PICK m \in 1..Len(seq) :
        /\ m = w.n /\ GoodTo(seq, m)
        /\ m >= MinimumSamples /\ seq[1].at - seq[m].at >= Window
  BY <1>5, <1>8 DEF WalkHolds
<1>10. m \in Nat /\ 1 \in 1..m /\ m \in 1..m /\ 1..m \subseteq 1..Len(seq) /\ 1 \in 1..Len(seq)
  BY <1>6
<1> DEFINE rep == [i \in 1..m |-> CHOOSE r \in DOMAIN rec : rec[r] = n /\ seq[i] = SampleOf(r, h, n)]
<1>11. ASSUME NEW i \in 1..m
       PROVE  /\ rep[i] \in DOMAIN rec /\ rec[rep[i]] = n /\ seq[i] = SampleOf(rep[i], h, n)
              /\ rep[i].at = seq[i].at /\ seq[i].at \in 0..time
              /\ rep[i].complete = seq[i].complete /\ rep[i].reading[h] = seq[i].reading
              /\ rep[i].generation = seq[i].generation
  <2>1. seq[i] \in rows
    BY <1>7, <1>10
  <2>2. rep[i] \in DOMAIN rec /\ rec[rep[i]] = n /\ seq[i] = SampleOf(rep[i], h, n)
    BY <2>1, <1>1
  <2>3. seq[i].at \in 0..time
    BY <2>1, <1>3 DEF Timed
  <2>4. QED
    BY <2>2, <2>3, <1>2
<1> HIDE DEF rep
<1> DEFINE start == seq[m].at
           chain == {r \in DOMAIN rec : rec[r] = n /\ r.at >= start /\ r.complete /\ r.reading[h] = "ready"
                                        /\ SampleOf(r, h, n) \notin disputed}
           c == {rep[i] : i \in 1..m}
<1>12. ASSUME NEW i \in 1..m PROVE seq[i].at >= start
  <2>1. i = m \/ i < m
    BY <1>10
  <2>2. seq[i].at \in Nat /\ seq[m].at \in Nat
    BY <1>11, <1>10
  <2>3. QED
    BY <2>1, <2>2, <1>6, <1>10
<1>13. ASSUME NEW i \in 1..m
       PROVE  /\ seq[i].complete /\ seq[i].reading = "ready" /\ seq[i].generation = seq[1].generation
              /\ i = 1 => time - seq[i].at <= MaximumGap
              /\ i # 1 => seq[i - 1].at - seq[i].at <= MaximumGap
  <2>1. /\ seq[i].complete /\ seq[i].reading = "ready" /\ seq[i].generation = seq[1].generation
        /\ ~AssessGap(IF i = 1 THEN time ELSE seq[i - 1].at, seq[i])
    BY <1>9 DEF GoodTo
  <2>2. CASE i = 1
    <3>1. ~(time - seq[i].at > MaximumGap)
      BY <2>1, <2>2 DEF AssessGap
    <3>2. seq[i].at \in Nat
      BY <1>11
    <3>3. QED
      BY <2>1, <2>2, <3>1, <3>2, <1>0
  <2>3. CASE i # 1
    <3>1. ~(seq[i - 1].at - seq[i].at > MaximumGap)
      BY <2>1, <2>3 DEF AssessGap
    <3>2. i - 1 \in 1..m
      BY <2>3, <1>10
    <3>3. seq[i].at \in Nat /\ seq[i - 1].at \in Nat
      BY <1>11, <3>2
    <3>4. QED
      BY <2>1, <2>3, <3>1, <3>3, <1>0
  <2>4. QED
    BY <2>2, <2>3
<1>14. c \in SUBSET chain
  <2>1. ASSUME NEW i \in 1..m PROVE rep[i] \in chain
    <3>1. SampleOf(rep[i], h, n) \notin disputed
      BY <1>5, <1>9, <1>11
    <3>2. rep[i].at >= start
      BY <1>11, <1>12
    <3>3. QED
      BY <3>1, <3>2, <1>11, <1>13
  <2>2. QED
    BY <2>1
<1>15. Cardinality(c) = m
  <2>1. ASSUME NEW i \in 1..m, NEW j \in 1..m, rep[i] = rep[j] PROVE i = j
    <3>1. seq[i].at = seq[j].at
      BY <1>11, <2>1
    <3>2. ~(i < j) /\ ~(j < i)
      BY <3>1, <1>6, <1>10, <1>11
    <3>3. QED
      BY <3>2
  <2>2. DOMAIN rep = 1..m
    BY DEF rep
  <2>3. rep \in [1..m -> c]
    BY <2>2 DEF rep
  <2>4. rep \in Bijection(1..m, c)
    BY <2>1, <2>2, <2>3 DEF Bijection, Injection, Surjection, IsInjective
  <2>5. ExistsBijection(1..m, c)
    BY <2>4 DEF ExistsBijection
  <2> HIDE DEF c
  <2>6. QED
    BY <1>10, <2>5, FS_CountingElements
<1>16. ASSUME NEW r \in c, NEW q \in c PROVE r.generation = q.generation
  <2>1. PICK i \in 1..m : r = rep[i]
    OBVIOUS
  <2>2. PICK j \in 1..m : q = rep[j]
    OBVIOUS
  <2>3. QED
    BY <2>1, <2>2, <1>11, <1>13
<1>17. \E first, last \in c : last.at - first.at >= Window
  <2>1. rep[1] \in c /\ rep[m] \in c
    BY <1>10
  <2>2. rep[1].at - rep[m].at >= Window
    BY <1>9, <1>10, <1>11
  <2>3. QED
    BY <2>1, <2>2
<1>18. ASSUME NEW r \in c
       PROVE  \/ time - r.at <= MaximumGap
              \/ \E q \in c : q.at > r.at /\ q.at - r.at <= MaximumGap
  <2>1. PICK i \in 1..m : r = rep[i]
    OBVIOUS
  <2>2. CASE i = 1
    BY <2>1, <2>2, <1>11, <1>13
  <2>3. CASE i # 1
    <3>1. i - 1 \in 1..m /\ i - 1 < i
      BY <2>3, <1>10
    <3>2. seq[i].at < seq[i - 1].at
      BY <3>1, <1>6, <1>10
    <3>3. rep[i - 1].at = seq[i - 1].at /\ rep[i].at = seq[i].at /\ seq[i].at \in Nat /\ seq[i - 1].at \in Nat
      BY <3>1, <1>11
    <3>4. rep[i - 1].at > r.at /\ rep[i - 1].at - r.at <= MaximumGap
      BY <2>1, <2>3, <3>2, <3>3, <1>13
    <3>5. rep[i - 1] \in c
      BY <3>1
    <3>6. QED
      BY <3>4, <3>5
  <2>4. QED
    BY <2>2, <2>3
<1>19. ASSUME NEW r \in DOMAIN rec, rec[r] = n, r.at >= start PROVE ReadyOrSkipped(r, h, n, from)
  <2>1. ASSUME NEW s \in from, s.of = n, s.handle = h, s.at >= start PROVE s.reading = "ready"
    <3>1. s.at \in Nat /\ seq[m] \in Sample /\ seq[m] \in rows /\ start \in Nat
      BY <1>7 DEF Sample
    <3>2. seq[m].at + Window + 2 * MaximumGap >= time
      BY <3>1 DEF rows, Rows
    <3>3. s.at + Window + 2 * MaximumGap >= time
      BY <2>1, <3>1, <3>2, <1>0
    <3>4. s \in rows
      BY <2>1, <3>3 DEF rows, Rows
    <3>5. PICK j \in 1..m : s = seq[j]
      BY <2>1, <3>4, <1>6
    <3>6. QED
      BY <3>5, <1>13
  <2>2. PICK s \in from : s.of = n /\ s.handle = h /\ CodeOf(s.reading) = CodeOf(r.reading[h]) /\ s.at >= r.at
    BY <1>19 DEF Sampled
  <2>3. s.at >= start
    <3>1. s.at \in Nat /\ r.at \in Nat /\ seq[m] \in Sample
      BY <1>7 DEF Sample, Report
    <3>2. start \in Nat
      BY <3>1 DEF Sample
    <3>3. QED
      BY <2>2, <3>1, <3>2, <1>19
  <2>4. r.reading[h] \in {"ready", "short"}
    <3>1. s.reading = "ready"
      BY <2>1, <2>2, <2>3
    <3>2. QED
      BY <2>2, <3>1, HealthyReadings
  <2>5. CASE r.reading[h] = "short"
    <3>1. ASSUME SampleOf(r, h, n) \in from PROVE FALSE
      <4>1. SampleOf(r, h, n).of = n /\ SampleOf(r, h, n).handle = h
        BY DEF SampleOf
      <4>2. SampleOf(r, h, n).reading = "ready"
        BY <2>1, <3>1, <4>1, <1>2, <1>19
      <4>3. QED
        BY <2>5, <4>2, <1>2
    <3>2. QED
      BY <2>5, <3>1 DEF ReadyOrSkipped
  <2>6. QED
    BY <2>4, <2>5 DEF ReadyOrSkipped
<1>20. start \in 0..time
  BY <1>11, <1>10
<1> HIDE DEF c
<1>21. Cardinality(c) >= MinimumSamples
  BY <1>15, <1>9
<1> HIDE DEF start
<1>22. QED
  BY <1>14, <1>16, <1>17, <1>18, <1>19, <1>20, <1>21 DEF Sustained
\* A report that joins no incident leaves what is known of one as it was.
LEMMA SustainedWithout ==
  ASSUME NEW h, NEW n, n # 0, NEW rec, NEW wider, NEW r, r \notin DOMAIN rec, NEW doubts, NEW t, NEW store,
         wider = [x \in DOMAIN rec \cup {r} |-> IF x = r THEN 0 ELSE rec[x]],
         Sustained(h, n, rec, doubts, t, store)
  PROVE  Sustained(h, n, wider, doubts, t, store)
<1>1. \A x : x \in DOMAIN wider /\ wider[x] = n <=> x \in DOMAIN rec /\ rec[x] = n
  OBVIOUS
<1>2. ASSUME NEW from
      PROVE  {x \in DOMAIN rec : rec[x] = n /\ x.at >= from /\ x.complete /\ x.reading[h] = "ready"
                                 /\ SampleOf(x, h, n) \notin doubts}
             = {x \in DOMAIN wider : wider[x] = n /\ x.at >= from /\ x.complete /\ x.reading[h] = "ready"
                                     /\ SampleOf(x, h, n) \notin doubts}
  BY <1>1
<1>3. PICK from \in 0..t :
        LET chain == {x \in DOMAIN rec : rec[x] = n /\ x.at >= from /\ x.complete /\ x.reading[h] = "ready"
                                         /\ SampleOf(x, h, n) \notin doubts}
        IN  /\ \E c \in SUBSET chain :
                 /\ Cardinality(c) >= MinimumSamples
                 /\ \A x, q \in c : x.generation = q.generation
                 /\ \E first, last \in c : last.at - first.at >= Window
                 /\ \A x \in c : \/ t - x.at <= MaximumGap
                                 \/ \E q \in c : q.at > x.at /\ q.at - x.at <= MaximumGap
            /\ \A x \in DOMAIN rec : rec[x] = n /\ x.at >= from => ReadyOrSkipped(x, h, n, store)
  BY DEF Sustained
<1>4. \A x \in DOMAIN wider : wider[x] = n /\ x.at >= from => ReadyOrSkipped(x, h, n, store)
  BY <1>1, <1>3
<1> DEFINE chain == {x \in DOMAIN wider : wider[x] = n /\ x.at >= from /\ x.complete /\ x.reading[h] = "ready"
                                          /\ SampleOf(x, h, n) \notin doubts}
<1>5. PICK c \in SUBSET chain :
        /\ Cardinality(c) >= MinimumSamples
        /\ \A x, q \in c : x.generation = q.generation
        /\ \E first, last \in c : last.at - first.at >= Window
        /\ \A x \in c : \/ t - x.at <= MaximumGap
                        \/ \E q \in c : q.at > x.at /\ q.at - x.at <= MaximumGap
  BY <1>2, <1>3
<1>6. \E d \in SUBSET chain :
        /\ Cardinality(d) >= MinimumSamples
        /\ \A x, q \in d : x.generation = q.generation
        /\ \E first, last \in d : last.at - first.at >= Window
        /\ \A x \in d : \/ t - x.at <= MaximumGap
                        \/ \E q \in d : q.at > x.at /\ q.at - x.at <= MaximumGap
  BY <1>5, Zenon
<1>7. QED
  BY <1>4, <1>6 DEF Sustained

-----------------------------------------------------------------------------
(* The inductive invariant. *)

RecoveryTypeOK ==
  /\ time \in Nat
  /\ collector \in [generation : Nat, revoked : BOOLEAN]
  /\ reports \subseteq Report
  /\ DOMAIN received \subseteq reports /\ received \in [DOMAIN received -> Nat]
  /\ samples \subseteq Sample
  /\ episode \in [n : Nat, state : {"OPEN", "RECOVERED", "CLOSED"}]

\* The verdict of this instant, as RecoveredIsSustained says it.
VerdictSustained ==
  verdict.status = "RECOVERED" =>
    /\ verdict.of # 0
    /\ \A h \in Handles : Sustained(h, verdict.of, received, verdict.doubts, time, samples)

RecoveryInv ==
  /\ RecoveryTypeOK
  /\ ReportsInTime(reports, time)
  /\ Reported(samples, received) /\ Sampled(samples, received)
  /\ Open => episode.n # 0
  /\ VerdictSustained

LEMMA RecoveryInvInit ==
  ASSUME RecoveryInit
  PROVE  RecoveryInv
<1>1. RecoveryTypeOK
  BY DEF RecoveryInit, RecoveryTypeOK
<1>2. ReportsInTime(reports, time) /\ Reported(samples, received) /\ Sampled(samples, received)
  BY DEF RecoveryInit, ReportsInTime, Reported, Sampled
<1>3. (Open => episode.n # 0) /\ VerdictSustained
  BY DEF RecoveryInit, Open, VerdictSustained, NoVerdict
<1>4. QED
  BY <1>1, <1>2, <1>3 DEF RecoveryInv

\* An assessment calls an incident recovered only on a sustained chain.
LEMMA AssessIsSustained ==
  ASSUME NEW from, NEW rec, NEW n \in Nat \ {0}, NEW v, time \in Nat,
         from \subseteq Sample, DOMAIN rec \subseteq Report, ReportsInTime(DOMAIN rec, time),
         Reported(from, rec), Sampled(from, rec), v = Assess(from, n)
  PROVE  /\ v.of = n /\ v.doubts = disputed
         /\ v.status = "RECOVERED" => \A h \in Handles : Sustained(h, n, rec, disputed, time, from)
<1>1. v.of = n /\ v.doubts = disputed
  BY DEF Assess
<1>2. ASSUME v.status = "RECOVERED" PROVE \A h \in Handles : HandleStatus(from, n, h) = "RECOVERED"
  BY <1>2 DEF Assess
<1>3. QED
  BY <1>1, <1>2, HandleSustained

\* A verdict that is recorded on the samples and the reports of the step.
LEMMA VerdictStep ==
  ASSUME RecoveryInv, NEW n \in Nat \ {0}, time' = time,
         samples' \subseteq Sample, DOMAIN received' \subseteq reports,
         Reported(samples', received'), Sampled(samples', received'),
         verdict' = Assess(samples', n)
  PROVE  VerdictSustained'
<1>1. PICK from : from = samples'
  OBVIOUS
<1>2. PICK rec : rec = received'
  OBVIOUS
<1>3. PICK v : v = verdict'
  OBVIOUS
<1>4. time \in Nat /\ DOMAIN rec \subseteq Report /\ ReportsInTime(DOMAIN rec, time)
  BY <1>2 DEF RecoveryInv, RecoveryTypeOK, ReportsInTime
<1>5. v = Assess(from, n)
  BY <1>1, <1>3
<1>6. from \subseteq Sample /\ Reported(from, rec) /\ Sampled(from, rec)
  BY <1>1, <1>2
<1>7. /\ v.of = n /\ v.doubts = disputed
      /\ v.status = "RECOVERED" => \A h \in Handles : Sustained(h, n, rec, disputed, time, from)
  BY <1>4, <1>5, <1>6, AssessIsSustained
<1>8. n # 0
  OBVIOUS
<1>9. QED
  BY <1>1, <1>2, <1>3, <1>7, <1>8 DEF VerdictSustained

LEMMA TicksKeeps ==
  ASSUME RecoveryInv, Ticks
  PROVE  RecoveryInv'
<1> USE DEF Ticks
<1>1. RecoveryTypeOK'
  BY DEF RecoveryInv, RecoveryTypeOK
<1>2. ReportsInTime(reports, time)'
  <2>1. reports' \subseteq reports /\ time' = time + 1 /\ time \in Nat /\ \A r \in reports : r.at \in Nat
    BY DEF RecoveryInv, RecoveryTypeOK, Report
  <2>2. QED
    BY <2>1 DEF RecoveryInv, ReportsInTime
<1>3. (Reported(samples, received) /\ Sampled(samples, received) /\ (Open => episode.n # 0))'
  BY DEF RecoveryInv, Reported, Sampled, Open
<1>4. VerdictSustained'
  BY DEF VerdictSustained, NoVerdict
<1>5. QED
  BY <1>1, <1>2, <1>3, <1>4 DEF RecoveryInv

\* The steps that leave the reports taken in, the samples and the verdict as they are.
LEMMA VerdictUnchanged ==
  ASSUME RecoveryInv, UNCHANGED <<time, received, samples, verdict, episode>>
  PROVE  (Reported(samples, received) /\ Sampled(samples, received) /\ (Open => episode.n # 0) /\ VerdictSustained)'
<1>1. (Reported(samples, received) /\ Sampled(samples, received) /\ (Open => episode.n # 0))'
  BY DEF RecoveryInv, Reported, Sampled, Open
<1>2. VerdictSustained'
  BY DEF RecoveryInv, VerdictSustained
<1>3. QED
  BY <1>1, <1>2

LEMMA ScanKeeps ==
  ASSUME RecoveryInv, Scan
  PROVE  RecoveryInv'
<1>1. PICK reading \in [Handles -> Readings], complete \in BOOLEAN :
        reports' = reports \cup {[at |-> time, generation |-> collector.generation,
                                  reading |-> reading, complete |-> complete]}
  BY DEF Scan
<1> DEFINE new == [at |-> time, generation |-> collector.generation, reading |-> reading, complete |-> complete]
<1>2. new \in Report /\ new.at = time
  BY DEF RecoveryInv, RecoveryTypeOK, Report
<1> HIDE DEF new
<1>3. reports' = reports \cup {new} /\ \A r \in reports : r.at # time
  BY <1>1 DEF new, Scan
<1>4. RecoveryTypeOK'
  BY <1>2, <1>3 DEF RecoveryInv, RecoveryTypeOK, Scan
<1>5. ReportsInTime(reports, time)'
  <2>1. time' = time /\ time \in Nat
    BY DEF Scan, RecoveryInv, RecoveryTypeOK
  <2>2. QED
    BY <1>2, <1>3, <2>1 DEF RecoveryInv, ReportsInTime
<1>6. UNCHANGED <<time, received, samples, verdict, episode>>
  BY DEF Scan
<1>7. QED
  BY <1>4, <1>5, <1>6, VerdictUnchanged DEF RecoveryInv

LEMMA CollectorKeeps ==
  ASSUME RecoveryInv, RenewCredential \/ RevokeCollector
  PROVE  RecoveryInv'
<1>1. collector' \in [generation : Nat, revoked : BOOLEAN]
  <2>1. collector \in [generation : Nat, revoked : BOOLEAN]
    BY DEF RecoveryInv, RecoveryTypeOK
  <2>2. PICK g \in Nat : g = collector.generation + 1
    BY <2>1
  <2>3. CASE RenewCredential
    BY <2>1, <2>2, <2>3 DEF RenewCredential
  <2>4. CASE RevokeCollector
    BY <2>1, <2>4 DEF RevokeCollector
  <2>5. QED
    BY <2>3, <2>4
<1>2. UNCHANGED <<time, reports, received, samples, verdict, episode>>
  BY DEF RenewCredential, RevokeCollector
<1>3. RecoveryTypeOK' /\ ReportsInTime(reports, time)'
  BY <1>1, <1>2 DEF RecoveryInv, RecoveryTypeOK, ReportsInTime
<1>4. QED
  BY <1>2, <1>3, VerdictUnchanged DEF RecoveryInv

LEMMA DisputeKeeps ==
  ASSUME RecoveryInv, NEW s, DisputeSample(s)
  PROVE  RecoveryInv'
<1>1. UNCHANGED <<time, collector, reports, received, samples, verdict, episode>>
  BY DEF DisputeSample
<1>2. RecoveryTypeOK' /\ ReportsInTime(reports, time)'
  BY <1>1 DEF RecoveryInv, RecoveryTypeOK, ReportsInTime
<1>3. QED
  BY <1>1, <1>2, VerdictUnchanged DEF RecoveryInv

LEMMA AssessKeeps ==
  ASSUME RecoveryInv, AssessRecovery \/ CloseIncident
  PROVE  RecoveryInv'
<1>1. /\ UNCHANGED <<time, collector, reports, received, samples>>
      /\ verdict' = Assess(samples, episode.n) /\ episode.n > 0
  BY DEF AssessRecovery, CloseIncident
<1>2. episode' \in [n : Nat, state : {"OPEN", "RECOVERED", "CLOSED"}] /\ episode'.n = episode.n
  BY DEF AssessRecovery, CloseIncident, RecoveryInv, RecoveryTypeOK
<1>3. RecoveryTypeOK' /\ ReportsInTime(reports, time)'
  BY <1>1, <1>2 DEF RecoveryInv, RecoveryTypeOK, ReportsInTime
<1>4. (Reported(samples, received) /\ Sampled(samples, received))'
  BY <1>1 DEF RecoveryInv, Reported, Sampled
<1>5. PICK n \in Nat \ {0} : n = episode.n
  BY <1>1 DEF RecoveryInv, RecoveryTypeOK
<1>6. verdict' = Assess(samples', n)
  BY <1>1, <1>5
<1>7. VerdictSustained'
  <2>1. Reported(samples', received') /\ Sampled(samples', received')
    BY <1>4
  <2>2. samples' \subseteq Sample /\ DOMAIN received' \subseteq reports
    BY <1>1 DEF RecoveryInv, RecoveryTypeOK
  <2>3. QED
    BY <1>1, <1>6, <2>1, <2>2, VerdictStep
<1>8. (Open => episode.n # 0)'
  BY <1>2, <1>5 DEF Open
<1>9. QED
  BY <1>3, <1>4, <1>7, <1>8 DEF RecoveryInv
\* A report that joins incident n: its samples, but for those a later one overtook.
LEMMA IngestJoins ==
  ASSUME RecoveryInv, NEW r \in reports, r \notin DOMAIN received, NEW n \in Nat \ {0}, NEW added,
         added = {SampleOf(r, h, n) : h \in {x \in Handles : ~Overtaken(r, x, n)}},
         samples' = samples \cup added,
         received' = [x \in DOMAIN received \cup {r} |-> IF x = r THEN n ELSE received[x]]
  PROVE  /\ samples' \subseteq Sample
         /\ DOMAIN received' \subseteq reports /\ received' \in [DOMAIN received' -> Nat]
         /\ Reported(samples', received') /\ Sampled(samples', received')
<1>1. r \in Report /\ samples \subseteq Sample /\ DOMAIN received \subseteq reports
      /\ received \in [DOMAIN received -> Nat]
  BY DEF RecoveryInv, RecoveryTypeOK
<1>2. ASSUME NEW h \in Handles
      PROVE  /\ SampleOf(r, h, n) \in Sample
             /\ SampleOf(r, h, n).of = n /\ SampleOf(r, h, n).handle = h
             /\ SampleOf(r, h, n).reading = r.reading[h] /\ SampleOf(r, h, n).at = r.at
  BY <1>1 DEF SampleOf, Sample, Report
<1>3. added \subseteq Sample
  BY <1>2
<1>4. DOMAIN received' = DOMAIN received \cup {r} /\ received'[r] = n
      /\ \A x \in DOMAIN received : received'[x] = received[x]
  OBVIOUS
<1>5. DOMAIN received' \subseteq reports /\ received' \in [DOMAIN received' -> Nat]
  BY <1>1, <1>4
<1>6. Reported(samples', received')
  <2>1. ASSUME NEW s \in samples'
        PROVE  \E q \in DOMAIN received', h \in Handles : received'[q] = s.of /\ s = SampleOf(q, h, s.of)
    <3>1. CASE s \in samples
      <4>1. PICK q \in DOMAIN received, h \in Handles : received[q] = s.of /\ s = SampleOf(q, h, s.of)
        BY <3>1 DEF RecoveryInv, Reported
      <4>2. q \in DOMAIN received' /\ received'[q] = s.of
        BY <4>1, <1>4
      <4>3. QED
        BY <4>1, <4>2
    <3>2. CASE s \in added
      <4>1. PICK h \in Handles : s = SampleOf(r, h, n)
        BY <3>2
      <4>2. s.of = n
        BY <4>1, <1>2
      <4>3. QED
        BY <4>1, <4>2, <1>4
    <3>3. QED
      BY <3>1, <3>2
  <2>2. QED
    BY <2>1 DEF Reported
<1>7. Sampled(samples', received')
  <2>1. ASSUME NEW q \in DOMAIN received', NEW h \in Handles, received'[q] # 0
        PROVE  \E s \in samples' : s.of = received'[q] /\ s.handle = h /\ CodeOf(s.reading) = CodeOf(q.reading[h]) /\ s.at >= q.at
    <3>1. CASE q # r
      <4>1. q \in DOMAIN received /\ received'[q] = received[q]
        BY <3>1, <1>4
      <4>2. PICK s \in samples : s.of = received[q] /\ s.handle = h /\ CodeOf(s.reading) = CodeOf(q.reading[h]) /\ s.at >= q.at
        BY <4>1, <2>1 DEF RecoveryInv, Sampled
      <4>3. QED
        BY <4>1, <4>2
    <3>2. CASE q = r /\ Overtaken(r, h, n)
      <4>1. PICK s \in samples : s.of = n /\ s.handle = h /\ CodeOf(s.reading) = CodeOf(r.reading[h]) /\ s.at >= r.at
        BY <3>2 DEF Overtaken
      <4>2. QED
        BY <3>2, <4>1, <1>4
    <3>3. CASE q = r /\ ~Overtaken(r, h, n)
      <4>1. SampleOf(r, h, n) \in samples'
        BY <3>3
      <4>2. r.at \in Nat
        BY <1>1 DEF Report
      <4>3. QED
        BY <3>3, <4>1, <4>2, <1>2, <1>4
    <3>4. QED
      BY <3>1, <3>2, <3>3
  <2>2. QED
    BY <2>1 DEF Sampled
<1>8. QED
  BY <1>1, <1>3, <1>5, <1>6, <1>7

LEMMA IngestKeeps ==
  ASSUME RecoveryInv, NEW r \in reports, Ingest(r)
  PROVE  RecoveryInv'
<1> DEFINE n == IF Open THEN episode.n ELSE episode.n + 1
           added == {SampleOf(r, h, n) : h \in {x \in Handles : ~Overtaken(r, x, n)}}
           silent == ~Open /\ ~HasFinding(r)
<1>1. /\ r \notin DOMAIN received
      /\ UNCHANGED <<time, collector, reports, disputed>>
      /\ IF silent
           THEN /\ received' = [x \in DOMAIN received \cup {r} |-> IF x = r THEN 0 ELSE received[x]]
                /\ UNCHANGED <<samples, episode, verdict>>
           ELSE /\ received' = [x \in DOMAIN received \cup {r} |-> IF x = r THEN n ELSE received[x]]
                /\ samples' = samples \cup added
                /\ verdict' = Assess(samples \cup added, n)
                /\ episode' = [n |-> n, state |-> StateAfter(Assess(samples \cup added, n), IF Open THEN episode.state ELSE "OPEN")]
  BY Zenon DEF Ingest
<1>2. /\ time \in Nat /\ DOMAIN received \subseteq reports /\ received \in [DOMAIN received -> Nat]
      /\ episode \in [n : Nat, state : {"OPEN", "RECOVERED", "CLOSED"}]
  BY DEF RecoveryInv, RecoveryTypeOK
<1>3. ReportsInTime(reports, time)'
  BY <1>1 DEF RecoveryInv, ReportsInTime
<1>4. n \in Nat \ {0}
  BY <1>2 DEF RecoveryInv, Open
<1> HIDE DEF n, silent, added
<1>5. CASE silent
  <2>1. received' = [x \in DOMAIN received \cup {r} |-> IF x = r THEN 0 ELSE received[x]]
        /\ UNCHANGED <<samples, episode, verdict>>
    BY <1>1, <1>5
  <2>2. DOMAIN received' = DOMAIN received \cup {r} /\ received'[r] = 0
        /\ \A x \in DOMAIN received : received'[x] = received[x]
    BY <2>1, <1>1
  <2>3. received' \in [DOMAIN received' -> Nat] /\ DOMAIN received' \subseteq reports
    BY <2>1, <2>2, <1>2
  <2>4. RecoveryTypeOK'
    BY <2>1, <2>3, <1>1 DEF RecoveryInv, RecoveryTypeOK
  <2>5. Reported(samples, received)'
    BY <2>1, <2>2 DEF RecoveryInv, Reported
  <2>6. Sampled(samples, received)'
    <3>1. ASSUME NEW q \in DOMAIN received', NEW h \in Handles, received'[q] # 0
          PROVE  \E s \in samples' : s.of = received'[q] /\ s.handle = h /\ CodeOf(s.reading) = CodeOf(q.reading[h]) /\ s.at >= q.at
      <4>1. q \in DOMAIN received /\ received'[q] = received[q]
        BY <3>1, <2>2
      <4>2. \E s \in samples : s.of = received[q] /\ s.handle = h /\ CodeOf(s.reading) = CodeOf(q.reading[h]) /\ s.at >= q.at
        BY <3>1, <4>1 DEF RecoveryInv, Sampled
      <4>3. QED
        BY <4>1, <4>2, <2>1
    <3>2. QED
      BY <3>1 DEF Sampled
  <2>7. VerdictSustained'
    <3>1. SUFFICES ASSUME verdict.status = "RECOVERED"
                   PROVE  verdict.of # 0 /\ \A h \in Handles : Sustained(h, verdict.of, received', verdict.doubts, time, samples)
      BY <2>1, <1>1 DEF VerdictSustained
    <3>2. verdict.of # 0 /\ \A h \in Handles : Sustained(h, verdict.of, received, verdict.doubts, time, samples)
      BY <3>1 DEF RecoveryInv, VerdictSustained
    <3>3. PICK of, doubts, t, rec, wider, store :
            store = samples /\ of = verdict.of /\ doubts = verdict.doubts /\ t = time /\ rec = received /\ wider = received'
      OBVIOUS
    <3>4. ASSUME NEW h \in Handles PROVE Sustained(h, of, wider, doubts, t, store)
      <4>1. of # 0 /\ r \notin DOMAIN rec /\ Sustained(h, of, rec, doubts, t, store)
            /\ wider = [x \in DOMAIN rec \cup {r} |-> IF x = r THEN 0 ELSE rec[x]]
        BY <3>2, <3>3, <2>1, <1>1
      <4>2. QED
        BY <4>1, SustainedWithout
    <3>5. QED
      BY <3>2, <3>3, <3>4
  <2>8. (Open => episode.n # 0)'
    BY <2>1 DEF RecoveryInv, Open
  <2>9. QED
    BY <2>4, <2>5, <2>6, <2>7, <2>8, <1>3 DEF RecoveryInv
<1>6. CASE ~silent
  <2>1. PICK m, add, v :
          m = n /\ add = added /\ v = Assess(samples \cup added, n)
    OBVIOUS
  <2>2. m \in Nat \ {0} /\ add = {SampleOf(r, h, m) : h \in {x \in Handles : ~Overtaken(r, x, m)}}
    BY <2>1, <1>4 DEF added
  <2>3. /\ received' = [x \in DOMAIN received \cup {r} |-> IF x = r THEN m ELSE received[x]]
        /\ samples' = samples \cup add
        /\ verdict' = Assess(samples', m)
        /\ episode' = [n |-> m, state |-> StateAfter(v, IF Open THEN episode.state ELSE "OPEN")]
    BY <1>1, <1>6, <2>1
  <2>4. /\ samples' \subseteq Sample
        /\ DOMAIN received' \subseteq reports /\ received' \in [DOMAIN received' -> Nat]
        /\ Reported(samples', received') /\ Sampled(samples', received')
    BY <2>2, <2>3, <1>1, IngestJoins
  <2>5. VerdictSustained'
    BY <2>2, <2>3, <2>4, <1>1, VerdictStep
  <2>6. episode' \in [n : Nat, state : {"OPEN", "RECOVERED", "CLOSED"}] /\ episode'.n = m
    BY <2>2, <2>3, <1>2 DEF StateAfter
  <2>7. RecoveryTypeOK'
    BY <2>4, <2>6, <1>1 DEF RecoveryInv, RecoveryTypeOK
  <2>8. (Open => episode.n # 0)'
    BY <2>2, <2>6
  <2>9. (Reported(samples, received) /\ Sampled(samples, received))'
    BY <2>4
  <2>10. QED
    BY <2>5, <2>7, <2>8, <2>9, <1>3 DEF RecoveryInv
<1>7. QED
  BY <1>5, <1>6

LEMMA RecoveryInvNext ==
  ASSUME RecoveryInv, [RecoveryNext]_recoveryVars
  PROVE  RecoveryInv'
<1>1. CASE Ticks
  BY <1>1, TicksKeeps
<1>2. CASE Scan
  BY <1>2, ScanKeeps
<1>3. CASE RenewCredential \/ RevokeCollector
  BY <1>3, CollectorKeeps
<1>4. CASE \E r \in reports : Ingest(r)
  BY <1>4, IngestKeeps
<1>5. CASE AssessRecovery \/ CloseIncident
  BY <1>5, AssessKeeps
<1>6. CASE \E s \in samples : DisputeSample(s)
  BY <1>6, DisputeKeeps
<1>7. CASE UNCHANGED recoveryVars
  <2>1. UNCHANGED <<time, collector, reports, received, samples, verdict, episode>>
    BY <1>7 DEF recoveryVars
  <2>2. RecoveryTypeOK' /\ ReportsInTime(reports, time)'
    BY <2>1 DEF RecoveryInv, RecoveryTypeOK, ReportsInTime
  <2>3. QED
    BY <2>1, <2>2, VerdictUnchanged DEF RecoveryInv
<1>8. QED
  BY <1>1, <1>2, <1>3, <1>4, <1>5, <1>6, <1>7 DEF RecoveryNext

\* An incident is called recovered only on what the collector itself saw, over the
\* whole window, whatever order the reports came in and whatever was refused, disputed
\* or overtaken in between; only a Healthy report with too few ready replicas that came after
\* a newer one escapes it (AssessWindow over HealthSamples).
THEOREM RecoveredIsSustainedThm == RecoverySpec => []RecoveredIsSustained
<1>1. RecoveryInv => RecoveredIsSustained
  BY DEF RecoveryInv, VerdictSustained, Sustained, ReadyOrSkipped, RecoveredIsSustained, ChainOf
<1>2. QED
  BY <1>1, RecoveryInvInit, RecoveryInvNext, PTL DEF RecoverySpec

-----------------------------------------------------------------------------
(* Lineage as a function of the claims below. *)

Observations == Codes \X (1..LastVersion)

\* What a claim may name: observations, and claims before it.
Refs(n) == Observations \cup {Claim(m) : m \in 1..(n - 1)}

\* Claims are numbered in the order of their creation and name only earlier ones.
Founded(edges) ==
  /\ \E k \in Nat : DOMAIN edges = 1..k
  /\ \A n \in DOMAIN edges : edges[n].parents \subseteq Refs(n) /\ edges[n].historic \subseteq Refs(n)

\* What guided a claim is among its historic edges.
Guided(edges, cs) ==
  \A n \in DOMAIN edges : \A g \in edges[n].guides :
    cs[g].claim \in edges[n].historic /\ cs[g].recovery \subseteq edges[n].historic

\* One reference, and one claim, of LineageOf.
Up(f, ref) == IF IsClaim(ref) THEN f[ref[2]] ELSE {<<ref, FALSE>>}
UpStep(edges, f, n) ==
  {<<Claim(n), FALSE>>}
    \cup (UNION {Up(f, p) : p \in edges[n].parents})
    \cup {<<x[1], TRUE>> : x \in UNION {Up(f, p) : p \in edges[n].historic}}

\* One reference, and one claim, of RestsOn.
Rest(f, ref) == IF IsClaim(ref) THEN {ref} \cup f[ref[2]] ELSE {ref}
OnStep(edges, cs, f, n) ==
  (UNION {Rest(f, p) : p \in edges[n].parents})
    \cup UNION {Rest(f, cs[g].claim) \cup cs[g].recovery : g \in edges[n].guides}
OnOf(edges, cs) == CHOOSE on : on = [n \in DOMAIN edges |-> OnStep(edges, cs, on, n)]

LEMMA LineageOfIs ==
  ASSUME NEW edges
  PROVE  LineageOf(edges) = CHOOSE up : up = [n \in DOMAIN edges |-> UpStep(edges, up, n)]
  BY DEF LineageOf, UpStep, Up

LEMMA RestsOnIs == RestsOn = OnOf(claims, cases)
  BY DEF RestsOn, OnOf, OnStep, Rest

\* A reference below claim n is an observation or a claim before n.
LEMMA RefsBelow ==
  ASSUME NEW n \in Nat, NEW ref \in Refs(n)
  PROVE  \/ ~IsClaim(ref) /\ ref \in Observations
         \/ IsClaim(ref) /\ ref[2] \in 1..(n - 1) /\ ref = Claim(ref[2])
<1>1. CASE ref \in Observations
  BY <1>1 DEF Observations, IsClaim, Codes
<1>2. CASE ref \in {Claim(m) : m \in 1..(n - 1)}
  BY <1>2 DEF Claim, IsClaim
<1>3. QED
  BY <1>1, <1>2 DEF Refs

\* The step at n looks only at what is below n.
LEMMA UpStepIsLocal ==
  ASSUME NEW edges, Founded(edges), NEW n \in DOMAIN edges, NEW f, NEW g, \A m \in 1..(n - 1) : f[m] = g[m]
  PROVE  UpStep(edges, f, n) = UpStep(edges, g, n)
<1>1. n \in Nat /\ edges[n].parents \subseteq Refs(n) /\ edges[n].historic \subseteq Refs(n)
  BY DEF Founded
<1>2. ASSUME NEW ref \in Refs(n) PROVE Up(f, ref) = Up(g, ref)
  BY <1>1, RefsBelow DEF Up
<1>3. {Up(f, p) : p \in edges[n].parents} = {Up(g, p) : p \in edges[n].parents}
  BY <1>1, <1>2
<1>4. {Up(f, p) : p \in edges[n].historic} = {Up(g, p) : p \in edges[n].historic}
  BY <1>1, <1>2
<1>5. QED
  BY <1>3, <1>4 DEF UpStep

LEMMA OnStepIsLocal ==
  ASSUME NEW edges, NEW cs, Founded(edges), Guided(edges, cs), NEW n \in DOMAIN edges,
         NEW f, NEW g, \A m \in 1..(n - 1) : f[m] = g[m]
  PROVE  OnStep(edges, cs, f, n) = OnStep(edges, cs, g, n)
<1>1. n \in Nat /\ edges[n].parents \subseteq Refs(n) /\ edges[n].historic \subseteq Refs(n)
  BY DEF Founded
<1>2. ASSUME NEW ref \in Refs(n) PROVE Rest(f, ref) = Rest(g, ref)
  BY <1>1, RefsBelow DEF Rest
<1>3. {Rest(f, p) : p \in edges[n].parents} = {Rest(g, p) : p \in edges[n].parents}
  BY <1>1, <1>2
<1>4. ASSUME NEW c \in edges[n].guides PROVE Rest(f, cs[c].claim) = Rest(g, cs[c].claim)
  BY <1>1, <1>2 DEF Guided
<1>5. {Rest(f, cs[c].claim) \cup cs[c].recovery : c \in edges[n].guides}
        = {Rest(g, cs[c].claim) \cup cs[c].recovery : c \in edges[n].guides}
  BY <1>4
<1>6. QED
  BY <1>3, <1>5 DEF OnStep

\* LineageOf obeys its equation.
LEMMA LineageOfUnfolds ==
  ASSUME NEW edges, Founded(edges)
  PROVE  \A n \in DOMAIN edges : LineageOf(edges)[n] = UpStep(edges, LineageOf(edges), n)
<1>1. PICK l \in Nat : DOMAIN edges = 1..l
  BY DEF Founded
<1> DEFINE Has(k) == \E f : f = [n \in 1..k |-> UpStep(edges, f, n)]
           T == {k \in 0..l : ~Has(k)}
<1>2. T = {}
  <2> SUFFICES ASSUME T # {} PROVE FALSE
    OBVIOUS
  <2>1. PICK k \in T : \A j \in T : k <= j
    <3>1. T \subseteq Nat
      BY <1>1
    <3> HIDE DEF T
    <3>2. QED
      BY <3>1, LeastNat
  <2>2. k \in 0..l /\ ~Has(k)
    OBVIOUS
  <2>3. k # 0
    <3>1. PICK f : f = [n \in {} |-> {}]
      OBVIOUS
    <3>2. f = [n \in 1..0 |-> UpStep(edges, f, n)]
      BY <3>1
    <3>3. Has(0)
      BY <3>2
    <3>4. QED
      BY <3>3, <2>2
  <2>4. k - 1 \in 0..l /\ ~(k <= k - 1) /\ k \in 1..l /\ k \in Nat
    BY <2>2, <2>3, <1>1
  <2>5. Has(k - 1)
    BY <2>1, <2>4
  <2>6. PICK f : f = [n \in 1..(k - 1) |-> UpStep(edges, f, n)]
    BY <2>5
  <2> DEFINE g == [n \in 1..k |-> IF n = k THEN UpStep(edges, f, k) ELSE f[n]]
  <2>7. ASSUME NEW n \in 1..k PROVE g[n] = UpStep(edges, g, n)
    <3>1. n \in DOMAIN edges /\ n \in Nat
      BY <1>1, <2>4
    <3>2. \A m \in 1..(n - 1) : m \in 1..k /\ m # k /\ g[m] = f[m]
      BY <3>1, <2>4
    <3> HIDE DEF g
    <3>3. UpStep(edges, g, n) = UpStep(edges, f, n)
      BY <3>1, <3>2, UpStepIsLocal
    <3>4. CASE n = k
      BY <3>3, <3>4 DEF g
    <3>5. CASE n # k
      <4>1. n \in 1..(k - 1)
        BY <3>5, <2>4
      <4>2. f[n] = UpStep(edges, f, n)
        BY <4>1, <2>6
      <4>3. g[n] = f[n]
        BY <3>5 DEF g
      <4>4. QED
        BY <4>2, <4>3, <3>3
    <3>6. QED
      BY <3>4, <3>5
  <2>8. g = [n \in 1..k |-> g[n]]
    OBVIOUS
  <2> HIDE DEF g
  <2>9. g = [n \in 1..k |-> UpStep(edges, g, n)]
    BY <2>7, <2>8, Zenon
  <2>10. Has(k)
    BY <2>9
  <2>11. QED
    BY <2>10, <2>2
<1>3. Has(l)
  BY <1>1, <1>2
<1> DEFINE up == LineageOf(edges)
<1>4. up = [n \in 1..l |-> UpStep(edges, up, n)]
  BY <1>1, <1>3, LineageOfIs
<1> HIDE DEF up
<1>5. \A n \in 1..l : up[n] = UpStep(edges, up, n)
  BY <1>4
<1>6. QED
  BY <1>1, <1>5 DEF up

\* And so does RestsOn.
LEMMA OnOfUnfolds ==
  ASSUME NEW edges, NEW cs, Founded(edges), Guided(edges, cs)
  PROVE  \A n \in DOMAIN edges : OnOf(edges, cs)[n] = OnStep(edges, cs, OnOf(edges, cs), n)
<1>1. PICK l \in Nat : DOMAIN edges = 1..l
  BY DEF Founded
<1> DEFINE Has(k) == \E f : f = [n \in 1..k |-> OnStep(edges, cs, f, n)]
           T == {k \in 0..l : ~Has(k)}
<1>2. T = {}
  <2> SUFFICES ASSUME T # {} PROVE FALSE
    OBVIOUS
  <2>1. PICK k \in T : \A j \in T : k <= j
    <3>1. T \subseteq Nat
      BY <1>1
    <3> HIDE DEF T
    <3>2. QED
      BY <3>1, LeastNat
  <2>2. k \in 0..l /\ ~Has(k)
    OBVIOUS
  <2>3. k # 0
    <3>1. PICK f : f = [n \in {} |-> {}]
      OBVIOUS
    <3>2. f = [n \in 1..0 |-> OnStep(edges, cs, f, n)]
      BY <3>1
    <3>3. Has(0)
      BY <3>2
    <3>4. QED
      BY <3>3, <2>2
  <2>4. k - 1 \in 0..l /\ ~(k <= k - 1) /\ k \in 1..l /\ k \in Nat
    BY <2>2, <2>3, <1>1
  <2>5. Has(k - 1)
    BY <2>1, <2>4
  <2>6. PICK f : f = [n \in 1..(k - 1) |-> OnStep(edges, cs, f, n)]
    BY <2>5
  <2> DEFINE g == [n \in 1..k |-> IF n = k THEN OnStep(edges, cs, f, k) ELSE f[n]]
  <2>7. ASSUME NEW n \in 1..k PROVE g[n] = OnStep(edges, cs, g, n)
    <3>1. n \in DOMAIN edges /\ n \in Nat
      BY <1>1, <2>4
    <3>2. \A m \in 1..(n - 1) : m \in 1..k /\ m # k /\ g[m] = f[m]
      BY <3>1, <2>4
    <3> HIDE DEF g
    <3>3. OnStep(edges, cs, g, n) = OnStep(edges, cs, f, n)
      BY <3>1, <3>2, OnStepIsLocal
    <3>4. CASE n = k
      BY <3>3, <3>4 DEF g
    <3>5. CASE n # k
      <4>1. n \in 1..(k - 1)
        BY <3>5, <2>4
      <4>2. f[n] = OnStep(edges, cs, f, n)
        BY <4>1, <2>6
      <4>3. g[n] = f[n]
        BY <3>5 DEF g
      <4>4. QED
        BY <4>2, <4>3, <3>3
    <3>6. QED
      BY <3>4, <3>5
  <2>8. g = [n \in 1..k |-> g[n]]
    OBVIOUS
  <2> HIDE DEF g
  <2>9. g = [n \in 1..k |-> OnStep(edges, cs, g, n)]
    BY <2>7, <2>8, Zenon
  <2>10. Has(k)
    BY <2>9
  <2>11. QED
    BY <2>10, <2>2
<1>3. Has(l)
  BY <1>1, <1>2
<1> DEFINE on == OnOf(edges, cs)
<1>4. on = [n \in 1..l |-> OnStep(edges, cs, on, n)]
  BY <1>1, <1>3 DEF OnOf
<1> HIDE DEF on
<1>5. \A n \in 1..l : on[n] = OnStep(edges, cs, on, n)
  BY <1>4
<1>6. QED
  BY <1>1, <1>5 DEF on

\* All that the claims before n rest on is in their lineage.
CoversBelow(n, on, up) ==
  \A m \in 1..(n - 1) : /\ \A y \in on[m] : \E x \in up[m] : x[1] = y
                        /\ <<Claim(m), FALSE>> \in up[m]
CoversRef(ref, on, up) == \A y \in Rest(on, ref) : \E x \in Up(up, ref) : x[1] = y

\* Everything under a reference is in its lineage, if so for the claims below.
LEMMA RestIsCovered ==
  ASSUME NEW n \in Nat, NEW ref \in Refs(n), NEW on, NEW up, CoversBelow(n, on, up)
  PROVE  CoversRef(ref, on, up)
<1>0. SUFFICES \A y \in Rest(on, ref) : \E x \in Up(up, ref) : x[1] = y
  BY DEF CoversRef
<1>1. CASE ~IsClaim(ref)
  <2>1. Rest(on, ref) = {ref} /\ <<ref, FALSE>> \in Up(up, ref) /\ <<ref, FALSE>>[1] = ref
    BY <1>1 DEF Rest, Up
  <2>2. QED
    BY <2>1
<1>2. CASE IsClaim(ref)
  <2>1. ref[2] \in 1..(n - 1) /\ ref = Claim(ref[2])
    BY <1>2, RefsBelow
  <2>2. Rest(on, ref) = {ref} \cup on[ref[2]] /\ Up(up, ref) = up[ref[2]]
    BY <1>2 DEF Rest, Up
  <2>3. <<ref, FALSE>> \in up[ref[2]] /\ <<ref, FALSE>>[1] = ref
    BY <2>1 DEF CoversBelow
  <2>4. \A y \in on[ref[2]] : \E x \in up[ref[2]] : x[1] = y
    BY <2>1 DEF CoversBelow
  <2>5. \A y \in {ref} \cup on[ref[2]] : \E x \in up[ref[2]] : x[1] = y
    BY <2>3, <2>4
  <2>6. QED
    BY <2>2, <2>5
<1>3. QED
  BY <1>1, <1>2

\* What a claim rests on is in its recorded lineage.
LEMMA OnIsCovered ==
  ASSUME NEW edges, NEW cs, Founded(edges), Guided(edges, cs)
  PROVE  \A n \in DOMAIN edges :
           /\ \A y \in OnOf(edges, cs)[n] : \E x \in LineageOf(edges)[n] : x[1] = y
           /\ <<Claim(n), FALSE>> \in LineageOf(edges)[n]
<1> DEFINE on == OnOf(edges, cs)
           up == LineageOf(edges)
           Covers(n) == \A y \in on[n] : \E x \in up[n] : x[1] = y
           T == {n \in DOMAIN edges : ~Covers(n)}
<1>1. \A n \in DOMAIN edges : up[n] = UpStep(edges, up, n) /\ on[n] = OnStep(edges, cs, on, n)
  BY LineageOfUnfolds, OnOfUnfolds
<1>2. PICK l \in Nat : DOMAIN edges = 1..l
  BY DEF Founded
<1> HIDE DEF on, up
<1>3. \A n \in DOMAIN edges : <<Claim(n), FALSE>> \in up[n]
  BY <1>1 DEF UpStep
<1>4. T = {}
  <2> SUFFICES ASSUME T # {} PROVE FALSE
    OBVIOUS
  <2>1. PICK n \in T : \A j \in T : n <= j
    <3>1. T \subseteq Nat
      BY <1>2
    <3> HIDE DEF T
    <3>2. QED
      BY <3>1, LeastNat
  <2>2. n \in DOMAIN edges /\ n \in Nat /\ ~Covers(n)
    BY <1>2
  <2>3. PICK y \in on[n] : \A x \in up[n] : x[1] # y
    BY <2>2
  <2>4. ASSUME NEW m \in 1..(n - 1)
        PROVE  Covers(m) /\ <<Claim(m), FALSE>> \in up[m]
    <3>1. m \in DOMAIN edges /\ ~(n <= m)
      BY <2>2, <1>2
    <3>2. QED
      BY <3>1, <2>1, <1>3
  <2>5. ASSUME NEW ref \in Refs(n)
        PROVE  \A z \in Rest(on, ref) : \E x \in Up(up, ref) : x[1] = z
    <3>1. CoversBelow(n, on, up)
      BY <2>4 DEF CoversBelow
    <3>2. CoversRef(ref, on, up)
      BY <3>1, <2>2, RestIsCovered
    <3>3. QED
      BY <3>2 DEF CoversRef
  <2>6. edges[n].parents \subseteq Refs(n) /\ edges[n].historic \subseteq Refs(n)
    BY <2>2 DEF Founded
  <2>7. ASSUME NEW ref \in edges[n].parents, NEW x \in Up(up, ref) PROVE x \in up[n]
    <3>1. x \in UNION {Up(up, p) : p \in edges[n].parents}
      OBVIOUS
    <3>2. up[n] = UpStep(edges, up, n)
      BY <1>1, <2>2
    <3>3. QED
      BY <3>1, <3>2, Zenon DEF UpStep
  <2>8. ASSUME NEW ref \in edges[n].historic, NEW x \in Up(up, ref) PROVE <<x[1], TRUE>> \in up[n]
    <3>1. x \in UNION {Up(up, p) : p \in edges[n].historic}
      OBVIOUS
    <3>2. up[n] = UpStep(edges, up, n)
      BY <1>1, <2>2
    <3>3. QED
      BY <3>1, <3>2, Zenon DEF UpStep
  <2>9. y \in OnStep(edges, cs, on, n)
    BY <1>1, <2>2
  <2>10. CASE \E ref \in edges[n].parents : y \in Rest(on, ref)
    BY <2>10, <2>3, <2>5, <2>6, <2>7
  <2>11. ASSUME NEW ref \in edges[n].historic, y \in Rest(on, ref) PROVE FALSE
    <3>1. PICK x \in Up(up, ref) : x[1] = y
      BY <2>11, <2>5, <2>6
    <3>2. <<x[1], TRUE>> \in up[n] /\ <<x[1], TRUE>>[1] = y
      BY <3>1, <2>8
    <3>3. QED
      BY <3>2, <2>3
  <2>12. ASSUME NEW g \in edges[n].guides, y \in cs[g].recovery PROVE \E ref \in edges[n].historic : y \in Rest(on, ref)
    <3>1. y \in edges[n].historic
      BY <2>2, <2>12 DEF Guided
    <3>2. y \in Rest(on, y)
      BY DEF Rest
    <3>3. QED
      BY <3>1, <3>2
  <2>13. CASE \E g \in edges[n].guides : y \in Rest(on, cs[g].claim) \/ y \in cs[g].recovery
    <3>1. PICK g \in edges[n].guides : y \in Rest(on, cs[g].claim) \/ y \in cs[g].recovery
      BY <2>13
    <3>2. cs[g].claim \in edges[n].historic
      BY <2>2 DEF Guided
    <3>3. QED
      BY <3>1, <3>2, <2>11, <2>12
  <2>14. QED
    BY <2>9, <2>10, <2>13 DEF OnStep
<1>5. QED
  BY <1>3, <1>4 DEF on, up

\* A claim that is added leaves what the others rest on as it was.
LEMMA OnExtends ==
  ASSUME NEW edges, NEW wider, NEW cs, Founded(edges), Founded(wider), Guided(edges, cs), Guided(wider, cs),
         DOMAIN edges \subseteq DOMAIN wider, \A n \in DOMAIN edges : wider[n] = edges[n]
  PROVE  \A n \in DOMAIN edges : OnOf(wider, cs)[n] = OnOf(edges, cs)[n]
<1> DEFINE on == OnOf(edges, cs)
           onw == OnOf(wider, cs)
           T == {n \in DOMAIN edges : onw[n] # on[n]}
<1>1. /\ \A n \in DOMAIN edges : on[n] = OnStep(edges, cs, on, n)
      /\ \A n \in DOMAIN wider : onw[n] = OnStep(wider, cs, onw, n)
  BY OnOfUnfolds
<1>2. PICK l \in Nat : DOMAIN edges = 1..l
  BY DEF Founded
<1> HIDE DEF on, onw
<1>3. T = {}
  <2> SUFFICES ASSUME T # {} PROVE FALSE
    OBVIOUS
  <2>1. PICK n \in T : \A j \in T : n <= j
    <3>1. T \subseteq Nat
      BY <1>2
    <3> HIDE DEF T
    <3>2. QED
      BY <3>1, LeastNat
  <2>2. n \in DOMAIN edges /\ n \in Nat /\ n \in DOMAIN wider /\ onw[n] # on[n]
    BY <1>2
  <2>3. ASSUME NEW m \in 1..(n - 1) PROVE onw[m] = on[m]
    <3>1. m \in DOMAIN edges /\ ~(n <= m)
      BY <2>2, <1>2
    <3>2. QED
      BY <3>1, <2>1
  <2>4. OnStep(wider, cs, onw, n) = OnStep(wider, cs, on, n)
    BY <2>2, <2>3, OnStepIsLocal
  <2>5. OnStep(wider, cs, on, n) = OnStep(edges, cs, on, n)
    BY <2>2 DEF OnStep
  <2>6. QED
    BY <1>1, <2>2, <2>4, <2>5
<1>4. QED
  BY <1>3 DEF on, onw

-----------------------------------------------------------------------------
(* The inductive invariant. *)

CaseRow == [version : Nat, state : {"NONE", "CANDIDATE", "ACTIVE", "RETIRED"}, claim : {Claim(m) : m \in Nat},
            recovery : SUBSET Observations, by : Stewards \cup {"nobody"}]
InquiryRow == [at : {"idle", "read", "asked"}, parents : SUBSET Observations, guides : SUBSET (Cases \X Nat)]

KnowledgeTypeOK ==
  /\ recoveries \subseteq SUBSET Observations
  /\ cases \in [Cases -> CaseRow]
  /\ inquiry \in [Inquiries -> InquiryRow]

\* A case speaks of a claim that was made, and keeps it.
CasesAreMade == \A g \in Cases : cases[g].state # "NONE" => cases[g].claim \in {Claim(m) : m \in DOMAIN claims}
GuidesAreCases == \A n \in DOMAIN claims : \A g \in claims[n].guides : g \in Cases /\ cases[g].state # "NONE"

KnowledgeInv ==
  /\ KnowledgeTypeOK
  /\ Founded(claims) /\ Guided(claims, cases)
  /\ CasesAreMade /\ GuidesAreCases

LEMMA KnowledgeInvInit ==
  ASSUME KnowledgeInit
  PROVE  KnowledgeInv
<1>1. DOMAIN claims = {} /\ 1..0 = {}
  BY DEF KnowledgeInit
<1>2. Founded(claims)
  <2>1. DOMAIN claims = 1..0 /\ 0 \in Nat
    BY <1>1
  <2>2. QED
    BY <1>1, <2>1 DEF Founded
<1>3. Guided(claims, cases) /\ GuidesAreCases
  BY <1>1 DEF Guided, GuidesAreCases
<1>4. NoCase \in CaseRow
  <2>1. <<"CLAIM", 0>> \in {Claim(m) : m \in Nat}
    BY DEF Claim
  <2>2. QED
    BY <2>1 DEF NoCase, CaseRow
<1>5. KnowledgeTypeOK /\ CasesAreMade
  BY <1>4 DEF KnowledgeInit, KnowledgeTypeOK, CasesAreMade, NoCase, NoInquiry, InquiryRow
<1>6. QED
  BY <1>2, <1>3, <1>5 DEF KnowledgeInv

\* What is under a reference that is found eligible is sound.
LEMMA EligibleRest ==
  ASSUME KnowledgeInv, NEW l \in Nat, DOMAIN claims = 1..l, NEW ref \in Refs(l + 1),
         Eligible(ref) \/ HistoricalEligible(ref)
  PROVE  \A y \in Rest(RestsOn, ref) : Sound(y)
<1>1. PICK up, on, edges, cs : up = LineageOf(claims) /\ on = RestsOn /\ edges = claims /\ cs = cases
  OBVIOUS
<1>2. \A m \in DOMAIN edges : /\ \A y \in on[m] : \E x \in up[m] : x[1] = y
                              /\ <<Claim(m), FALSE>> \in up[m]
  <2>1. Founded(edges) /\ Guided(edges, cs) /\ on = OnOf(edges, cs) /\ up = LineageOf(edges)
    BY <1>1, RestsOnIs DEF KnowledgeInv
  <2>2. \A m \in DOMAIN edges : /\ \A y \in OnOf(edges, cs)[m] : \E x \in LineageOf(edges)[m] : x[1] = y
                                /\ <<Claim(m), FALSE>> \in LineageOf(edges)[m]
    BY <2>1, OnIsCovered
  <2>3. QED
    BY <2>1, <2>2
<1>3. 1..((l + 1) - 1) = DOMAIN edges /\ l + 1 \in Nat
  BY <1>1
<1>4. \A y \in Rest(on, ref) : \E x \in Up(up, ref) : x[1] = y
  <2>1. CoversBelow(l + 1, on, up)
    BY <1>2, <1>3 DEF CoversBelow
  <2>2. CoversRef(ref, on, up)
    BY <2>1, <1>3, RestIsCovered
  <2>3. QED
    BY <2>2 DEF CoversRef
<1>5. Up(up, ref) = Lineage(ref)
  BY <1>1 DEF Up, Lineage
<1>6. \A x \in Lineage(ref) : Sound(x[1])
  BY DEF Eligible, HistoricalEligible, Uncontested, Sound
<1>7. QED
  BY <1>1, <1>4, <1>5, <1>6
LEMMA StoredIsObserved == Stored \subseteq Observations
  BY DEF Stored, Observations

\* The steps that touch no claim, no case and no investigation.
LEMMA EvidenceKeeps ==
  ASSUME KnowledgeInv, UNCHANGED <<claims, recoveries, cases, inquiry>>
  PROVE  KnowledgeInv'
<1>1. KnowledgeTypeOK' /\ CasesAreMade' /\ GuidesAreCases'
  BY DEF KnowledgeInv, KnowledgeTypeOK, CasesAreMade, GuidesAreCases
<1>2. Founded(claims)' /\ Guided(claims, cases)'
  BY DEF KnowledgeInv, Founded, Guided
<1>3. QED
  BY <1>1, <1>2 DEF KnowledgeInv

LEMMA RecoversKeeps ==
  ASSUME KnowledgeInv, NEW refs \in SUBSET Stored, Recovers(refs)
  PROVE  KnowledgeInv'
<1>1. UNCHANGED <<claims, cases, inquiry>> /\ recoveries' = recoveries \cup {refs}
  BY DEF Recovers
<1>2. refs \in SUBSET Observations
  BY StoredIsObserved
<1>3. KnowledgeTypeOK' /\ CasesAreMade' /\ GuidesAreCases'
  BY <1>1, <1>2 DEF KnowledgeInv, KnowledgeTypeOK, CasesAreMade, GuidesAreCases
<1>4. Founded(claims)' /\ Guided(claims, cases)'
  BY <1>1 DEF KnowledgeInv, Founded, Guided
<1>5. QED
  BY <1>3, <1>4 DEF KnowledgeInv

\* A case is written: the next version of one that exists keeps its claim and recovery.
LEMMA CaseWritten ==
  ASSUME KnowledgeInv, NEW g \in Cases, NEW row \in CaseRow,
         cases' = [cases EXCEPT ![g] = row], UNCHANGED <<claims, recoveries, inquiry>>,
         row.state # "NONE", row.claim \in {Claim(m) : m \in DOMAIN claims},
         cases[g].state # "NONE" => row.claim = cases[g].claim /\ row.recovery = cases[g].recovery
  PROVE  KnowledgeInv'
<1>1. cases \in [Cases -> CaseRow]
  BY DEF KnowledgeInv, KnowledgeTypeOK
<1>2. cases' \in [Cases -> CaseRow] /\ cases'[g] = row /\ \A x \in Cases : x # g => cases'[x] = cases[x]
  BY <1>1
<1>3. KnowledgeTypeOK'
  BY <1>2 DEF KnowledgeInv, KnowledgeTypeOK
<1>4. CasesAreMade'
  BY <1>2 DEF KnowledgeInv, CasesAreMade
<1>5. GuidesAreCases'
  BY <1>2 DEF KnowledgeInv, GuidesAreCases
<1>6. Founded(claims)'
  BY DEF KnowledgeInv, Founded
<1>7. Guided(claims, cases)'
  <2>1. ASSUME NEW n \in DOMAIN claims, NEW x \in claims[n].guides
        PROVE  cases'[x].claim \in claims[n].historic /\ cases'[x].recovery \subseteq claims[n].historic
    <3>1. x \in Cases /\ cases[x].state # "NONE"
      BY DEF KnowledgeInv, GuidesAreCases
    <3>2. cases[x].claim \in claims[n].historic /\ cases[x].recovery \subseteq claims[n].historic
      BY DEF KnowledgeInv, Guided
    <3>3. cases'[x].claim = cases[x].claim /\ cases'[x].recovery = cases[x].recovery
      BY <3>1, <1>2
    <3>4. QED
      BY <3>2, <3>3
  <2>2. QED
    BY <2>1 DEF Guided
<1>8. QED
  BY <1>3, <1>4, <1>5, <1>6, <1>7 DEF KnowledgeInv

LEMMA CandidateKeeps ==
  ASSUME KnowledgeInv, NEW g \in Cases, NEW n \in DOMAIN claims, NEW refs \in recoveries, NEW p \in Stewards,
         Candidate(g, n, refs, p)
  PROVE  KnowledgeInv'
<1>1. cases[g] \in CaseRow /\ refs \in SUBSET Observations /\ n \in Nat
  BY DEF KnowledgeInv, KnowledgeTypeOK, Founded
<1>2. PICK v \in Nat : v = cases[g].version + 1
  BY <1>1 DEF CaseRow
<1> DEFINE row == [version |-> v, state |-> "CANDIDATE", claim |-> Claim(n), recovery |-> refs, by |-> p]
<1>3. row \in CaseRow /\ row.state = "CANDIDATE" /\ row.claim = Claim(n)
  BY <1>1 DEF CaseRow
<1> DEFINE blank == [version |-> 0, state |-> "CANDIDATE", claim |-> Claim(n), recovery |-> refs, by |-> p]
<1>4. cases' = [cases EXCEPT ![g] = row] /\ cases[g].state = "NONE" /\ UNCHANGED <<claims, recoveries, inquiry>>
  <2>1. [blank EXCEPT !.version = v] = row
    OBVIOUS
  <2>2. cases' = [cases EXCEPT ![g] = [blank EXCEPT !.version = cases[g].version + 1]]
    BY DEF Candidate, PutGoldenCase
  <2>3. cases[g].state = "NONE" /\ UNCHANGED <<claims, recoveries, inquiry>>
    BY DEF Candidate
  <2> HIDE DEF blank, row
  <2>4. QED
    BY <2>1, <2>2, <2>3, <1>2
<1> HIDE DEF row
<1>5. row.claim \in {Claim(m) : m \in DOMAIN claims}
  BY <1>3
<1>6. PICK r \in CaseRow : r = row
  BY <1>3
<1>7. QED
  BY <1>3, <1>4, <1>5, <1>6, CaseWritten

LEMMA CaseStateKeeps ==
  ASSUME KnowledgeInv, NEW g \in Cases, (\E p \in Stewards : Publish(g, p)) \/ Retire(g)
  PROVE  KnowledgeInv'
<1>1. PICK state \in {"ACTIVE", "RETIRED"} :
        /\ cases[g].state \in {"CANDIDATE", "ACTIVE"} /\ UNCHANGED <<claims, recoveries, inquiry>>
        /\ PutGoldenCase(g, [cases[g] EXCEPT !.state = state])
  <2>1. ASSUME NEW p \in Stewards, Publish(g, p)
        PROVE  /\ cases[g].state = "CANDIDATE" /\ UNCHANGED <<claims, recoveries, inquiry>>
               /\ PutGoldenCase(g, [cases[g] EXCEPT !.state = "ACTIVE"])
    BY <2>1 DEF Publish
  <2>2. ASSUME Retire(g)
        PROVE  /\ cases[g].state \in {"CANDIDATE", "ACTIVE"} /\ UNCHANGED <<claims, recoveries, inquiry>>
               /\ PutGoldenCase(g, [cases[g] EXCEPT !.state = "RETIRED"])
    BY <2>2 DEF Retire
  <2>3. CASE \E p \in Stewards : Publish(g, p)
    BY <2>1, <2>3
  <2>4. CASE Retire(g)
    BY <2>2, <2>4
  <2>5. QED
    BY <2>3, <2>4
<1>2. cases[g] \in CaseRow
  BY DEF KnowledgeInv, KnowledgeTypeOK
<1>3. PICK v \in Nat : v = cases[g].version + 1
  BY <1>2 DEF CaseRow
<1> DEFINE row == [[cases[g] EXCEPT !.state = state] EXCEPT !.version = v]
<1>4. row \in CaseRow /\ row.state = state /\ row.claim = cases[g].claim /\ row.recovery = cases[g].recovery
  BY <1>2 DEF CaseRow
<1>5. cases' = [cases EXCEPT ![g] = row]
  BY <1>1, <1>3 DEF PutGoldenCase
<1> HIDE DEF row
<1>6. row.claim \in {Claim(m) : m \in DOMAIN claims}
  BY <1>1, <1>4 DEF KnowledgeInv, CasesAreMade
<1>7. PICK r \in CaseRow : r = row
  BY <1>4
<1>8. row.state # "NONE"
  BY <1>4
<1>9. QED
  BY <1>1, <1>4, <1>5, <1>6, <1>7, <1>8, CaseWritten

\* A claim is added.
LEMMA ClaimAdded ==
  ASSUME KnowledgeInv, NEW l \in Nat, DOMAIN claims = 1..l,
         NEW status, NEW parents, parents \subseteq Refs(l + 1), NEW guides, guides \subseteq Cases,
         \A g \in guides : cases[g].state # "NONE",
         PutClaim(status, parents, guides), UNCHANGED cases
  PROVE  /\ DOMAIN claims' = 1..(l + 1) /\ \A m \in DOMAIN claims : claims'[m] = claims[m]
         /\ claims'[l + 1].parents = parents /\ claims'[l + 1].guides = guides
         /\ (Founded(claims) /\ Guided(claims, cases) /\ CasesAreMade /\ GuidesAreCases)'
<1>1. Cardinality(DOMAIN claims) = l
  <2>1. Cardinality(1..l) = IF 1 > l THEN 0 ELSE l - 1 + 1
    BY FS_Interval
  <2>2. QED
    BY <2>1
<1> DEFINE row == [status |-> status, parents |-> parents, historic |-> LinkGuidance(guides), guides |-> guides]
<1>2. row.parents = parents /\ row.guides = guides /\ row.historic = LinkGuidance(guides)
  OBVIOUS
<1>3. claims' = [m \in DOMAIN claims \cup {l + 1} |-> IF m \in DOMAIN claims THEN claims[m] ELSE row]
  BY <1>1 DEF PutClaim
<1> HIDE DEF row
<1>4. DOMAIN claims' = 1..(l + 1) /\ claims'[l + 1] = row /\ \A m \in DOMAIN claims : claims'[m] = claims[m]
  BY <1>3
<1>5. cases \in [Cases -> CaseRow] /\ Founded(claims) /\ Guided(claims, cases) /\ CasesAreMade /\ GuidesAreCases
  BY DEF KnowledgeInv, KnowledgeTypeOK
<1>6. row.historic \subseteq Refs(l + 1)
  <2>1. ASSUME NEW g \in guides PROVE cases[g].claim \in Refs(l + 1) /\ cases[g].recovery \subseteq Refs(l + 1)
    <3>1. cases[g].claim \in {Claim(m) : m \in DOMAIN claims}
      BY <1>5 DEF CasesAreMade
    <3>2. (l + 1) - 1 = l
      OBVIOUS
    <3>3. cases[g].recovery \subseteq Observations
      BY <1>5 DEF CaseRow
    <3>4. QED
      BY <3>1, <3>2, <3>3 DEF Refs
  <2>2. QED
    BY <2>1, <1>2 DEF LinkGuidance
<1>7. Founded(claims)'
  <2>1. ASSUME NEW n \in DOMAIN claims'
        PROVE  claims'[n].parents \subseteq Refs(n) /\ claims'[n].historic \subseteq Refs(n)
    <3>1. CASE n = l + 1
      BY <3>1, <1>2, <1>4, <1>6
    <3>2. CASE n # l + 1
      BY <3>2, <1>4, <1>5 DEF Founded
    <3>3. QED
      BY <3>1, <3>2
  <2>2. l + 1 \in Nat
    OBVIOUS
  <2>3. QED
    BY <2>1, <2>2, <1>4 DEF Founded
<1>8. Guided(claims, cases)'
  <2>1. ASSUME NEW n \in DOMAIN claims', NEW g \in claims'[n].guides
        PROVE  cases[g].claim \in claims'[n].historic /\ cases[g].recovery \subseteq claims'[n].historic
    <3>1. CASE n = l + 1
      BY <3>1, <1>2, <1>4 DEF LinkGuidance
    <3>2. CASE n # l + 1
      BY <3>2, <1>4, <1>5 DEF Guided
    <3>3. QED
      BY <3>1, <3>2
  <2>2. QED
    BY <2>1 DEF Guided
<1>9. CasesAreMade'
  BY <1>4, <1>5 DEF CasesAreMade
<1>10. GuidesAreCases'
  <2>1. ASSUME NEW n \in DOMAIN claims', NEW g \in claims'[n].guides
        PROVE  g \in Cases /\ cases[g].state # "NONE"
    <3>1. CASE n = l + 1
      BY <3>1, <1>2, <1>4
    <3>2. CASE n # l + 1
      BY <3>2, <1>4, <1>5 DEF GuidesAreCases
    <3>3. QED
      BY <3>1, <3>2
  <2>2. QED
    BY <2>1 DEF GuidesAreCases
<1>11. QED
  BY <1>2, <1>4, <1>7, <1>8, <1>9, <1>10
\* A claim whose parents, and whose guidance, are sound all the way down rests on nothing else.
LEMMA ClaimIsSound ==
  ASSUME KnowledgeInv, NEW l \in Nat, DOMAIN claims = 1..l,
         NEW status, NEW parents, parents \subseteq Refs(l + 1), NEW guides, guides \subseteq Cases,
         \A g \in guides : cases[g].state # "NONE",
         PutClaim(status, parents, guides), UNCHANGED cases,
         \A p \in parents : \A y \in Rest(RestsOn, p) : Sound(y),
         \A g \in guides : \A y \in Rest(RestsOn, cases[g].claim) \cup cases[g].recovery : Sound(y)
  PROVE  \A ref \in RestsOn'[l + 1] : Sound(ref)
<1>1. /\ DOMAIN claims' = 1..(l + 1) /\ \A m \in DOMAIN claims : claims'[m] = claims[m]
      /\ claims'[l + 1].parents = parents /\ claims'[l + 1].guides = guides
      /\ (Founded(claims) /\ Guided(claims, cases) /\ CasesAreMade /\ GuidesAreCases)'
  BY ClaimAdded
<1>2. PICK edges, wider, cs, on, onw :
        edges = claims /\ wider = claims' /\ cs = cases /\ on = RestsOn /\ onw = RestsOn'
  OBVIOUS
<1>3. on = OnOf(edges, cs) /\ onw = OnOf(wider, cs)
  <2>1. RestsOn' = OnOf(claims', cases')
    BY DEF RestsOn, OnOf, OnStep, Rest
  <2>2. QED
    BY <1>2, <2>1, RestsOnIs
<1>4. Founded(edges) /\ Founded(wider) /\ Guided(edges, cs) /\ Guided(wider, cs)
  BY <1>1, <1>2 DEF KnowledgeInv
<1>5. DOMAIN edges = 1..l /\ DOMAIN edges \subseteq DOMAIN wider /\ \A n \in DOMAIN edges : wider[n] = edges[n]
  BY <1>1, <1>2
<1>6. \A n \in DOMAIN edges : OnOf(wider, cs)[n] = OnOf(edges, cs)[n]
  BY <1>4, <1>5, OnExtends
<1>7. \A m \in 1..((l + 1) - 1) : onw[m] = on[m]
  BY <1>3, <1>5, <1>6
<1>8. l + 1 \in DOMAIN wider
  BY <1>1, <1>2
<1>9. onw[l + 1] = OnStep(wider, cs, onw, l + 1)
  BY <1>3, <1>4, <1>8, OnOfUnfolds
<1>10. OnStep(wider, cs, onw, l + 1) = OnStep(wider, cs, on, l + 1)
  BY <1>4, <1>7, <1>8, OnStepIsLocal
<1>11. OnStep(wider, cs, on, l + 1)
         = (UNION {Rest(on, p) : p \in parents}) \cup UNION {Rest(on, cs[g].claim) \cup cs[g].recovery : g \in guides}
  BY <1>1, <1>2 DEF OnStep
<1>12. ASSUME NEW ref \in onw[l + 1] PROVE Sound(ref)
  <2>1. CASE \E p \in parents : ref \in Rest(on, p)
    BY <2>1, <1>2
  <2>2. CASE \E g \in guides : ref \in Rest(on, cs[g].claim) \cup cs[g].recovery
    BY <2>2, <1>2
  <2>3. QED
    BY <2>1, <2>2, <1>9, <1>10, <1>11
<1>13. QED
  BY <1>2, <1>12

LEMMA InvestigateReadsKeeps ==
  ASSUME KnowledgeInv, NEW q \in Inquiries,
         InvestigateReads(q) \/ InvestigateRetrieves(q) \/ InvestigateRefreshes(q)
  PROVE  KnowledgeInv'
<1> DEFINE guides == IF Suggests(inquiry[q].parents) THEN {<<g, cases[g].version>> : g \in Retrieve} ELSE {}
<1>1. SnapshotRefs \in SUBSET Observations
  BY StoredIsObserved DEF SnapshotRefs, CurrentEvidence
<1>2. guides \in SUBSET (Cases \X Nat)
  <2>1. ASSUME NEW g \in Retrieve PROVE <<g, cases[g].version>> \in Cases \X Nat
    BY DEF Retrieve, KnowledgeInv, KnowledgeTypeOK, CaseRow
  <2>2. QED
    BY <2>1
<1> HIDE DEF guides
<1>3. inquiry \in [Inquiries -> InquiryRow] /\ inquiry[q] \in InquiryRow
  BY DEF KnowledgeInv, KnowledgeTypeOK
<1>4. /\ UNCHANGED <<claims, recoveries, cases>>
      /\ \E row \in InquiryRow : inquiry' = [inquiry EXCEPT ![q] = row]
  <2>1. CASE InvestigateReads(q)
    <3>1. [inquiry[q] EXCEPT !.at = "read", !.parents = SnapshotRefs] \in InquiryRow
      BY <1>1, <1>3 DEF InquiryRow
    <3>2. QED
      BY <1>3, <2>1, <3>1 DEF InvestigateReads
  <2>2. CASE InvestigateRetrieves(q)
    <3>1. [inquiry[q] EXCEPT !.at = "asked", !.guides = guides] \in InquiryRow
      BY <1>2, <1>3 DEF InquiryRow
    <3>2. QED
      BY <1>3, <2>2, <3>1 DEF InvestigateRetrieves, guides
  <2>3. CASE InvestigateRefreshes(q)
    <3>1. [inquiry[q] EXCEPT !.parents = SnapshotRefs] \in InquiryRow
      BY <1>1, <1>3 DEF InquiryRow
    <3>2. QED
      BY <1>3, <2>3, <3>1 DEF InvestigateRefreshes
  <2>4. QED
    BY <2>1, <2>2, <2>3
<1>5. KnowledgeTypeOK' /\ CasesAreMade' /\ GuidesAreCases'
  BY <1>3, <1>4 DEF KnowledgeInv, KnowledgeTypeOK, CasesAreMade, GuidesAreCases
<1>6. Founded(claims)' /\ Guided(claims, cases)'
  BY <1>4 DEF KnowledgeInv, Founded, Guided
<1>7. QED
  BY <1>5, <1>6 DEF KnowledgeInv

LEMMA InvestigateEndsKeeps ==
  ASSUME KnowledgeInv, NEW q \in Inquiries, InvestigateEnds(q)
  PROVE  KnowledgeInv'
<1>1. NoInquiry \in InquiryRow
  BY DEF NoInquiry, InquiryRow
<1>2. inquiry' = [inquiry EXCEPT ![q] = NoInquiry] /\ UNCHANGED <<claims, recoveries, cases>>
  BY DEF InvestigateEnds
<1>3. KnowledgeTypeOK' /\ CasesAreMade' /\ GuidesAreCases'
  BY <1>1, <1>2 DEF KnowledgeInv, KnowledgeTypeOK, CasesAreMade, GuidesAreCases
<1>4. Founded(claims)' /\ Guided(claims, cases)'
  BY <1>2 DEF KnowledgeInv, Founded, Guided
<1>5. QED
  BY <1>3, <1>4 DEF KnowledgeInv

\* The claims of a step that adds one, or none.
NewClaimsAreSound == \A n \in DOMAIN claims' \ DOMAIN claims : \A ref \in RestsOn'[n] : Sound(ref)

LEMMA InvestigateCommitsKeeps ==
  ASSUME KnowledgeInv, NEW q \in Inquiries, InvestigateCommits(q)
  PROVE  KnowledgeInv' /\ NewClaimsAreSound
<1>1. PICK l \in Nat : DOMAIN claims = 1..l
  BY DEF KnowledgeInv, Founded
<1>2. inquiry \in [Inquiries -> InquiryRow] /\ inquiry[q] \in InquiryRow
  BY DEF KnowledgeInv, KnowledgeTypeOK
<1>3. PICK status, parents, guides :
        /\ status = IF Suggests(inquiry[q].parents) THEN "HYPOTHESIS" ELSE "INCONCLUSIVE"
        /\ parents = inquiry[q].parents /\ guides = {guide[1] : guide \in inquiry[q].guides}
  OBVIOUS
<1>4. /\ PutClaim(status, parents, guides) /\ inquiry' = [inquiry EXCEPT ![q] = NoInquiry]
      /\ UNCHANGED <<recoveries, cases>>
      /\ \A guide \in inquiry[q].guides : PublishedEligible(guide)
      /\ \A ref \in parents : Eligible(ref)
  BY <1>3 DEF InvestigateCommits
<1>5. parents \subseteq Refs(l + 1)
  BY <1>2, <1>3 DEF InquiryRow, Refs
<1>6. ASSUME NEW g \in guides
      PROVE  g \in Cases /\ cases[g].state = "ACTIVE" /\ EligibleCase(cases[g])
  <2>1. PICK guide \in inquiry[q].guides : g = guide[1]
    BY <1>3
  <2>2. guide \in Cases \X Nat
    BY <1>2 DEF InquiryRow
  <2>3. QED
    BY <2>1, <2>2, <1>4 DEF PublishedEligible
<1>7. guides \subseteq Cases /\ \A g \in guides : cases[g].state # "NONE"
  BY <1>6
<1>8. ASSUME NEW p \in parents PROVE \A y \in Rest(RestsOn, p) : Sound(y)
  BY <1>1, <1>4, <1>5, EligibleRest
<1>9. ASSUME NEW g \in guides
      PROVE  \A y \in Rest(RestsOn, cases[g].claim) \cup cases[g].recovery : Sound(y)
  <2>1. HistoricalEligible(cases[g].claim) /\ \A ref \in cases[g].recovery : HistoricalEligible(ref)
    BY <1>6 DEF EligibleCase
  <2>2. PICK c : c = cases[g].claim
    OBVIOUS
  <2>3. c \in {Claim(m) : m \in DOMAIN claims} /\ cases[g].recovery \subseteq Observations
    BY <1>6, <2>2 DEF KnowledgeInv, CasesAreMade, KnowledgeTypeOK, CaseRow
  <2>4. c \in Refs(l + 1) /\ Observations \subseteq Refs(l + 1)
    BY <1>1, <2>3 DEF Refs
  <2>5. \A y \in Rest(RestsOn, c) : Sound(y)
    BY <1>1, <2>1, <2>2, <2>4, EligibleRest
  <2>6. ASSUME NEW ref \in cases[g].recovery PROVE Sound(ref)
    <3>1. \A y \in Rest(RestsOn, ref) : Sound(y)
      BY <1>1, <2>1, <2>3, <2>4, EligibleRest
    <3>2. ref \in Rest(RestsOn, ref)
      BY DEF Rest
    <3>3. QED
      BY <3>1, <3>2
  <2>7. QED
    BY <2>2, <2>5, <2>6
<1>10. /\ DOMAIN claims' = 1..(l + 1)
       /\ (Founded(claims) /\ Guided(claims, cases) /\ CasesAreMade /\ GuidesAreCases)'
  BY <1>1, <1>4, <1>5, <1>7, ClaimAdded
<1>11. \A ref \in RestsOn'[l + 1] : Sound(ref)
  BY <1>1, <1>4, <1>5, <1>7, <1>8, <1>9, ClaimIsSound
<1>12. KnowledgeTypeOK'
  <2>1. NoInquiry \in InquiryRow
    BY DEF NoInquiry, InquiryRow
  <2>2. QED
    BY <2>1, <1>4 DEF KnowledgeInv, KnowledgeTypeOK
<1>13. NewClaimsAreSound
  <2>1. \A n \in DOMAIN claims' \ DOMAIN claims : n = l + 1
    BY <1>1, <1>10
  <2>2. QED
    BY <2>1, <1>11 DEF NewClaimsAreSound
<1>14. QED
  BY <1>10, <1>12, <1>13 DEF KnowledgeInv

LEMMA CorroborateKeeps ==
  ASSUME KnowledgeInv, NEW n \in DOMAIN claims, Corroborate(n)
  PROVE  KnowledgeInv' /\ NewClaimsAreSound
<1>1. PICK l \in Nat : DOMAIN claims = 1..l
  BY DEF KnowledgeInv, Founded
<1>2. PICK parents, guides, refs :
        /\ refs = {ref \in Stored : Eligible(ref) /\ ref[1] # "HEALTHY"}
        /\ parents = {Claim(n)} \cup refs /\ guides = claims[n].guides
  OBVIOUS
<1>3. /\ PutClaim("CORROBORATED", parents, guides) /\ Eligible(Claim(n))
      /\ UNCHANGED <<recoveries, cases, inquiry>>
  BY <1>2 DEF Corroborate
<1>4. parents \subseteq Refs(l + 1)
  <2>1. (l + 1) - 1 = l
    OBVIOUS
  <2>2. Claim(n) \in Refs(l + 1)
    BY <1>1, <2>1 DEF Refs
  <2>3. refs \subseteq Refs(l + 1)
    BY <1>2, StoredIsObserved DEF Refs
  <2>4. QED
    BY <1>2, <2>2, <2>3
<1>5. guides \subseteq Cases /\ \A g \in guides : cases[g].state # "NONE"
  BY <1>2 DEF KnowledgeInv, GuidesAreCases
<1>6. \A p \in parents : Eligible(p)
  BY <1>2, <1>3
<1>7. ASSUME NEW p \in parents PROVE \A y \in Rest(RestsOn, p) : Sound(y)
  BY <1>1, <1>4, <1>6, EligibleRest
<1>8. ASSUME NEW g \in guides, NEW y \in Rest(RestsOn, cases[g].claim) \cup cases[g].recovery PROVE Sound(y)
  <2>1. y \in RestsOn[n]
    <3>1. PICK edges, cs, on : edges = claims /\ cs = cases /\ on = RestsOn
      OBVIOUS
    <3>2. on = OnOf(edges, cs) /\ Founded(edges) /\ Guided(edges, cs) /\ n \in DOMAIN edges
      BY <3>1, RestsOnIs DEF KnowledgeInv
    <3>3. on[n] = OnStep(edges, cs, on, n)
      BY <3>2, OnOfUnfolds
    <3>4. g \in edges[n].guides /\ y \in Rest(on, cs[g].claim) \cup cs[g].recovery
      BY <1>2, <3>1
    <3>5. y \in UNION {Rest(on, cs[c].claim) \cup cs[c].recovery : c \in edges[n].guides}
      BY <3>4
    <3>6. y \in OnStep(edges, cs, on, n)
      BY <3>5, Zenon DEF OnStep
    <3>7. QED
      BY <3>1, <3>3, <3>6
  <2>2. Claim(n) \in parents /\ IsClaim(Claim(n)) /\ Claim(n)[2] = n
    BY <1>2 DEF Claim, IsClaim
  <2>3. y \in Rest(RestsOn, Claim(n))
    BY <2>1, <2>2 DEF Rest
  <2>4. QED
    BY <2>2, <2>3, <1>7
<1>9. /\ DOMAIN claims' = 1..(l + 1)
      /\ (Founded(claims) /\ Guided(claims, cases) /\ CasesAreMade /\ GuidesAreCases)'
  BY <1>1, <1>3, <1>4, <1>5, ClaimAdded
<1>10. \A ref \in RestsOn'[l + 1] : Sound(ref)
  BY <1>1, <1>3, <1>4, <1>5, <1>7, <1>8, ClaimIsSound
<1>11. KnowledgeTypeOK'
  BY <1>3 DEF KnowledgeInv, KnowledgeTypeOK
<1>12. NewClaimsAreSound
  <2>1. \A m \in DOMAIN claims' \ DOMAIN claims : m = l + 1
    BY <1>1, <1>9
  <2>2. QED
    BY <2>1, <1>10 DEF NewClaimsAreSound
<1>13. QED
  BY <1>9, <1>11, <1>12 DEF KnowledgeInv

LEMMA KnowledgeInvNext ==
  ASSUME KnowledgeInv, [KnowledgeNext]_knowledgeVars
  PROVE  KnowledgeInv' /\ NewClaimsAreSound
<1>1. ASSUME UNCHANGED claims PROVE NewClaimsAreSound
  BY <1>1 DEF NewClaimsAreSound
<1>2. CASE \/ \E c \in Codes : Observe(c)
           \/ \E ref \in Stored : EvidenceExpires(ref) \/ Adjudicate(ref)
           \/ SourceRenewed \/ SourceRevoked \/ SourceReenrolled
           \/ \E n \in DOMAIN claims : Adjudicate(Claim(n))
           \/ UNCHANGED knowledgeVars
  <2>1. UNCHANGED <<claims, recoveries, cases, inquiry>>
    BY <1>2 DEF Observe, EvidenceExpires, Adjudicate, SourceRenewed, SourceRevoked, SourceReenrolled, knowledgeVars
  <2>2. QED
    BY <2>1, <1>1, EvidenceKeeps
<1>3. CASE \E n \in DOMAIN claims : Corroborate(n)
  BY <1>3, CorroborateKeeps
<1>4. CASE \E refs \in SUBSET Stored : Recovers(refs)
  <2>1. UNCHANGED claims
    BY <1>4 DEF Recovers
  <2>2. QED
    BY <1>4, <2>1, <1>1, RecoversKeeps
<1>5. ASSUME NEW g \in Cases, (\E p \in Stewards : Publish(g, p)) \/ Retire(g)
      PROVE  KnowledgeInv' /\ NewClaimsAreSound
  <2>1. UNCHANGED claims
    BY <1>5 DEF Publish, Retire
  <2>2. QED
    BY <1>5, <2>1, <1>1, CaseStateKeeps
<1>6. ASSUME NEW g \in Cases, NEW p \in Stewards, NEW n \in DOMAIN claims, NEW refs \in recoveries,
             Candidate(g, n, refs, p)
      PROVE  KnowledgeInv' /\ NewClaimsAreSound
  <2>1. UNCHANGED claims
    BY <1>6 DEF Candidate
  <2>2. QED
    BY <1>6, <2>1, <1>1, CandidateKeeps
<1>7. ASSUME NEW q \in Inquiries,
             \/ InvestigateReads(q) \/ InvestigateRetrieves(q) \/ InvestigateRefreshes(q)
             \/ InvestigateEnds(q)
      PROVE  KnowledgeInv' /\ NewClaimsAreSound
  <2>1. UNCHANGED claims
    BY <1>7 DEF InvestigateReads, InvestigateRetrieves, InvestigateRefreshes, InvestigateEnds
  <2>2. QED
    BY <1>7, <2>1, <1>1, InvestigateReadsKeeps, InvestigateEndsKeeps
<1>8. CASE \E q \in Inquiries : InvestigateCommits(q)
  BY <1>8, InvestigateCommitsKeeps
<1>9. QED
  BY <1>2, <1>3, <1>4, <1>5, <1>6, <1>7, <1>8 DEF KnowledgeNext

\* A claim that may still be acted on rests on nothing disputed and on no evidence of a
\* revoked collector, through however many claims and reviewed cases (lineageSQL over
\* the edges of PutItem and linkGuidance).
THEOREM EligibleIsSoundThm == KnowledgeSpec => []EligibleIsSound
<1>1. ASSUME KnowledgeInv PROVE EligibleIsSound
  <2>1. PICK l \in Nat : DOMAIN claims = 1..l
    BY <1>1 DEF KnowledgeInv, Founded
  <2>2. ASSUME NEW n \in DOMAIN claims, Eligible(Claim(n)) PROVE \A ref \in RestsOn[n] : Sound(ref)
    <3>1. PICK ref : ref = Claim(n)
      OBVIOUS
    <3>2. (l + 1) - 1 = l
      OBVIOUS
    <3>3. ref \in Refs(l + 1)
      BY <2>1, <3>1, <3>2 DEF Refs
    <3>4. \A y \in Rest(RestsOn, ref) : Sound(y)
      BY <1>1, <2>1, <2>2, <3>1, <3>3, EligibleRest
    <3>5. RestsOn[n] \subseteq Rest(RestsOn, ref)
      BY <3>1 DEF Rest, IsClaim, Claim
    <3>6. QED
      BY <3>4, <3>5
  <2>3. QED
    BY <2>2 DEF EligibleIsSound
<1>2. QED
  BY <1>1, KnowledgeInvInit, KnowledgeInvNext, PTL DEF KnowledgeSpec

\* No claim is recorded on what is already disputed or revoked at that moment, though
\* an investigation read its evidence and its guidance before the model was asked, and
\* a corroboration looks only at the state of the cases (ValidateGuidance).
THEOREM CommitsAreSoundThm == KnowledgeSpec => CommitsAreSound
<1>1. ASSUME KnowledgeInv, [KnowledgeNext]_knowledgeVars
      PROVE  KnowledgeInv' /\ [\A n \in DOMAIN claims' \ DOMAIN claims : \A ref \in RestsOn'[n] : Sound(ref)]_knowledgeVars
  BY <1>1, KnowledgeInvNext DEF NewClaimsAreSound
<1>2. QED
  BY <1>1, KnowledgeInvInit, PTL DEF KnowledgeSpec, CommitsAreSound
=============================================================================
