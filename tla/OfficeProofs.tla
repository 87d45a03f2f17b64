---------------------------- MODULE OfficeProofs ----------------------------
(***************************************************************************)
(* Proofs about Office, for any number of overlapping requests, browsers,  *)
(* changes, tokens, users, picks and codes.                                *)
(***************************************************************************)
EXTENDS Office, SequenceTheorems, SumTheorems

-----------------------------------------------------------------------------
(* The live screens.                                                       *)
(*                                                                         *)
(* ScreensFollow speaks of a viewer at rest.  What holds at every moment:  *)
(* the event of a change is lost, on its way or heard; and what was heard  *)
(* is shown or fetched for too early, unless the fetch is still to come.   *)

InQueue(v, c) == \E i \in 1..Len(stream[v].queue) : stream[v].queue[i] = c

ScreensTypes ==
    /\ posted \subseteq Changes
    /\ committed \subseteq posted
    /\ stream \in [Viewers -> [open : BOOLEAN, queue : Seq(Changes)]]
    /\ screen \in [Viewers -> [shows : SUBSET Changes, fetching : BOOLEAN, heard : SUBSET Changes]]
    /\ untold \in [Viewers -> SUBSET Changes]
    /\ early \in [Viewers -> SUBSET Changes]

EventsAccounted ==
    /\ \A v \in Viewers : v \in subscribed <=> stream[v].open
    /\ \A v \in Viewers : ~stream[v].open => stream[v].queue = <<>>
    /\ \A v \in Viewers, c \in posted : c \in untold[v] \/ c \in screen[v].heard \/ InQueue(v, c)
    /\ \A v \in Viewers : ~screen[v].fetching => screen[v].heard \subseteq screen[v].shows \cup early[v]

PostingOnly ==
    desk = "screens" =>
      /\ req = [s \in Sessions |-> req[s]]
      /\ \A s \in Sessions : req[s].pc = "posted" => req[s].change \in posted

ScreensInv == ScreensTypes /\ EventsAccounted /\ PostingOnly

LEMMA ScreensStart == Init => ScreensInv
<1> SUFFICES ASSUME Init PROVE ScreensInv
  OBVIOUS
<1> USE DEF Init, ScreensInit, Closed, NoRequests, Idle
<1>1. ScreensTypes
  BY DEF ScreensTypes
<1>2. EventsAccounted
  BY DEF EventsAccounted
<1>3. PostingOnly
  BY DEF PostingOnly
<1> QED BY <1>1, <1>2, <1>3 DEF ScreensInv

LEMMA PostKeepsScreens ==
    ASSUME ScreensInv, desk = "screens", desk' = desk,
           NEW s \in Sessions, NEW c \in Changes, Post(s, c)
    PROVE  ScreensInv'
<1> USE DEF ScreensInv, Post, Full
<1>1. ScreensTypes'
  <2>1. ASSUME NEW v \in Viewers
        PROVE  stream'[v] \in [open : BOOLEAN, queue : Seq(Changes)]
    <3>1. stream[v].open \in BOOLEAN /\ stream[v].queue \in Seq(Changes)
      BY DEF ScreensTypes
    <3>2. CASE v \in subscribed /\ ~Full(v)
      <4>1. stream'[v] = [open |-> stream[v].open, queue |-> Append(stream[v].queue, c)]
        BY <3>2 DEF ScreensTypes
      <4>2. Append(stream[v].queue, c) \in Seq(Changes)
        BY <3>1
      <4> QED BY <3>1, <4>1, <4>2
    <3>3. CASE ~(v \in subscribed /\ ~Full(v))
      BY <3>3 DEF ScreensTypes
    <3> QED BY <3>2, <3>3
  <2>2. stream' = [v \in Viewers |-> stream'[v]]
    OBVIOUS
  <2>3. stream' \in [Viewers -> [open : BOOLEAN, queue : Seq(Changes)]]
    BY <2>1, <2>2
  <2> QED BY <2>3 DEF ScreensTypes
<1>2. \A v \in Viewers : v \in subscribed' <=> stream'[v].open
  BY DEF ScreensTypes, EventsAccounted
<1>3. \A v \in Viewers : ~stream'[v].open => stream'[v].queue = <<>>
  BY DEF ScreensTypes, EventsAccounted
<1>4. ASSUME NEW v \in Viewers, NEW d \in posted'
      PROVE  d \in untold'[v] \/ d \in screen'[v].heard \/ InQueue(v, d)'
  <2> DEFINE queue == stream[v].queue
  <2>0. queue \in Seq(Changes) /\ stream[v].open \in BOOLEAN
    BY DEF ScreensTypes
  <2>1. CASE v \in subscribed /\ ~Full(v)
    <3>1. stream'[v].queue = Append(queue, c)
      BY <2>1 DEF ScreensTypes
    <3>2. CASE d = c
      <4>1. Len(queue) + 1 \in 1..Len(stream'[v].queue) /\ stream'[v].queue[Len(queue) + 1] = c
        BY <2>0, <3>1
      <4> QED BY <3>2, <4>1 DEF InQueue
    <3>3. CASE d # c
      <4>1. d \in posted
        BY <3>3
      <4>2. InQueue(v, d) => InQueue(v, d)'
        <5> SUFFICES ASSUME NEW i \in 1..Len(queue), queue[i] = d
                     PROVE  i \in 1..Len(stream'[v].queue) /\ stream'[v].queue[i] = d
          BY DEF InQueue
        <5> QED BY <2>0, <3>1
      <4>3. untold[v] \subseteq untold'[v]
        OBVIOUS
      <4> QED BY <4>1, <4>2, <4>3 DEF EventsAccounted
    <3> QED BY <3>2, <3>3
  <2>2. CASE ~(v \in subscribed /\ ~Full(v))
    <3>1. stream'[v] = stream[v]
      BY <2>2 DEF ScreensTypes
    <3>2. untold'[v] = untold[v] \cup {c}
      BY <2>2 DEF EventsAccounted
    <3> QED BY <3>1, <3>2 DEF EventsAccounted, InQueue
  <2> QED BY <2>1, <2>2
<1>5. \A v \in Viewers : ~screen'[v].fetching => screen'[v].heard \subseteq screen'[v].shows \cup early'[v]
  BY DEF EventsAccounted
<1>6. PostingOnly'
  BY DEF PostingOnly, Becomes
<1> QED BY <1>1, <1>2, <1>3, <1>4, <1>5, <1>6 DEF EventsAccounted

LEMMA EndKeepsScreens ==
    ASSUME ScreensInv, desk = "screens", desk' = desk,
           NEW s \in Sessions, PostCommit(s) \/ PostRollback(s)
    PROVE  ScreensInv'
<1> USE DEF ScreensInv, PostCommit, PostRollback, Ends, Becomes, Idle, screensVars
<1>1. ScreensTypes'
  BY DEF ScreensTypes, PostingOnly
<1>2. EventsAccounted'
  BY DEF EventsAccounted, InQueue
<1>3. PostingOnly'
  BY DEF PostingOnly
<1> QED BY <1>1, <1>2, <1>3

LEMMA ConnectKeepsScreens ==
    ASSUME ScreensInv, desk' = desk, NEW v \in Viewers, Connect(v) \/ Disconnect(v)
    PROVE  ScreensInv'
<1> USE DEF ScreensInv, Connect, Disconnect, Closed, Without
<1>1. \A u \in Viewers : u # v => stream'[u] = stream[u] /\ untold'[u] = untold[u]
  BY DEF ScreensTypes
<1>2. CASE Connect(v)
  <2>1. stream'[v] = [open |-> TRUE, queue |-> stream[v].queue] /\ untold' = untold
    BY <1>2 DEF ScreensTypes
  <2>2. ScreensTypes'
    BY <1>2, <2>1 DEF ScreensTypes
  <2>3. EventsAccounted'
    BY <1>1, <1>2, <2>1 DEF EventsAccounted, InQueue
  <2> QED BY <1>2, <2>2, <2>3 DEF PostingOnly
<1>3. CASE Disconnect(v)
  <2> DEFINE queue == stream[v].queue
  <2>1. /\ stream'[v] = [open |-> FALSE, queue |-> <<>>]
        /\ untold'[v] = untold[v] \cup {queue[i] : i \in DOMAIN queue}
    BY <1>3 DEF ScreensTypes
  <2>2. queue \in Seq(Changes)
    BY DEF ScreensTypes
  <2>3. ScreensTypes'
    <3>1. untold' \in [Viewers -> SUBSET Changes]
      BY <1>3, <2>2 DEF ScreensTypes
    <3>2. stream' \in [Viewers -> [open : BOOLEAN, queue : Seq(Changes)]]
      BY <1>3, <2>1 DEF ScreensTypes
    <3> QED BY <1>3, <3>1, <3>2 DEF ScreensTypes
  <2>4. \A c \in posted : InQueue(v, c) => c \in untold'[v]
    BY <2>1, <2>2 DEF InQueue
  <2>5. \A c \in posted : c \in untold'[v] \/ c \in screen[v].heard
    BY <2>1, <2>4 DEF EventsAccounted
  <2>6. EventsAccounted'
    BY <1>1, <1>3, <2>1, <2>5 DEF EventsAccounted, InQueue
  <2> QED BY <1>3, <2>3, <2>6 DEF PostingOnly
<1> QED BY <1>2, <1>3

LEMMA HearKeepsScreens ==
    ASSUME ScreensInv, desk' = desk, NEW v \in Viewers, Hear(v)
    PROVE  ScreensInv'
<1> USE DEF ScreensInv
<1> DEFINE queue == stream[v].queue
<1>0. /\ queue \in Seq(Changes) /\ queue # <<>>
      /\ UNCHANGED <<posted, committed, subscribed, untold, early, req>>
  BY DEF ScreensTypes, Hear
<1>1. \A u \in Viewers : u # v => stream'[u] = stream[u] /\ screen'[u] = screen[u]
  BY DEF ScreensTypes, Hear
<1>2. stream'[v] = [open |-> stream[v].open, queue |-> Tail(queue)]
  BY DEF ScreensTypes, Hear
<1>3. screen'[v] = [shows |-> screen[v].shows, fetching |-> TRUE,
                    heard |-> screen[v].heard \cup {Head(queue)}]
  BY DEF ScreensTypes, Hear
<1>4. ScreensTypes'
  <2>1. Head(queue) \in Changes /\ Tail(queue) \in Seq(Changes)
    BY <1>0
  <2>2. stream' \in [Viewers -> [open : BOOLEAN, queue : Seq(Changes)]]
    BY <1>2, <2>1 DEF ScreensTypes, Hear
  <2>3. screen'[v] \in [shows : SUBSET Changes, fetching : BOOLEAN, heard : SUBSET Changes]
    BY <1>3, <2>1 DEF ScreensTypes
  <2>4. screen' \in [Viewers -> [shows : SUBSET Changes, fetching : BOOLEAN, heard : SUBSET Changes]]
    BY <2>3 DEF ScreensTypes, Hear
  <2> QED BY <1>0, <2>2, <2>4 DEF ScreensTypes
<1>5. \A c : InQueue(v, c) => c = Head(queue) \/ InQueue(v, c)'
  <2> SUFFICES ASSUME NEW i \in 1..Len(queue), queue[i] # Head(queue)
               PROVE  i - 1 \in 1..Len(Tail(queue)) /\ Tail(queue)[i - 1] = queue[i]
    BY <1>2 DEF InQueue
  <2>1. /\ Head(queue) = queue[1]
        /\ Len(Tail(queue)) = Len(queue) - 1
        /\ \A j \in 1..Len(Tail(queue)) : Tail(queue)[j] = queue[j + 1]
    BY <1>0, HeadTailProperties
  <2>2. i # 1 /\ Len(queue) \in Nat
    BY <1>0, <2>1
  <2>3. i - 1 \in 1..Len(Tail(queue)) /\ (i - 1) + 1 = i
    BY <2>1, <2>2
  <2> QED BY <2>1, <2>3
<1>6. stream[v].open
  BY <1>0 DEF EventsAccounted
<1>7. EventsAccounted'
  <2>1. \A u \in Viewers : u \in subscribed' <=> stream'[u].open
    BY <1>0, <1>1, <1>2 DEF EventsAccounted
  <2>2. \A u \in Viewers : ~stream'[u].open => stream'[u].queue = <<>>
    BY <1>1, <1>2, <1>6 DEF EventsAccounted
  <2>3. ASSUME NEW u \in Viewers, NEW c \in posted'
        PROVE  c \in untold'[u] \/ c \in screen'[u].heard \/ InQueue(u, c)'
    <3>1. c \in posted /\ untold' = untold
      BY <1>0
    <3>2. CASE u = v
      BY <1>3, <1>5, <3>1, <3>2 DEF EventsAccounted
    <3>3. CASE u # v
      BY <1>1, <3>1, <3>3 DEF EventsAccounted, InQueue
    <3> QED BY <3>2, <3>3
  <2>4. ASSUME NEW u \in Viewers, ~screen'[u].fetching
        PROVE  screen'[u].heard \subseteq screen'[u].shows \cup early'[u]
    <3>1. u # v
      BY <1>3, <2>4
    <3> QED BY <1>0, <1>1, <2>4, <3>1 DEF EventsAccounted
  <2> QED BY <2>1, <2>2, <2>3, <2>4 DEF EventsAccounted
<1> QED BY <1>0, <1>4, <1>7 DEF PostingOnly

LEMMA FetchingKeepsScreens ==
    ASSUME ScreensInv, desk' = desk, NEW v \in Viewers, Fetching(v)
    PROVE  ScreensInv'
<1> USE DEF ScreensInv
<1>0. UNCHANGED <<posted, committed, subscribed, stream, untold, req>>
  BY DEF Fetching
<1>1. screen'[v] = [shows |-> committed, fetching |-> FALSE, heard |-> screen[v].heard]
  BY DEF ScreensTypes, Fetching
<1>2. early'[v] = early[v] \cup (screen[v].heard \ committed)
  BY DEF ScreensTypes, Fetching
<1>3. \A u \in Viewers : u # v => screen'[u] = screen[u] /\ early'[u] = early[u]
  BY DEF ScreensTypes, Fetching
<1>4. ScreensTypes'
  BY <1>0, <1>1, <1>2 DEF ScreensTypes, Fetching
<1>5. ASSUME NEW u \in Viewers, NEW c \in posted'
      PROVE  c \in untold'[u] \/ c \in screen'[u].heard \/ InQueue(u, c)'
  <2>1. screen'[u].heard = screen[u].heard
    BY <1>1, <1>3
  <2> QED BY <1>0, <2>1 DEF EventsAccounted, InQueue
<1>6. ASSUME NEW u \in Viewers, ~screen'[u].fetching
      PROVE  screen'[u].heard \subseteq screen'[u].shows \cup early'[u]
  <2>1. CASE u = v
    BY <1>1, <1>2, <2>1
  <2>2. CASE u # v
    BY <1>3, <1>6, <2>2 DEF EventsAccounted
  <2> QED BY <2>1, <2>2
<1>7. EventsAccounted'
  BY <1>0, <1>5, <1>6 DEF EventsAccounted
<1> QED BY <1>0, <1>4, <1>7 DEF PostingOnly

LEMMA ScreensStep == ScreensInv /\ [Next]_vars => ScreensInv'
<1> SUFFICES ASSUME ScreensInv, [Next]_vars PROVE ScreensInv'
  OBVIOUS
<1>1. ASSUME Displays PROVE ScreensInv'
  <2>0. desk = "screens" /\ desk' = desk
    BY <1>1 DEF Displays
  <2>1. CASE \E s \in Sessions : Change(s)
    BY <2>0, <2>1, PostKeepsScreens, EndKeepsScreens DEF Change
  <2>2. CASE \E v \in Viewers : Watch(v)
    BY <2>0, <2>2, ConnectKeepsScreens, HearKeepsScreens, FetchingKeepsScreens DEF Watch
  <2> QED BY <1>1, <2>1, <2>2 DEF Displays
<1>2. ASSUME Connectors \/ Logins \/ Codes \/ Scans PROVE ScreensInv'
  <2>1. UNCHANGED screensVars /\ desk' = desk /\ desk # "screens"
    BY <1>2 DEF Connectors, Logins, Codes, Scans
  <2> QED BY <2>1 DEF ScreensInv, ScreensTypes, EventsAccounted, PostingOnly, InQueue, screensVars
<1>3. ASSUME UNCHANGED vars PROVE ScreensInv'
  BY <1>3 DEF vars, ScreensInv, ScreensTypes, EventsAccounted, PostingOnly, InQueue, screensVars
<1> QED BY <1>1, <1>2, <1>3 DEF Next

(* A connected screen with nothing left to hear or to fetch shows all that *)
(* is committed, but for what it was not told or fetched too early: events *)
(* are published before the commit, and queues and streams lose them.      *)
THEOREM ScreensCatchUp == Spec => []ScreensFollow
<1>1. ScreensInv => ScreensFollow
  <2> SUFFICES ASSUME ScreensInv, NEW v \in Viewers, NEW c \in committed,
                      stream[v].open, stream[v].queue = <<>>, ~screen[v].fetching
               PROVE  c \in screen[v].shows \/ c \in untold[v] \/ c \in early[v]
    BY DEF ScreensFollow
  <2>1. c \in posted /\ ~InQueue(v, c)
    BY DEF ScreensInv, ScreensTypes, InQueue
  <2> QED BY <2>1 DEF ScreensInv, EventsAccounted
<1> QED BY <1>1, ScreensStart, ScreensStep, PTL DEF Spec

-----------------------------------------------------------------------------
(* The refresh tokens.                                                     *)
(*                                                                         *)
(* OneLiveToken counts live tokens of a login.  It is inductive with three *)
(* facts: a login is the number of a token that was given out; a request   *)
(* that rotates a token found it live, and if it no longer is, the login   *)
(* was raced for; and no two requests rotate one token but of such logins. *)

TokensTyped ==
    /\ token \in [Tokens -> [state : {"none", "live", "revoked"}, login : Tokens, user : Users]]
    /\ ended \subseteq Tokens

LoginsGivenOut ==
    /\ \A t \in Tokens : token[t].state # "none" => token[token[t].login].state # "none"
    /\ \A l \in ended : token[l].state # "none"

AtMostOneLive ==
    \A t \in Tokens : Live(t) /\ token[t].login \notin raced =>
      /\ token[t].login \notin ended
      /\ \A n \in Tokens : Live(n) /\ token[n].login = token[t].login => n = t

AccountRequests ==
    desk = "accounts" =>
      /\ req = [s \in Sessions |-> req[s]]
      /\ \A s \in Sessions : req[s].pc = "login" => req[s].user \in Users
      /\ \A s \in Sessions : req[s].pc = "rotate" =>
           /\ req[s].token \in Tokens
           /\ token[req[s].token].state # "none"
           /\ token[req[s].token].login \notin raced =>
                /\ Live(req[s].token)
                /\ \A r \in Sessions : Rotating(r, req[s].token) => r = s

TokensInv == TokensTyped /\ LoginsGivenOut /\ AtMostOneLive /\ AccountRequests

(* A token is given out from the rows not used yet. *)
LEMMA NewTokenIsFree ==
    ASSUME TokensLeft
    PROVE  NewToken \in Tokens /\ token[NewToken].state = "none"
<1> DEFINE free == {t \in Tokens : token[t].state = "none"}
<1>1. free \in SUBSET Nat /\ free # {}
  BY AccessAssumption DEF AccessAssumption, TokensLeft
<1>2. \E t \in free : \A n \in free : t <= n
  BY <1>1, Smallest
<1> QED BY <1>2 DEF NewToken

LEMMA TokensStart == Init => TokensInv
<1> SUFFICES ASSUME Init PROVE TokensInv
  OBVIOUS
<1> USE DEF Init, AccessInit, NoRequests, Idle
<1>1. TokensTyped
  BY AccessAssumption DEF AccessAssumption, TokensTyped
<1>2. LoginsGivenOut /\ AtMostOneLive /\ AccountRequests
  BY DEF LoginsGivenOut, AtMostOneLive, AccountRequests, Live
<1> QED BY <1>1, <1>2 DEF TokensInv

(* Steps that leave the tokens alone, and open no rotation. *)
LEMMA TokensUntouched ==
    ASSUME TokensInv, desk = "accounts", desk' = desk, UNCHANGED <<token, ended, raced>>,
           req' = [s \in Sessions |-> req'[s]],
           \A s \in Sessions :
             \/ req'[s] = req[s]
             \/ req'[s].pc # "rotate" /\ (req'[s].pc = "login" => req'[s].user \in Users)
    PROVE  TokensInv'
<1> USE DEF TokensInv
<1>1. AccountRequests'
  BY DEF AccountRequests, Rotating, Live
<1> QED BY <1>1 DEF TokensTyped, LoginsGivenOut, AtMostOneLive, Live

LEMMA ReadKeepsTokens ==
    ASSUME TokensInv, desk = "accounts", desk' = desk,
           NEW s \in Sessions, NEW t \in Tokens, RefreshTokenRead(s, t)
    PROVE  TokensInv'
<1> USE DEF TokensInv
<1>1. /\ UNCHANGED <<token, ended>>
      /\ req' = [req EXCEPT ![s] = [pc |-> "rotate", token |-> t]]
      /\ req[s] = Idle /\ Live(t)
      /\ raced' = IF \E r \in Sessions : Rotating(r, t)
                    THEN raced \cup {token[t].login} ELSE raced
  BY DEF RefreshTokenRead, Arrives, Becomes, Usable
<1>2. TokensTyped' /\ LoginsGivenOut'
  BY <1>1 DEF TokensTyped, LoginsGivenOut
<1>3. AtMostOneLive'
  BY <1>1 DEF AtMostOneLive, Live
<1>4. req' = [r \in Sessions |-> req'[r]] /\ req'[s] = [pc |-> "rotate", token |-> t]
  BY <1>1 DEF AccountRequests
<1>5. \A r \in Sessions : r # s => req'[r] = req[r]
  BY <1>1 DEF AccountRequests
<1>6. ASSUME NEW r \in Sessions, req'[r].pc = "rotate"
      PROVE  /\ req'[r].token \in Tokens
             /\ token'[req'[r].token].state # "none"
             /\ token'[req'[r].token].login \notin raced' =>
                  /\ token'[req'[r].token].state = "live"
                  /\ \A q \in Sessions :
                       req'[q].pc = "rotate" /\ req'[q].token = req'[r].token => q = r
  <2>1. CASE r = s
    <3>1. token[t].login \notin raced' => \A q \in Sessions : ~Rotating(q, t)
      BY <1>1
    <3> QED BY <1>1, <1>4, <1>5, <2>1, <3>1 DEF Live, Rotating
  <2>2. CASE r # s
    <3> DEFINE n == req[r].token
    <3>1. req'[r] = req[r]
      BY <1>5, <2>2
    <3>2. token[n].login \notin raced' => n # t
      BY <1>1, <1>6, <3>1 DEF Rotating
    <3>3. \A q \in Sessions : req'[q].pc = "rotate" /\ req'[q].token = n => q = s \/ Rotating(q, n)
      BY <1>5 DEF Rotating
    <3>4. /\ n \in Tokens /\ token[n].state # "none"
          /\ token[n].login \notin raced =>
               Live(n) /\ \A q \in Sessions : Rotating(q, n) => q = r
      BY <1>6, <3>1 DEF AccountRequests
    <3>5. token[n].login \notin raced' => token[n].login \notin raced
      BY <1>1
    <3> HIDE DEF n
    <3> QED BY <1>1, <1>4, <3>1, <3>2, <3>3, <3>4, <3>5 DEF Live, n
  <2> QED BY <2>1, <2>2
<1>7. \A r \in Sessions : req'[r].pc = "login" => req'[r].user \in Users
  BY <1>4, <1>5 DEF AccountRequests
<1>8. AccountRequests'
  BY <1>4, <1>6, <1>7 DEF AccountRequests, Live, Rotating
<1> QED BY <1>2, <1>3, <1>8

LEMMA LoginKeepsTokens ==
    ASSUME TokensInv, desk = "accounts", desk' = desk,
           NEW s \in Sessions, LoginPasses(s)
    PROVE  TokensInv'
<1> USE DEF TokensInv
<1> DEFINE n == NewToken
           u == req[s].user
<1>0. n \in Tokens /\ token[n].state = "none"
  BY NewTokenIsFree DEF LoginPasses
<1>1. /\ token' = [token EXCEPT ![n] = [state |-> "live", user |-> u, login |-> n]]
      /\ UNCHANGED <<ended, raced>>
      /\ req' = [req EXCEPT ![s] = Idle]
      /\ u \in Users
  BY DEF LoginPasses, Issued, Ends, Becomes, AccountRequests
<1> HIDE DEF n, u
<1>2. \A t \in Tokens : t # n => token'[t] = token[t]
  BY <1>1 DEF TokensTyped
<1>3. token'[n] = [state |-> "live", user |-> u, login |-> n]
  BY <1>0, <1>1 DEF TokensTyped
<1>4. TokensTyped'
  BY <1>0, <1>1 DEF TokensTyped
<1>5. LoginsGivenOut'
  BY <1>0, <1>1, <1>2, <1>3 DEF TokensTyped, LoginsGivenOut
<1>6. \A t \in Tokens : token'[t].state = "live" => t = n \/ (Live(t) /\ token[t].login # n)
  BY <1>0, <1>2 DEF LoginsGivenOut, Live, TokensTyped
<1>7. n \notin ended
  BY <1>0 DEF LoginsGivenOut
<1>8. AtMostOneLive'
  BY <1>1, <1>2, <1>3, <1>6, <1>7 DEF AtMostOneLive, Live
<1>9. AccountRequests'
  <2>1. req' = [r \in Sessions |-> req'[r]] /\ \A r \in Sessions : req'[r] = req[r] \/ req'[r] = Idle
    BY <1>1 DEF AccountRequests
  <2>2. \A t \in Tokens : token[t].state # "none" => token'[t] = token[t]
    BY <1>0, <1>2
  <2> QED BY <1>1, <2>1, <2>2 DEF AccountRequests, Rotating, Live, Idle
<1> QED BY <1>4, <1>5, <1>8, <1>9

LEMMA RotateKeepsTokens ==
    ASSUME TokensInv, desk = "accounts", desk' = desk,
           NEW s \in Sessions, Rotate(s)
    PROVE  TokensInv'
<1> USE DEF TokensInv
<1> DEFINE n == NewToken
           o == req[s].token
           l == token[o].login
<1>0. n \in Tokens /\ token[n].state = "none"
  BY NewTokenIsFree DEF Rotate
<1>1. /\ req[s].pc = "rotate"
      /\ UNCHANGED <<ended, raced>>
      /\ req' = [req EXCEPT ![s] = Idle]
  BY DEF Rotate, Ends, Becomes
<1>2. o \in Tokens /\ token[o].state # "none"
  BY <1>1 DEF AccountRequests
<1>3. l \notin raced => Live(o) /\ \A r \in Sessions : Rotating(r, o) => r = s
  BY <1>1 DEF AccountRequests
<1>4. token' = [token EXCEPT ![o].state = "revoked",
                            ![n] = [state |-> "live", user |-> token[o].user, login |-> l]]
  BY DEF Rotate, Issued
<1> HIDE DEF n, o
<1>5. \A t \in Tokens \ {n, o} : token'[t] = token[t]
  BY <1>4 DEF TokensTyped
<1>6. token'[n] = [state |-> "live", user |-> token[o].user, login |-> l]
  BY <1>0, <1>4 DEF TokensTyped
<1>7. token'[o] = [state |-> "revoked", login |-> l, user |-> token[o].user]
  BY <1>0, <1>2, <1>4 DEF TokensTyped
<1>8. TokensTyped'
  <2>1. l \in Tokens /\ token[o].user \in Users
    BY <1>2 DEF TokensTyped
  <2>2. \A t \in Tokens : token'[t] \in [state : {"none", "live", "revoked"}, login : Tokens, user : Users]
    BY <1>5, <1>6, <1>7, <2>1 DEF TokensTyped
  <2>3. token' = [t \in Tokens |-> token'[t]]
    BY <1>4 DEF TokensTyped
  <2> QED BY <1>1, <2>2, <2>3 DEF TokensTyped
<1>9. LoginsGivenOut'
  <2>1. \A t \in Tokens : token[t].state # "none" => token'[t].state # "none"
    BY <1>0, <1>5, <1>6, <1>7
  <2>2. \A t \in Tokens : token'[t].state # "none" =>
          \E m \in Tokens : token[m].state # "none" /\ token'[t].login = token[m].login
    BY <1>2, <1>5, <1>6, <1>7
  <2>3. \A m \in Tokens : token[m].login \in Tokens
    BY DEF TokensTyped
  <2> QED BY <1>1, <2>1, <2>2, <2>3 DEF LoginsGivenOut, TokensTyped
<1>10. AtMostOneLive'
  <2>1. ASSUME NEW t \in Tokens, token'[t].state = "live", token'[t].login \notin raced
        PROVE  \/ t = n /\ Live(o) /\ token'[t].login = l
               \/ t # n /\ t # o /\ Live(t) /\ token'[t].login = token[t].login
    BY <1>3, <1>5, <1>6, <1>7, <2>1 DEF Live
  <2>2. ASSUME NEW t \in Tokens, NEW m \in Tokens, token'[t].state = "live",
               token'[m].state = "live", token'[t].login \notin raced, token'[m].login = token'[t].login
        PROVE  m = t
    <3>1. CASE t = n /\ m = n
      BY <3>1
    <3>2. CASE t # n /\ m # n
      BY <2>1, <2>2, <3>2 DEF AtMostOneLive
    <3>3. CASE t = n /\ m # n
      BY <1>2, <2>1, <2>2, <3>3 DEF AtMostOneLive
    <3>4. CASE t # n /\ m = n
      BY <1>2, <2>1, <2>2, <3>4 DEF AtMostOneLive
    <3> QED BY <3>1, <3>2, <3>3, <3>4
  <2>3. ASSUME NEW t \in Tokens, token'[t].state = "live", token'[t].login \notin raced
        PROVE  token'[t].login \notin ended
    BY <1>2, <2>1, <2>3 DEF AtMostOneLive
  <2> QED BY <1>1, <2>2, <2>3 DEF AtMostOneLive, Live
<1>11. AccountRequests'
  <2>1. req' = [r \in Sessions |-> req'[r]] /\ req'[s] = Idle
    BY <1>1 DEF AccountRequests
  <2>2. \A r \in Sessions : r # s => req'[r] = req[r]
    BY <1>1 DEF AccountRequests
  <2>3. ASSUME NEW r \in Sessions, req'[r].pc = "rotate"
        PROVE  /\ req'[r].token \in Tokens
               /\ token'[req'[r].token].state # "none"
               /\ token'[req'[r].token].login \notin raced' =>
                    /\ token'[req'[r].token].state = "live"
                    /\ \A q \in Sessions :
                         req'[q].pc = "rotate" /\ req'[q].token = req'[r].token => q = r
    <3> DEFINE m == req[r].token
    <3>1. r # s /\ req'[r] = req[r]
      BY <2>1, <2>2, <2>3 DEF Idle
    <3>2. /\ m \in Tokens /\ token[m].state # "none"
          /\ token[m].login \notin raced =>
               Live(m) /\ \A q \in Sessions : Rotating(q, m) => q = r
      BY <2>3, <3>1 DEF AccountRequests
    <3>3. token[m].login \notin raced => m # o
      BY <1>1, <3>1, <3>2 DEF Rotating, o
    <3>4. \A q \in Sessions : req'[q].pc = "rotate" /\ req'[q].token = m => Rotating(q, m)
      BY <2>1, <2>2 DEF Rotating, Idle
    <3> HIDE DEF m
    <3>5. m # n
      BY <1>0, <3>2
    <3>6. m # o => token'[m] = token[m]
      BY <1>5, <3>2, <3>5
    <3>7. token'[m].state # "none" /\ token'[m].login = token[m].login
      BY <1>7, <3>2, <3>6
    <3> QED BY <1>1, <3>1, <3>2, <3>3, <3>4, <3>6, <3>7 DEF m, Live
  <2>4. \A r \in Sessions : req'[r].pc = "login" => req'[r].user \in Users
    BY <2>1, <2>2 DEF AccountRequests, Idle
  <2> QED BY <2>1, <2>3, <2>4 DEF AccountRequests, Rotating, Live
<1> QED BY <1>8, <1>9, <1>10, <1>11

LEMMA LogoutKeepsTokens ==
    ASSUME TokensInv, desk = "accounts", desk' = desk, NEW t \in Tokens, Logout(t)
    PROVE  TokensInv'
<1> USE DEF TokensInv
<1> DEFINE l == token[t].login
<1>1. /\ token' = [token EXCEPT ![t].state = "revoked"]
      /\ ended' = ended \cup {l}
      /\ raced' = IF \E r \in Sessions : Rotating(r, t) THEN raced \cup {l} ELSE raced
      /\ req' = req /\ Live(t)
  BY DEF Logout
<1>2. token'[t] = [state |-> "revoked", login |-> l, user |-> token[t].user]
  BY <1>1 DEF TokensTyped
<1>3. \A n \in Tokens : n # t => token'[n] = token[n]
  BY <1>1 DEF TokensTyped
<1>4. TokensTyped'
  BY <1>1 DEF TokensTyped
<1>5. LoginsGivenOut'
  BY <1>1, <1>2, <1>3 DEF TokensTyped, LoginsGivenOut, Live
<1>6. AtMostOneLive'
  BY <1>1, <1>2, <1>3 DEF TokensTyped, AtMostOneLive, Live
<1>7. AccountRequests'
  <2>1. \A r \in Sessions : req[r].pc = "rotate" /\ token[req[r].token].login \notin raced'
          => req[r].token # t
    BY <1>1 DEF Rotating
  <2>2. \A n \in Tokens : token'[n].login = token[n].login /\ (n # t => token'[n] = token[n])
    BY <1>2, <1>3
  <2>3. \A n \in Tokens : token[n].state # "none" => token'[n].state # "none"
    BY <1>2, <1>3
  <2>4. raced \subseteq raced'
    BY <1>1
  <2> QED BY <1>1, <2>1, <2>2, <2>3, <2>4 DEF AccountRequests, Rotating, Live
<1> QED BY <1>4, <1>5, <1>6, <1>7

LEMMA TokensStep == TokensInv /\ [Next]_vars => TokensInv'
<1> SUFFICES ASSUME TokensInv, [Next]_vars PROVE TokensInv'
  OBVIOUS
<1>1. ASSUME Logins PROVE TokensInv'
  <2>0. desk = "accounts" /\ desk' = desk
    BY <1>1 DEF Logins
  <2>1. req = [s \in Sessions |-> req[s]]
    BY <2>0 DEF TokensInv, AccountRequests
  <2>2. ASSUME NEW u \in Users, NEW active \in BOOLEAN,
               Signup(u) \/ ApproveUser(u) \/ RejectUser(u) \/ LockoutEnds(u) \/ UpdateUser(u, active)
        PROVE  TokensInv'
    <3>1. UNCHANGED <<token, ended, raced, req>>
      BY <2>2 DEF Signup, ApproveUser, RejectUser, UpdateUser, Decide, LockoutEnds
    <3> QED BY <2>0, <2>1, <3>1, TokensUntouched
  <2>3. ASSUME Accounts PROVE TokensInv'
    BY <2>0, <2>2, <2>3, LogoutKeepsTokens DEF Accounts
  <2>4. ASSUME NEW s \in Sessions, Authenticate(s) PROVE TokensInv'
    <3>1. CASE \E u \in Users : LoginRead(s, u)
      <4>1. PICK u \in Users : LoginRead(s, u)
        BY <3>1
      <4>2. /\ UNCHANGED <<token, ended, raced>>
            /\ req' = [req EXCEPT ![s] = [pc |-> "login", user |-> u, seen |-> user[u]]]
        BY <4>1 DEF LoginRead, Becomes, accessVars
      <4>3. /\ req' = [r \in Sessions |-> req'[r]]
            /\ \A r \in Sessions :
                 \/ req'[r] = req[r]
                 \/ req'[r].pc = "login" /\ req'[r].user \in Users
        BY <2>1, <4>2
      <4> QED BY <2>0, <4>2, <4>3, TokensUntouched
    <3>2. CASE LoginFails(s) \/ AccessRollback(s)
      <4>1. UNCHANGED <<token, ended, raced>> /\ req' = [req EXCEPT ![s] = Idle]
        BY <3>2 DEF LoginFails, AccessRollback, Ends, Becomes, accessVars
      <4>2. /\ req' = [r \in Sessions |-> req'[r]]
            /\ \A r \in Sessions : req'[r] = req[r] \/ req'[r].pc = "idle"
        BY <2>1, <4>1 DEF Idle
      <4> QED BY <2>0, <4>1, <4>2, TokensUntouched
    <3> QED BY <2>0, <2>4, <3>1, <3>2, LoginKeepsTokens, ReadKeepsTokens, RotateKeepsTokens
            DEF Authenticate
  <2> QED BY <1>1, <2>3, <2>4 DEF Logins
<1>2. ASSUME Connectors \/ Codes \/ Scans \/ Displays PROVE TokensInv'
  <2>1. UNCHANGED accessVars /\ desk' = desk /\ desk # "accounts"
    BY <1>2 DEF Connectors, Codes, Scans, Displays
  <2> QED BY <2>1 DEF TokensInv, TokensTyped, LoginsGivenOut, AtMostOneLive, AccountRequests, Live, accessVars
<1>3. ASSUME UNCHANGED vars PROVE TokensInv'
  BY <1>3 DEF vars, TokensInv, TokensTyped, LoginsGivenOut, AtMostOneLive, AccountRequests,
              Live, Rotating, accessVars
<1> QED BY <1>1, <1>2, <1>3 DEF Next

(* A login never has two live refresh tokens, and none after its logout,   *)
(* unless two requests used its token at once: refresh and logout read the *)
(* row without a lock.                                                     *)
THEOREM LoginsHaveOneToken == Spec => []OneLiveToken
<1>1. TokensInv => OneLiveToken
  <2> SUFFICES ASSUME TokensInv, NEW l \in Tokens \ raced
               PROVE  Cardinality({t \in Tokens : Live(t) /\ token[t].login = l})
                        <= (IF l \in ended THEN 0 ELSE 1)
    BY DEF OneLiveToken
  <2> DEFINE S == {t \in Tokens : Live(t) /\ token[t].login = l}
  <2>1. CASE S = {}
    BY <2>1, FS_EmptySet
  <2>2. CASE S # {}
    <3>1. PICK x \in S : TRUE
      BY <2>2
    <3>2. x \in Tokens /\ Live(x) /\ token[x].login = l
      BY <3>1
    <3>3. l \notin ended /\ \A n \in Tokens : Live(n) /\ token[n].login = l => n = x
      BY <3>2 DEF TokensInv, AtMostOneLive
    <3>4. S = {x}
      BY <3>2, <3>3
    <3>5. Cardinality({x}) = 1
      BY FS_Singleton
    <3> HIDE DEF S
    <3>6. Cardinality(S) <= (IF l \in ended THEN 0 ELSE 1)
      BY <3>3, <3>4, <3>5
    <3> QED BY <3>6 DEF S
  <2> QED BY <2>1, <2>2
<1> QED BY <1>1, TokensStart, TokensStep, PTL DEF Spec

-----------------------------------------------------------------------------
(* The scans of pick tasks.                                                *)
(*                                                                         *)
(* A scan under way knows at most what is true: what its copy of the task  *)
(* does not list any more was accepted, and unless another request wrote   *)
(* the task meanwhile the copy lists just what the row does.               *)

AllCodes == UNION {PlannedCodes[p] : p \in Picks}

PicksTyped ==
    /\ pick \in [Picks -> [doc : {"none", "in_progress", "completed", "cancelled"},
                           task : {"none"} \cup TaskStatus, left : SUBSET AllCodes]]
    /\ accepted \in [Picks -> SUBSET AllCodes]

Untouched(p) == pick[p] = NoPick /\ accepted[p] = {}

CodesCounted(p) ==
    /\ pick[p].doc # "none"
    /\ PlannedCodes[p] \ pick[p].left \subseteq accepted[p]
    /\ p \notin overlapped => pick[p].left = PlannedCodes[p] \ accepted[p]
    /\ p \notin byHand /\ pick[p].task = "completed" => PlannedCodes[p] \subseteq accepted[p]
    /\ p \notin byHand \cup overlapped \cup reread /\ PlannedCodes[p] # {} /\ pick[p].left = {}
         => pick[p].task = "completed"

ScanTrue(s) ==
    LET q == req[s] IN
    q.pc = "scan" =>
      /\ q.pick \in Picks /\ q.code \in PlannedCodes[q.pick]
      /\ ~Untouched(q.pick)
      /\ q.seen.task \in OpenTask
      /\ q.seen.left \subseteq AllCodes
      /\ PlannedCodes[q.pick] \ q.seen.left \subseteq accepted[q.pick]
      /\ q.pick \notin overlapped => q.seen.left = pick[q.pick].left

(* A release cancels open tasks, and one that was scanned since is known. *)
ReleaseTrue(s) ==
    LET q == req[s] IN
    /\ q.pc \in {"documents", "release"} =>
         /\ q.docs \subseteq Picks
         /\ \A p \in q.docs : ~Untouched(p)
    /\ q.pc = "release" =>
         /\ q.tasks \subseteq q.docs
         /\ \A p \in q.tasks \ (byHand \cup overlapped \cup reread) :
              PlannedCodes[p] # {} => pick[p].left # {}

ScansInv ==
    /\ PicksTyped
    /\ \A p \in Picks : Untouched(p) \/ CodesCounted(p)
    /\ desk = "scans" =>
         /\ req = [s \in Sessions |-> req[s]]
         /\ \A s \in Sessions : ScanTrue(s) /\ ReleaseTrue(s)

LEMMA ScansStart == Init => ScansInv
<1> SUFFICES ASSUME Init PROVE ScansInv
  OBVIOUS
<1> USE DEF Init, PickScanInit, NoRequests, Idle
<1>1. PicksTyped
  BY DEF PicksTyped, NoPick
<1>2. \A p \in Picks : Untouched(p)
  BY DEF Untouched
<1>3. \A s \in Sessions : ScanTrue(s) /\ ReleaseTrue(s)
  BY DEF ScanTrue, ReleaseTrue
<1> QED BY <1>1, <1>2, <1>3 DEF ScansInv

(* Someone sets the status of a task by hand. *)
LEMMA ManagedKeepsScans ==
    ASSUME ScansInv, desk = "scans", UNCHANGED <<desk, req, accepted, overlapped, reread>>,
           NEW p \in Picks, PicksTyped', byHand' = byHand \cup {p},
           \A r \in Picks \ {p} : pick'[r] = pick[r],
           pick[p] # NoPick, pick'[p].doc # "none", pick'[p].left = pick[p].left
    PROVE  ScansInv'
<1> USE DEF ScansInv
<1>1. CodesCounted(p) /\ ~Untouched(p)
  BY DEF Untouched
<1>2. ~Untouched(p)' /\ CodesCounted(p)'
  BY <1>1 DEF CodesCounted, Untouched, NoPick
<1>3. \A r \in Picks : (Untouched(r) \/ CodesCounted(r))'
  BY <1>2 DEF Untouched, CodesCounted
<1>4. ASSUME NEW s \in Sessions PROVE ScanTrue(s)'
  <2>1. ScanTrue(s) /\ req'[s] = req[s]
    OBVIOUS
  <2>2. req[s].pc = "scan" /\ req[s].pick = p => ScanTrue(s)'
    BY <2>1, <1>2 DEF ScanTrue
  <2> QED BY <2>1, <2>2 DEF ScanTrue, Untouched
<1>5. ASSUME NEW s \in Sessions PROVE ReleaseTrue(s)'
  <2>1. ReleaseTrue(s) /\ req'[s] = req[s]
    OBVIOUS
  <2>2. \A r \in Picks : ~Untouched(r) => ~Untouched(r)'
    BY <1>2 DEF Untouched
  <2>3. \A r \in Picks : pick'[r].left = pick[r].left
    OBVIOUS
  <2> QED BY <2>1, <2>2, <2>3 DEF ReleaseTrue
<1> QED BY <1>3, <1>4, <1>5

LEMMA CreatedKeepsScans ==
    ASSUME ScansInv, desk = "scans", desk' = desk, NEW p \in Picks, CreatePickTask(p)
    PROVE  ScansInv'
<1> USE DEF ScansInv, CreatePickTask
<1>1. PicksTyped' /\ \A r \in Picks \ {p} : pick'[r] = pick[r]
  BY DEF PicksTyped, TaskStatus, OpenTask, AllCodes
<1>2. accepted[p] = {}
  BY DEF Untouched, CodesCounted, NoPick
<1>3. CodesCounted(p)'
  <2>1. pick'[p] = [doc |-> "in_progress", task |-> "pending", left |-> PlannedCodes[p]]
    BY DEF PicksTyped
  <2> QED BY <1>2, <2>1 DEF CodesCounted
<1>4. \A r \in Picks : (Untouched(r) \/ CodesCounted(r))'
  BY <1>1, <1>3 DEF Untouched, CodesCounted
<1>5. ASSUME NEW s \in Sessions PROVE ScanTrue(s)' /\ ReleaseTrue(s)'
  <2>1. req[s].pc = "scan" => req[s].pick # p
    BY <1>2 DEF ScanTrue, Untouched
  <2>2. req[s].pc \in {"documents", "release"} => p \notin req[s].docs
    BY <1>2 DEF ReleaseTrue, Untouched
  <2>3. ScanTrue(s)'
    BY <2>1, <1>1 DEF ScanTrue, Untouched
  <2>4. ReleaseTrue(s)'
    BY <2>2, <1>1 DEF ReleaseTrue, Untouched
  <2> QED BY <2>3, <2>4
<1> QED BY <1>1, <1>4, <1>5

LEMMA ScanReadKeepsScans ==
    ASSUME ScansInv, desk = "scans", desk' = desk,
           NEW s \in Sessions, NEW p \in Picks, NEW c \in PlannedCodes[p], ScanRead(s, p, c)
    PROVE  ScansInv'
<1> USE DEF ScansInv, ScanRead, Arrives, Becomes, scanVars
<1>1. PicksTyped' /\ \A r \in Picks : (Untouched(r) \/ CodesCounted(r))'
  BY DEF PicksTyped, Untouched, CodesCounted
<1>2. req'[s] = [pc |-> "scan", pick |-> p, code |-> c, seen |-> pick[p]]
      /\ \A r \in Sessions \ {s} : req'[r] = req[r]
  OBVIOUS
<1>3. CodesCounted(p) /\ ~Untouched(p)
  BY DEF Untouched, NoPick, OpenTask
<1>4. ScanTrue(s)'
  <2>1. pick[p].left \subseteq AllCodes
    BY DEF PicksTyped
  <2> QED BY <1>2, <1>3, <2>1 DEF ScanTrue, CodesCounted, Untouched
<1>5. ReleaseTrue(s)' /\ \A r \in Sessions \ {s} : ScanTrue(r)' /\ ReleaseTrue(r)'
  BY <1>2 DEF ScanTrue, ReleaseTrue, Untouched
<1>6. req' = [r \in Sessions |-> req'[r]]
  OBVIOUS
<1> QED BY <1>1, <1>4, <1>5, <1>6

LEMMA ScanCommitKeepsScans ==
    ASSUME ScansInv, desk = "scans", desk' = desk, NEW s \in Sessions, ScanCommit(s)
    PROVE  ScansInv'
<1> DEFINE q == req[s]
           left == q.seen.left \ {q.code}
           status == IF left = {} THEN "completed" ELSE "in_progress"
<1> USE DEF ScansInv
<1>0. q.pick \in Picks
  BY DEF ScanCommit, ScanTrue
<1>p. PICK p \in Picks : q.pick = p
  BY <1>0
<1>1. /\ p \in Picks /\ q.code \in PlannedCodes[p] /\ ~Untouched(p) /\ CodesCounted(p)
      /\ q.seen.task \in OpenTask /\ q.seen.left \subseteq AllCodes
      /\ PlannedCodes[p] \ q.seen.left \subseteq accepted[p]
      /\ p \notin overlapped => q.seen.left = pick[p].left
  BY <1>p DEF ScanCommit, ScanTrue
<1>2. /\ pick'[p] = [doc |-> pick[p].doc, left |-> left,
                     task |-> IF status = q.seen.task THEN pick[p].task ELSE status]
      /\ \A r \in Picks \ {p} : pick'[r] = pick[r]
      /\ pick' = [r \in Picks |-> pick'[r]]
  BY <1>1, <1>p, ZenonT(40) DEF ScanCommit, AfterScan, PayloadReplaced, PicksTyped
<1>3. /\ accepted'[p] = accepted[p] \cup {q.code}
      /\ \A r \in Picks \ {p} : accepted'[r] = accepted[r]
  BY <1>1, <1>p DEF ScanCommit, PicksTyped
<1>4. /\ byHand' = byHand
      /\ overlapped' = IF \E r \in Sessions \ {s} : Scanning(r, p)
                         THEN overlapped \cup {p} ELSE overlapped
      /\ reread' = IF \E r \in Sessions : Releasing(r, p) THEN reread \cup {p} ELSE reread
  BY <1>p DEF ScanCommit
<1>5. req' = [req EXCEPT ![s] = Idle]
  BY DEF ScanCommit, Ends, Becomes
<1>6. left = {} <=> status = "completed"
  OBVIOUS
<1>7. status \in {"completed", "in_progress"} /\ q.seen.task # "completed" /\ left \subseteq AllCodes
  BY <1>1 DEF OpenTask
<1> HIDE DEF status
<1>8. PicksTyped'
  <2>1. q.code \in AllCodes
    BY <1>1 DEF AllCodes
  <2>2. pick'[p].doc \in {"none", "in_progress", "completed", "cancelled"}
        /\ pick'[p].task \in {"none"} \cup TaskStatus /\ pick'[p].left \subseteq AllCodes
    BY <1>1, <1>2, <1>7 DEF PicksTyped, TaskStatus, OpenTask
  <2>3. pick' \in [Picks -> [doc : {"none", "in_progress", "completed", "cancelled"},
                            task : {"none"} \cup TaskStatus, left : SUBSET AllCodes]]
    BY <1>2, <2>2 DEF PicksTyped
  <2>4. accepted' \in [Picks -> SUBSET AllCodes]
    BY <2>1, <1>p DEF ScanCommit, PicksTyped
  <2> QED BY <2>3, <2>4 DEF PicksTyped
<1>9. overlapped \subseteq overlapped' /\ reread \subseteq reread'
  BY <1>4
<1>10. CodesCounted(p)'
  <2>1. pick'[p].doc # "none" /\ PlannedCodes[p] \ left \subseteq accepted'[p]
    BY <1>1, <1>2, <1>3 DEF CodesCounted, Untouched
  <2>2. p \notin overlapped' => left = PlannedCodes[p] \ accepted'[p]
    BY <1>1, <1>3, <1>9 DEF CodesCounted, Untouched
  <2>3. ASSUME p \notin byHand, pick'[p].task = "completed"
        PROVE  PlannedCodes[p] \subseteq accepted'[p]
    <3>1. CASE status = "completed"
      BY <3>1, <1>1, <1>3, <1>6
    <3>2. CASE status # "completed"
      <4>1. pick[p].task = "completed"
        BY <3>2, <2>3, <1>2, <1>7
      <4> QED BY <4>1, <2>3, <1>1, <1>3 DEF CodesCounted
    <3> QED BY <3>1, <3>2
  <2>4. left = {} => pick'[p].task = "completed"
    BY <1>2, <1>6, <1>7
  <2>5. pick'[p].left = left /\ byHand' = byHand
    BY <1>2, <1>4
  <2> HIDE DEF left
  <2> QED BY <2>1, <2>2, <2>3, <2>4, <2>5 DEF CodesCounted
<1>11. ASSUME NEW r \in Picks PROVE (Untouched(r) \/ CodesCounted(r))'
  <2>1. CASE r = p
    BY <2>1, <1>10
  <2>2. CASE r # p
    <3>1. pick'[r] = pick[r] /\ accepted'[r] = accepted[r] /\ byHand' = byHand
      BY <2>2, <1>2, <1>3, <1>4
    <3>2. Untouched(r) \/ CodesCounted(r)
      OBVIOUS
    <3> QED BY <3>1, <3>2, <1>9 DEF Untouched, CodesCounted
  <2> QED BY <2>1, <2>2
<1>12. ASSUME NEW r \in Sessions PROVE ScanTrue(r)'
  <2>1. CASE r = s
    BY <2>1, <1>5 DEF ScanTrue, Idle
  <2>2. CASE r # s /\ req[r].pc = "scan" /\ req[r].pick = p
    <3>1. p \in overlapped'
      BY <2>2, <1>1, <1>4 DEF Scanning
    <3>2. req'[r] = req[r] /\ ScanTrue(r)
      BY <2>2, <1>5
    <3>3. ~Untouched(p)'
      BY <1>1, <1>2, <1>10 DEF CodesCounted, Untouched, NoPick
    <3>4. accepted[p] \subseteq accepted'[p]
      BY <1>3
    <3>5. req[r].pick = p
      BY <2>2
    <3> QED BY <3>1, <3>2, <3>3, <3>4, <3>5 DEF ScanTrue
  <2>3. CASE r # s /\ ~(req[r].pc = "scan" /\ req[r].pick = p)
    <3>1. req'[r] = req[r] /\ ScanTrue(r)
      BY <2>3, <1>5
    <3> QED BY <2>3, <3>1, <1>2, <1>3, <1>9 DEF ScanTrue, Untouched
  <2> QED BY <2>1, <2>2, <2>3
<1>13. req' = [r \in Sessions |-> req'[r]]
  BY <1>5
<1>14. ASSUME NEW r \in Sessions PROVE ReleaseTrue(r)'
  <2>1. CASE r = s
    BY <2>1, <1>5 DEF ReleaseTrue, Idle
  <2>2. CASE r # s
    <3>1. req'[r] = req[r] /\ ReleaseTrue(r)
      BY <2>2, <1>5
    <3>2. \A n \in Picks : ~Untouched(n) => ~Untouched(n)'
      BY <1>1, <1>2, <1>3, <1>10 DEF Untouched, CodesCounted, NoPick
    <3>3. req[r].pc = "release" /\ p \in req[r].tasks => p \in reread'
      BY <1>4 DEF Releasing
    <3>4. \A n \in Picks \ {p} : pick'[n] = pick[n]
      BY <1>2
    <3> QED BY <3>1, <3>2, <3>3, <3>4, <1>4, <1>9 DEF ReleaseTrue
  <2> QED BY <2>1, <2>2
<1> QED BY <1>8, <1>11, <1>12, <1>13, <1>14

(* The documents in progress and those tasks of theirs that were open.     *)
LEMMA ReleaseReadKeepsScans ==
    ASSUME ScansInv, desk = "scans", desk' = desk,
           NEW s \in Sessions, ReleaseDocuments(s) \/ ReleaseTasks(s)
    PROVE  ScansInv'
<1> USE DEF ScansInv
<1>1. UNCHANGED scanVars /\ req' = [req EXCEPT ![s] = req'[s]]
  BY DEF ReleaseDocuments, ReleaseTasks, Becomes
<1>2. PicksTyped' /\ \A p \in Picks : (Untouched(p) \/ CodesCounted(p))'
  BY <1>1 DEF PicksTyped, Untouched, CodesCounted, scanVars
<1>3. \A r \in Sessions \ {s} : ScanTrue(r)' /\ ReleaseTrue(r)'
  BY <1>1 DEF ScanTrue, ReleaseTrue, Untouched, scanVars
<1>4. ASSUME ReleaseDocuments(s) PROVE ScanTrue(s)' /\ ReleaseTrue(s)'
  <2>1. req'[s] = [pc |-> "documents", docs |-> {p \in Picks : pick[p].doc = "in_progress"}]
    BY <1>4 DEF ReleaseDocuments, Becomes
  <2>2. \A p \in Picks : pick[p].doc = "in_progress" => ~Untouched(p)'
    BY <1>1 DEF Untouched, NoPick, scanVars
  <2> QED BY <2>1, <2>2 DEF ScanTrue, ReleaseTrue
<1>5. ASSUME ReleaseTasks(s) PROVE ScanTrue(s)' /\ ReleaseTrue(s)'
  <2>1. PICK docs : docs = req[s].docs
    OBVIOUS
  <2>2. req'[s] = [pc |-> "release", docs |-> docs, tasks |-> {p \in docs : pick[p].task \in OpenTask}]
    BY <2>1, <1>5 DEF ReleaseTasks, Becomes
  <2>3. docs \subseteq Picks /\ \A p \in docs : ~Untouched(p)
    BY <2>1, <1>5 DEF ReleaseTasks, ReleaseTrue
  <2>4. \A p \in docs \ (byHand \cup overlapped \cup reread) :
          pick[p].task \in OpenTask /\ PlannedCodes[p] # {} => pick[p].left # {}
    BY <2>3 DEF CodesCounted, OpenTask
  <2>5. \A p \in docs : ~Untouched(p)'
    BY <2>3, <1>1 DEF Untouched, scanVars
  <2> QED BY <2>2, <2>3, <2>4, <2>5, <1>1 DEF ScanTrue, ReleaseTrue, scanVars
<1> QED BY <1>1, <1>2, <1>3, <1>4, <1>5

LEMMA ReleaseCommitKeepsScans ==
    ASSUME ScansInv, desk = "scans", desk' = desk, NEW s \in Sessions, ReleaseCommit(s)
    PROVE  ScansInv'
<1> USE DEF ScansInv
<1>0. PICK docs, tasks : docs = req[s].docs /\ tasks = req[s].tasks
  OBVIOUS
<1>1. /\ tasks \subseteq docs /\ docs \subseteq Picks /\ \A p \in docs : ~Untouched(p)
      /\ \A p \in tasks \ (byHand \cup overlapped \cup reread) :
           PlannedCodes[p] # {} => pick[p].left # {}
  BY <1>0 DEF ReleaseCommit, ReleaseTrue
<1>2. /\ pick' = [p \in Picks |-> pick'[p]]
      /\ \A p \in Picks :
           pick'[p] = [doc |-> IF p \in docs THEN "cancelled" ELSE pick[p].doc,
                       task |-> IF p \in tasks THEN "cancelled" ELSE pick[p].task,
                       left |-> pick[p].left]
  <2>1. pick' = [p \in Picks |->
                   [pick[p] EXCEPT !.doc = IF p \in docs THEN "cancelled" ELSE @,
                                   !.task = IF p \in tasks THEN "cancelled" ELSE @]]
    BY <1>0 DEF ReleaseCommit
  <2>2. ASSUME NEW p \in Picks
        PROVE  pick'[p] = [doc |-> IF p \in docs THEN "cancelled" ELSE pick[p].doc,
                           task |-> IF p \in tasks THEN "cancelled" ELSE pick[p].task,
                           left |-> pick[p].left]
    <3>1. PICK row : row = pick[p] /\ row = [doc |-> row.doc, task |-> row.task, left |-> row.left]
      BY DEF PicksTyped
    <3>2. pick'[p] = [row EXCEPT !.doc = IF p \in docs THEN "cancelled" ELSE @,
                                !.task = IF p \in tasks THEN "cancelled" ELSE @]
      BY <2>1, <3>1
    <3> QED BY <3>1, <3>2
  <2>3. pick' = [p \in Picks |-> pick'[p]]
    BY <2>1
  <2> QED BY <2>2, <2>3
<1>3. UNCHANGED <<accepted, byHand, overlapped, reread>> /\ req' = [req EXCEPT ![s] = Idle]
  BY DEF ReleaseCommit, Ends, Becomes
<1>4. PicksTyped'
  <2>1. \A p \in Picks : pick[p] \in [doc : {"none", "in_progress", "completed", "cancelled"},
                                       task : {"none"} \cup TaskStatus, left : SUBSET AllCodes]
    BY DEF PicksTyped
  <2> QED BY <2>1, <1>2, <1>3 DEF PicksTyped, TaskStatus, OpenTask
<1>5. ASSUME NEW p \in Picks
      PROVE  (Untouched(p) \/ CodesCounted(p))' /\ (~Untouched(p) => ~Untouched(p)')
  <2>1. CASE p \notin docs
    <3>1. pick'[p] = pick[p]
      BY <2>1, <1>1, <1>2 DEF PicksTyped
    <3> QED BY <3>1, <1>3 DEF Untouched, CodesCounted
  <2>2. CASE p \in docs
    <3>1. CodesCounted(p)
      BY <2>2, <1>1
    <3>2. pick'[p].doc = "cancelled" /\ pick'[p].left = pick[p].left
          /\ pick'[p].task = IF p \in tasks THEN "cancelled" ELSE pick[p].task
      BY <2>2, <1>2
    <3>3. CodesCounted(p)'
      BY <3>1, <3>2, <1>1, <1>3 DEF CodesCounted
    <3>4. ~Untouched(p)'
      BY <3>2 DEF Untouched, NoPick
    <3> QED BY <3>3, <3>4
  <2> QED BY <2>1, <2>2
<1>6. ASSUME NEW r \in Sessions PROVE ScanTrue(r)' /\ ReleaseTrue(r)'
  <2>1. CASE r = s
    BY <2>1, <1>3 DEF ScanTrue, ReleaseTrue, Idle
  <2>2. CASE r # s
    <3>1. req'[r] = req[r] /\ ScanTrue(r) /\ ReleaseTrue(r)
      BY <2>2, <1>3
    <3>2. \A p \in Picks : pick'[p].left = pick[p].left
      BY <1>2
    <3>3. ScanTrue(r)'
      BY <3>1, <3>2, <1>3, <1>5 DEF ScanTrue
    <3>4. ReleaseTrue(r)'
      BY <3>1, <3>2, <1>3, <1>5 DEF ReleaseTrue
    <3> QED BY <3>3, <3>4
  <2> QED BY <2>1, <2>2
<1>7. req' = [r \in Sessions |-> req'[r]]
  BY <1>3
<1> QED BY <1>4, <1>5, <1>6, <1>7

LEMMA ScansStep == ScansInv /\ [Next]_vars => ScansInv'
<1> SUFFICES ASSUME ScansInv, [Next]_vars PROVE ScansInv'
  OBVIOUS
<1>1. ASSUME Scans PROVE ScansInv'
  <2>0. desk = "scans" /\ desk' = desk
    BY <1>1 DEF Scans
  <2>1. ASSUME NEW p \in Picks, ConfirmShipment(p) PROVE ScansInv'
    <3> USE DEF ConfirmShipment
    <3>1. pick[p] # NoPick /\ pick'[p].doc = "completed" /\ pick'[p].left = pick[p].left
      BY <2>1 DEF NoPick, ScansInv, PicksTyped
    <3>2. PicksTyped'
      BY <2>1, ZenonT(40) DEF ScansInv, PicksTyped, TaskStatus, OpenTask
    <3>3. \A r \in Picks \ {p} : pick'[r] = pick[r]
      BY <2>1 DEF ScansInv, PicksTyped
    <3>4. byHand' = byHand \cup {p} /\ UNCHANGED <<req, accepted, overlapped, reread>>
      BY <2>1
    <3> HIDE DEF ConfirmShipment
    <3> QED BY <2>0, <3>1, <3>2, <3>3, <3>4, ManagedKeepsScans
  <2>2. ASSUME NEW p \in Picks, NEW status \in TaskStatus, UpdateTask(p, status) PROVE ScansInv'
    <3> USE DEF UpdateTask
    <3>1. pick[p] # NoPick /\ pick'[p].doc = pick[p].doc /\ pick'[p].left = pick[p].left
      BY <2>2 DEF ScansInv, PicksTyped
    <3>2. pick[p].doc # "none"
      BY <3>1 DEF ScansInv, Untouched, CodesCounted
    <3>3. PicksTyped'
      BY <2>2 DEF ScansInv, PicksTyped
    <3>4. \A r \in Picks \ {p} : pick'[r] = pick[r]
      BY <2>2 DEF ScansInv, PicksTyped
    <3>5. byHand' = byHand \cup {p} /\ UNCHANGED <<req, accepted, overlapped, reread>>
      BY <2>2
    <3> HIDE DEF UpdateTask
    <3> QED BY <2>0, <3>1, <3>2, <3>3, <3>4, <3>5, ManagedKeepsScans
  <2>3. ASSUME NEW s \in Sessions, ScanRefused(s) \/ ReleaseRollback(s) PROVE ScansInv'
    <3>1. UNCHANGED scanVars /\ req' = [req EXCEPT ![s] = Idle]
      BY <2>3 DEF ScanRefused, ReleaseRollback, Ends, Becomes
    <3>2. PicksTyped' /\ \A p \in Picks : Untouched(p)' \/ CodesCounted(p)'
      BY <3>1 DEF ScansInv, PicksTyped, Untouched, CodesCounted, scanVars
    <3>3. req' = [r \in Sessions |-> req'[r]] /\ \A r \in Sessions \ {s} : req'[r] = req[r]
      BY <2>0, <3>1 DEF ScansInv
    <3>4. req'[s].pc = "idle"
      BY <2>0, <3>1 DEF ScansInv, Idle
    <3>5. ASSUME NEW r \in Sessions PROVE ScanTrue(r)' /\ ReleaseTrue(r)'
      <4>1. CASE r = s
        BY <3>4, <4>1 DEF ScanTrue, ReleaseTrue
      <4>2. CASE r # s
        BY <2>0, <3>1, <3>3, <4>2 DEF ScansInv, ScanTrue, ReleaseTrue, Untouched, scanVars
      <4> QED BY <4>1, <4>2
    <3> QED BY <3>2, <3>3, <3>5 DEF ScansInv
  <2>4. ASSUME NEW s \in Sessions, Scan(s) \/ Release(s) PROVE ScansInv'
    BY <2>4, <2>0, <2>3, ScanReadKeepsScans, ScanCommitKeepsScans, ReleaseReadKeepsScans,
       ReleaseCommitKeepsScans DEF Scan, Release
  <2> QED BY <1>1, <2>0, <2>1, <2>2, <2>4, CreatedKeepsScans DEF Scans, ManagePicks
<1>2. ASSUME Connectors \/ Logins \/ Codes \/ Displays PROVE ScansInv'
  <2>1. UNCHANGED scanVars /\ desk' = desk /\ desk # "scans"
    BY <1>2 DEF Connectors, Logins, Codes, Displays
  <2> QED BY <2>1 DEF ScansInv, PicksTyped, Untouched, CodesCounted, scanVars
<1>3. ASSUME UNCHANGED vars PROVE ScansInv'
  BY <1>3 DEF vars, ScansInv, PicksTyped, Untouched, CodesCounted, ScanTrue, ReleaseTrue, scanVars
<1> QED BY <1>1, <1>2, <1>3 DEF Next

(* No scan of a pick is counted twice or forgotten, and the task is not    *)
(* complete before every code was accepted, for any number of scans and    *)
(* releases at once: scan_validate reads the task without a lock and       *)
(* writes the whole list of codes back, release_bookings cancels what it   *)
(* read as open.                                                           *)
THEOREM PicksAreScanned == Spec => []DoneMeansScanned
<1>1. ScansInv => DoneMeansScanned
  <2> SUFFICES ASSUME ScansInv, NEW p \in Picks
               PROVE  LET all == PlannedCodes[p] \subseteq accepted[p]
                          done == pick[p].task = "completed" IN
                      /\ pick[p] # NoPick /\ p \notin overlapped
                           => pick[p].left = PlannedCodes[p] \ accepted[p]
                      /\ p \notin byHand => (done => all)
                      /\ p \notin byHand \cup overlapped \cup reread /\ PlannedCodes[p] # {}
                           => (all => done)
    BY DEF DoneMeansScanned
  <2>1. CASE Untouched(p)
    BY <2>1 DEF Untouched, NoPick
  <2>2. CASE CodesCounted(p)
    BY <2>2 DEF CodesCounted
  <2> QED BY <2>1, <2>2 DEF ScansInv
<1> QED BY <1>1, ScansStart, ScansStep, PTL DEF Spec

-----------------------------------------------------------------------------
(* Connector settings: the types of what a request holds. *)

Row ==
    [there : BOOLEAN, active : BOOLEAN,
     settings : [policy : Policies \cup {NoPolicy}, cooldown : Nat, mark : Nat],
     credentials : [key : Nat, host : Hosts \cup {NoHost}]]

Refreshing(q) == q.pc \in {"refresh", "refreshed"}

Small(q) ==
    /\ q.pc \in {"upsert", "disable", "policy", "test", "pull", "refresh", "refreshed"}
    /\ q = [pc |-> q.pc, type |-> q.type, copy |-> q.copy, more |-> q.more]
    /\ q.pc = "upsert" => q.more \in [key : Nat, host : Hosts \cup {NoHost}]
    /\ q.pc = "policy" => q.more \in Policies

(* A request that has fetched something. *)
Large(q) ==
    /\ q.pc \in {"fetched", "stored"}
    /\ q = [pc |-> q.pc, type |-> q.type, copy |-> q.copy, more |-> q.more,
            items |-> q.items, stale |-> q.stale, on |-> q.on]
    /\ q.items \subseteq Items
    /\ q.stale \subseteq q.items
    /\ q.on \in Nat

Request(q) ==
    /\ Small(q) \/ Large(q)
    /\ q.type \in Types
    /\ q.copy \in Row
    /\ q.pc # "upsert" => q.copy.there
    /\ q.pc \in {"policy", "pull", "fetched", "stored"} => q.type = Smartup
    /\ Refreshing(q) => q.type = AslBelgisi

Rows(rows) == rows \in [Types -> Row] /\ \A t \in Types : rows[t].active => rows[t].there

SettingsTypes ==
    /\ Rows(config)
    /\ day \in Nat
    /\ registry \in Nat
    /\ changed \in [Items -> Nat]
    /\ current \subseteq Items
    /\ late \subseteq Items
    /\ keyLost \in BOOLEAN
    /\ desk # "connectors" => \A t \in Types : ~config[t].there
    /\ desk = "connectors" =>
         /\ req = [s \in Sessions |-> req[s]]
         /\ \A s \in Sessions : req[s] = Idle \/ Request(req[s])

-----------------------------------------------------------------------------
(* What holds of the copies *)

Busy == {s \in Sessions : desk = "connectors" /\ req[s] # Idle}

(* A copy that no other request made out of date is the row.               *)
CopiesCurrent == \A s \in Busy \ overtaken : req[s].copy = config[req[s].type]

(* One key refresh at a time, and the new key it is about to store is the  *)
(* registry's, and another than the one of its copy.                       *)
KeysKnown ==
    /\ \A s, r \in Busy : Refreshing(req[s]) /\ Refreshing(req[r]) => s = r
    /\ \A s \in Busy : req[s].pc = "refreshed" =>
         req[s].more = registry /\ req[s].copy.credentials.key # registry

(* No change is missed if the next fetch is from the day m on. *)
Brings(m) == m <= day /\ \A i \in Items \ (current \cup late) : changed[i] >= m

(* So it is with the watermark of a copy, and, once its items are stored,  *)
(* with the day a fetch was made on; what changed meanwhile did later.     *)
Misses(q) == IF q.pc = "fetched" THEN q.items ELSE {}

Knows(q) ==
    /\ Brings(q.copy.settings.mark)
    /\ q.pc \in {"fetched", "stored"} =>
         /\ q.on <= day
         /\ \A i \in q.stale : changed[i] >= q.on
         /\ q.pc = "stored" \/ ~SnapshotOnly(Head(q.more.flows)) =>
              \A i \in Items \ (current \cup late \cup Misses(q)) : changed[i] >= q.on

NothingMissed ==
    /\ \A i \in Items : changed[i] <= day
    /\ \A t \in Types : Brings(config[t].settings.mark)
    /\ \A s \in Busy : Knows(req[s])

SettingsInv == SettingsTypes /\ CopiesCurrent /\ KeysKnown /\ KeyIsValid /\ NothingMissed

LEMMA SettingsStart == Init => SettingsInv
<1> SUFFICES ASSUME Init PROVE SettingsInv
  OBVIOUS
<1> USE DEF Init, SettingsInit, NoRequests, NoConfig, NoSettings, Never
<1>1. SettingsTypes
  BY DEF SettingsTypes, Rows, Row
<1>2. Busy = {}
  BY DEF Busy
<1>3. NothingMissed
  BY <1>2 DEF NothingMissed, Brings
<1>4. KeyIsValid
  BY DEF KeyIsValid, Types
<1> QED BY <1>1, <1>2, <1>3, <1>4 DEF SettingsInv, CopiesCurrent, KeysKnown

-----------------------------------------------------------------------------
(* Steps of one request *)

LEMMA BusyOnRow ==
    ASSUME SettingsInv, NEW s \in Busy
    PROVE  s \in Sessions /\ Request(req[s]) /\ OnRow(s)
<1>1. s \in Sessions /\ Request(req[s])
  BY DEF Busy, SettingsInv, SettingsTypes
<1>2. CASE Small(req[s])
  <2>1. "copy" \in DOMAIN [pc |-> req[s].pc, type |-> req[s].type, copy |-> req[s].copy, more |-> req[s].more]
    OBVIOUS
  <2> QED BY <1>1, <1>2, <2>1 DEF Small, OnRow
<1>3. CASE Large(req[s])
  <2>1. "copy" \in DOMAIN [pc |-> req[s].pc, type |-> req[s].type, copy |-> req[s].copy,
                          more |-> req[s].more, items |-> req[s].items, stale |-> req[s].stale,
                          on |-> req[s].on]
    OBVIOUS
  <2> QED BY <1>1, <1>3, <2>1 DEF Large, OnRow
<1> QED BY <1>1, <1>2, <1>3 DEF Request

(* A step that makes q of the request of s, on what it needs to show.      *)
LEMMA RequestStores ==
    ASSUME SettingsInv, desk = "connectors", desk' = desk,
           NEW s \in Sessions, NEW q, q = Idle \/ Request(q),
           req' = [req EXCEPT ![s] = q],
           UNCHANGED <<day, changed>>, current' \subseteq Items, late' \subseteq Items,
           \A i \in Items \ (current' \cup late') : i \in current \cup late => changed[i] >= day,
           registry' \in Nat, keyLost' \in BOOLEAN, Rows(config'),
           (\A t \in Types : Brings(config[t].settings.mark))',
           \A r \in Busy \ {s} : r \notin overtaken' =>
             r \notin overtaken /\ config'[req[r].type] = config[req[r].type],
           q # Idle /\ s \notin overtaken' => q.copy = config'[q.type],
           Refreshing(q) => \A r \in Busy \ {s} : ~Refreshing(req[r]),
           q.pc = "refreshed" => q.more = registry' /\ q.copy.credentials.key # registry',
           \A r \in Busy \ {s} : req[r].pc = "refreshed" => registry' = registry,
           KeyIsValid',
           q # Idle => Knows(q)'
    PROVE  SettingsInv'
<1> USE DEF SettingsInv
<1>0. req' = [r \in Sessions |-> req'[r]] /\ req'[s] = q
      /\ \A r \in Sessions \ {s} : req'[r] = req[r]
  BY DEF SettingsTypes
<1>1. SettingsTypes'
  BY <1>0 DEF SettingsTypes
<1>2. Busy' \ {s} = Busy \ {s} /\ (s \in Busy' => q # Idle)
  BY <1>0 DEF Busy
<1>3. CopiesCurrent'
  <2> SUFFICES ASSUME NEW r \in Busy', r \notin overtaken'
               PROVE  req'[r].copy = config'[req'[r].type]
    BY DEF CopiesCurrent
  <2>1. r \in Sessions
    BY DEF Busy
  <2>2. CASE r = s
    BY <2>2, <1>0, <1>2
  <2>3. CASE r # s
    BY <2>1, <2>3, <1>0, <1>2 DEF CopiesCurrent
  <2> QED BY <2>2, <2>3
<1>4. KeysKnown'
  <2>1. ASSUME NEW r \in Busy', NEW u \in Busy', Refreshing(req'[r]), Refreshing(req'[u])
        PROVE  r = u
    <3>1. r \in Sessions /\ u \in Sessions
      BY DEF Busy
    <3> QED BY <2>1, <3>1, <1>0, <1>2 DEF KeysKnown
  <2>2. ASSUME NEW r \in Busy', req'[r].pc = "refreshed"
        PROVE  req'[r].more = registry' /\ req'[r].copy.credentials.key # registry'
    <3>1. r \in Sessions
      BY DEF Busy
    <3>2. CASE r = s
      BY <2>2, <3>2, <1>0
    <3>3. CASE r # s
      <4>1. r \in Busy /\ req[r].pc = "refreshed" /\ req'[r] = req[r]
        BY <3>1, <3>3, <2>2, <1>0, <1>2
      <4> QED BY <4>1, <3>3 DEF KeysKnown
    <3> QED BY <3>2, <3>3
  <2> QED BY <2>1, <2>2 DEF KeysKnown
<1>5. NothingMissed'
  <2>1. \A i \in Items : changed'[i] <= day'
    BY DEF NothingMissed
  <2>2. ASSUME NEW r \in Busy' PROVE Knows(req[r])'
    <3>1. r \in Sessions
      BY DEF Busy
    <3>2. CASE r = s
      BY <3>2, <1>0, <1>2, <2>2
    <3>3. CASE r # s
      <4>0. PICK x : x = req[r]
        OBVIOUS
      <4>1. req'[r] = x /\ Knows(x)
        BY <4>0, <3>1, <3>3, <1>0, <1>2, <2>2 DEF NothingMissed
      <4>2. day \in Nat /\ \A i \in Items : changed[i] \in Nat
        BY DEF SettingsTypes
      <4>3. Request(x)
        BY <4>0, <3>1, <3>3, <1>2, <2>2, BusyOnRow
      <4>4. x.copy.settings.mark \in Nat /\ (x.pc \in {"fetched", "stored"} => x.on \in Nat)
        BY <4>3 DEF Request, Small, Large, Row
      <4>5. Brings(x.copy.settings.mark)'
        BY <4>1, <4>2, <4>4 DEF Knows, Brings
      <4>6. Knows(x)'
        BY <4>1, <4>2, <4>4, <4>5 DEF Knows, Misses
      <4> QED BY <4>1, <4>6
    <3> QED BY <3>2, <3>3
  <2> QED BY <2>1, <2>2 DEF NothingMissed
<1> QED BY <1>1, <1>3, <1>4, <1>5

(* The same for a step that stores no items. *)
LEMMA RequestKeeps ==
    ASSUME SettingsInv, desk = "connectors", desk' = desk,
           NEW s \in Sessions, NEW q, q = Idle \/ Request(q),
           req' = [req EXCEPT ![s] = q],
           UNCHANGED <<day, changed, current>>, late \subseteq late', late' \subseteq Items,
           registry' \in Nat, keyLost' \in BOOLEAN, Rows(config'),
           (\A t \in Types : Brings(config[t].settings.mark))',
           \A r \in Busy \ {s} : r \notin overtaken' =>
             r \notin overtaken /\ config'[req[r].type] = config[req[r].type],
           q # Idle /\ s \notin overtaken' => q.copy = config'[q.type],
           Refreshing(q) => \A r \in Busy \ {s} : ~Refreshing(req[r]),
           q.pc = "refreshed" => q.more = registry' /\ q.copy.credentials.key # registry',
           \A r \in Busy \ {s} : req[r].pc = "refreshed" => registry' = registry,
           KeyIsValid',
           q # Idle => Knows(q)'
    PROVE  SettingsInv'
<1>1. current' \subseteq Items
  BY DEF SettingsInv, SettingsTypes
<1> QED BY <1>1, RequestStores

LEMMA LoadKeeps ==
    ASSUME SettingsInv, desk = "connectors", desk' = desk,
           NEW s \in Sessions, NEW t \in Types, NEW more,
           NEW pc \in {"upsert", "disable", "policy", "test", "pull", "refresh"},
           Load(s, pc, t, more),
           pc = "upsert" => more \in [key : Nat, host : Hosts \cup {NoHost}],
           pc = "policy" => more \in Policies,
           pc # "upsert" => config[t].there,
           pc \in {"policy", "pull"} => t = Smartup,
           pc = "refresh" => t = AslBelgisi /\ \A r \in Sessions : ~Refreshing(req[r])
    PROVE  SettingsInv'
<1>0. PICK q : q = [pc |-> pc, type |-> t, copy |-> config[t], more |-> more]
  OBVIOUS
<1>1. /\ req' = [req EXCEPT ![s] = q] /\ req[s] = Idle
      /\ UNCHANGED tables /\ overtaken' = overtaken \ {s}
  BY <1>0 DEF Load, Arrives, Becomes
<1>2. UNCHANGED <<config, day, registry, changed, current, late, keyLost>>
  BY <1>1 DEF tables
<1>3. Request(q)
  <2>1. config[t] \in Row
    BY DEF SettingsInv, SettingsTypes, Rows
  <2>2. Small(q)
    BY <1>0 DEF Small
  <2> QED BY <1>0, <2>1, <2>2 DEF Request, Refreshing
<1>4. q.pc = pc /\ q.type = t /\ q.copy = config[t] /\ q.more = more
  BY <1>0
<1>5. (\A u \in Types : Brings(config[u].settings.mark))'
  BY <1>2 DEF SettingsInv, NothingMissed, Brings
<1>6. KeyIsValid'
  <2>1. \A r \in Sessions : req[r].pc = "refreshed" => req'[r].pc = "refreshed"
    BY <1>1 DEF Idle, SettingsInv, SettingsTypes
  <2> QED BY <1>2, <2>1 DEF SettingsInv, KeyIsValid
<1>7. Knows(q)'
  BY <1>2, <1>4, <1>5 DEF Knows
<1>8. Refreshing(q) => \A r \in Busy \ {s} : ~Refreshing(req[r])
  BY <1>4 DEF Refreshing, Busy
<1>9. \A r \in Busy \ {s} : r \notin overtaken' =>
        r \notin overtaken /\ config'[req[r].type] = config[req[r].type]
  BY <1>1, <1>2
<1>10. late' \subseteq Items /\ registry' \in Nat /\ keyLost' \in BOOLEAN /\ Rows(config')
  BY <1>2 DEF SettingsInv, SettingsTypes
<1> QED BY <1>1, <1>2, <1>3, <1>4, <1>5, <1>6, <1>7, <1>8, <1>9, <1>10, RequestKeeps

-----------------------------------------------------------------------------
(* Writing a row back *)

(* What a request writes: of a copy that is not out of date all that it    *)
(* was given, else the columns that differ from the copy's.                *)
Wrote(s, new, row) ==
    LET q == req[s]
        old == config[q.type] IN
    /\ row.there
    /\ row.settings \in {old.settings, new.settings}
    /\ row.credentials = IF q.copy.there /\ new.credentials = q.copy.credentials
                           THEN old.credentials ELSE new.credentials
    /\ s \notin overtaken =>
         row.active = new.active /\ row.settings = new.settings /\ row.credentials = new.credentials
    /\ q.copy.there = old.there
    /\ config' = [config EXCEPT ![q.type] = row]
    /\ Rows(config')
    /\ \A r \in Busy \ {s} : r \notin overtaken' =>
         r \notin overtaken /\ config'[req[r].type] = config[req[r].type]
    /\ s \in overtaken' <=> s \in overtaken

LEMMA SaveWrites ==
    ASSUME SettingsInv, desk = "connectors", NEW s \in Busy, NEW new \in Row, NEW dated,
           SaveRun(s, new, dated)
    PROVE  \E row \in Row : Wrote(s, new, row)
<1> DEFINE q == req[s]
           old == config[q.type]
           row == IF q.copy.there THEN Assigned(old, q.copy, new, dated) ELSE [new EXCEPT !.there = TRUE]
<1>1. q.type \in Types /\ q.copy \in Row /\ old \in Row
  BY BusyOnRow DEF Request, SettingsInv, SettingsTypes, Rows
<1>2. row \in Row /\ row.there
  BY <1>1 DEF Row, Assigned
<1>3. row.settings \in {old.settings, new.settings}
  BY <1>1 DEF Row, Assigned
<1>4. row.credentials = IF q.copy.there /\ new.credentials = q.copy.credentials
                          THEN old.credentials ELSE new.credentials
  BY <1>1 DEF Row, Assigned
<1>5. s \notin overtaken =>
        row.active = new.active /\ row.settings = new.settings /\ row.credentials = new.credentials
  <2>1. s \notin overtaken => q.copy = old
    BY DEF SettingsInv, CopiesCurrent
  <2>2. s \notin overtaken /\ ~q.copy.there => row.there = TRUE /\ row.active = new.active
          /\ row.settings = new.settings /\ row.credentials = new.credentials
    BY DEF Row
  <2>3. s \notin overtaken /\ q.copy.there => row.active = new.active
          /\ row.settings = new.settings /\ row.credentials = new.credentials
    BY <2>1 DEF Assigned
  <2> QED BY <2>1, <2>2, <2>3
<1>6. q.copy.there = old.there /\ config' = [config EXCEPT ![q.type] = row]
      /\ overtaken' = IF row = old /\ ~dated THEN overtaken
                      ELSE overtaken \cup {r \in Sessions \ {s} : OnRow(r) /\ req[r].type = q.type}
  BY DEF SaveRun
<1> HIDE DEF row
<1>7. Rows(config')
  BY <1>1, <1>2, <1>6 DEF SettingsInv, SettingsTypes, Rows
<1>8. ASSUME NEW r \in Busy \ {s}, r \notin overtaken'
      PROVE  r \notin overtaken /\ config'[req[r].type] = config[req[r].type]
  <2>1. r \in Sessions /\ OnRow(r) /\ req[r].type \in Types
    BY BusyOnRow DEF Request
  <2> QED BY <1>6, <1>8, <2>1 DEF SettingsInv, SettingsTypes, Rows
<1>9. s \in overtaken' <=> s \in overtaken
  BY <1>6
<1> QED BY <1>2, <1>3, <1>4, <1>5, <1>6, <1>7, <1>8, <1>9 DEF Wrote

(* The same of a write whose run is not dated. *)
LEMMA PlainSaveWrites ==
    ASSUME SettingsInv, desk = "connectors", NEW s \in Busy, NEW new \in Row, Save(s, new)
    PROVE  \E row \in Row : Wrote(s, new, row)
<1>1. SaveRun(s, new, FALSE)
  BY DEF Save
<1> QED BY <1>1, SaveWrites

(* The stored key stays valid when a request that leaves it alone writes.  *)
LEMMA KeyLeftAlone ==
    ASSUME SettingsInv, desk = "connectors", NEW s \in Busy, NEW new \in Row, NEW row,
           Wrote(s, new, row), UNCHANGED <<registry, keyLost>>,
           req[s].type = Smartup \/ (req[s].copy.there /\ new.credentials = req[s].copy.credentials),
           \A r \in Sessions : req[r].pc = "refreshed" => req'[r].pc = "refreshed"
    PROVE  KeyIsValid'
<1>1. req[s].type \in Types
  BY BusyOnRow DEF Request
<1>2. /\ config'[AslBelgisi].there => config[AslBelgisi].there
      /\ config'[AslBelgisi].credentials = config[AslBelgisi].credentials
  BY <1>1, SettingsAssumption DEF SettingsAssumption, Wrote, Types, SettingsInv, SettingsTypes, Rows
<1> QED BY <1>2 DEF KeyIsValid, SettingsInv

(* A request that writes and ends. *)
LEMMA SaveKeeps ==
    ASSUME SettingsInv, desk = "connectors", desk' = desk, NEW s \in Busy, NEW new \in Row,
           Save(s, new), Ends(s), UNCHANGED <<day, registry, changed, current, late>>,
           new.settings.mark \in {Never, req[s].copy.settings.mark},
           keyLost' \in BOOLEAN, KeyIsValid'
    PROVE  SettingsInv'
<1>1. PICK row \in Row : Wrote(s, new, row)
  BY PlainSaveWrites
<1>2. req' = [req EXCEPT ![s] = Idle] /\ s \in Sessions
  BY BusyOnRow DEF Ends, Becomes
<1>3. /\ config' = [config EXCEPT ![req[s].type] = row]
      /\ row.settings \in {config[req[s].type].settings, new.settings}
      /\ Rows(config')
      /\ \A r \in Busy \ {s} : r \notin overtaken' =>
           r \notin overtaken /\ config'[req[r].type] = config[req[r].type]
  BY <1>1 DEF Wrote
<1>4. Brings(row.settings.mark)
  <2>1. Brings(config[req[s].type].settings.mark) /\ Brings(req[s].copy.settings.mark)
    BY BusyOnRow DEF SettingsInv, NothingMissed, Knows, Request
  <2>2. Brings(Never)
    BY DEF Brings, Never, SettingsInv, SettingsTypes
  <2> QED BY <1>3, <2>1, <2>2
<1>5. (\A t \in Types : Brings(config[t].settings.mark))'
  BY <1>3, <1>4 DEF Brings, SettingsInv, NothingMissed, SettingsTypes, Rows
<1>6. late' \subseteq Items /\ registry' \in Nat
  BY DEF SettingsInv, SettingsTypes
<1>7. Idle.pc = "idle"
  BY DEF Idle
<1> QED BY <1>2, <1>3, <1>5, <1>6, <1>7, RequestKeeps DEF Refreshing

-----------------------------------------------------------------------------
(* The actions *)

(* The requests that an administrator makes, and what they write.          *)

LEMMA RowChanged ==
    ASSUME NEW row \in Row
    PROVE  /\ \A active \in BOOLEAN :
                /\ [row EXCEPT !.active = active] \in Row
                /\ [row EXCEPT !.active = active].settings = row.settings
                /\ [row EXCEPT !.active = active].credentials = row.credentials
           /\ \A policy \in Policies :
                /\ [row EXCEPT !.settings.policy = policy] \in Row
                /\ [row EXCEPT !.settings.policy = policy].settings = [row.settings EXCEPT !.policy = policy]
                /\ [row EXCEPT !.settings.policy = policy].credentials = row.credentials
           /\ \A until \in Nat :
                /\ [row EXCEPT !.settings.cooldown = until] \in Row
                /\ [row EXCEPT !.settings.cooldown = until].settings =
                     [row.settings EXCEPT !.cooldown = until]
                /\ [row EXCEPT !.settings.cooldown = until].credentials = row.credentials
           /\ \A m \in Nat :
                /\ [row EXCEPT !.settings.mark = m] \in Row
                /\ [row EXCEPT !.settings.mark = m].settings = [row.settings EXCEPT !.mark = m]
                /\ [row EXCEPT !.settings.mark = m].credentials = row.credentials
           /\ \A key \in Nat :
                /\ [row EXCEPT !.credentials.key = key] \in Row
                /\ [row EXCEPT !.credentials.key = key].settings = row.settings
                /\ [row EXCEPT !.credentials.key = key].credentials = [row.credentials EXCEPT !.key = key]
BY DEF Row

(* A write that ends a request of the row and leaves key and watermark.    *)
LEMMA AdministersKeeps ==
    ASSUME SettingsInv, desk = "connectors", desk' = desk, NEW s \in Busy, NEW new \in Row,
           req[s].pc \in {"disable", "policy", "test"},
           Save(s, new), Ends(s), UNCHANGED <<day, registry, changed, current, late, keyLost>>,
           new.settings.mark = req[s].copy.settings.mark,
           new.credentials = req[s].copy.credentials
    PROVE  SettingsInv'
<1>1. PICK row \in Row : Wrote(s, new, row)
  BY PlainSaveWrites
<1>2. req[s].copy.there
  BY BusyOnRow DEF Request
<1>3. \A r \in Sessions : req[r].pc = "refreshed" => req'[r].pc = "refreshed"
  BY DEF Ends, Becomes, SettingsInv, SettingsTypes
<1>4. KeyIsValid'
  BY <1>1, <1>2, <1>3, KeyLeftAlone
<1>5. keyLost' \in BOOLEAN
  BY DEF SettingsInv, SettingsTypes
<1> QED BY <1>4, <1>5, SaveKeeps

LEMMA PolicySaveKeeps ==
    ASSUME SettingsInv, desk = "connectors", desk' = desk, NEW s \in Sessions, PolicySave(s)
    PROVE  SettingsInv'
<1>1. s \in Busy /\ req[s].pc = "policy" /\ req[s].more \in Policies /\ req[s].copy \in Row
  BY DEF PolicySave, Busy, SettingsInv, SettingsTypes, Request, Small, Large, Idle
<1>2. PICK new : new = [req[s].copy EXCEPT !.settings.policy = req[s].more]
  OBVIOUS
<1>3. new \in Row /\ new.settings = [req[s].copy.settings EXCEPT !.policy = req[s].more]
      /\ new.credentials = req[s].copy.credentials
  BY <1>1, <1>2, RowChanged
<1>4. new.settings.mark = req[s].copy.settings.mark
  BY <1>1, <1>3 DEF Row
<1> QED BY <1>1, <1>2, <1>3, <1>4, AdministersKeeps DEF PolicySave, UnchangedRemote

LEMMA DisableSaveKeeps ==
    ASSUME SettingsInv, desk = "connectors", desk' = desk, NEW s \in Sessions, DisableSave(s)
    PROVE  SettingsInv'
<1>1. s \in Busy /\ req[s].pc = "disable" /\ req[s].copy \in Row
  BY DEF DisableSave, Busy, SettingsInv, SettingsTypes, Request, Idle
<1>2. PICK new : new = [req[s].copy EXCEPT !.active = FALSE]
  OBVIOUS
<1>3. new \in Row /\ new.settings = req[s].copy.settings /\ new.credentials = req[s].copy.credentials
  BY <1>1, <1>2, RowChanged
<1> QED BY <1>1, <1>2, <1>3, AdministersKeeps DEF DisableSave, UnchangedRemote

LEMMA TestKeeps ==
    ASSUME SettingsInv, desk = "connectors", desk' = desk, NEW s \in Sessions,
           TestLimited(s) \/ TestPasses(s)
    PROVE  SettingsInv'
<1>1. s \in Busy /\ req[s].pc = "test" /\ req[s].copy \in Row
  BY DEF TestLimited, TestPasses, Busy, SettingsInv, SettingsTypes, Request, Idle
<1>2. PICK until \in Nat : Save(s, WithCooldown(req[s].copy, until))
  BY DEF TestLimited, TestPasses, Never, SettingsInv, SettingsTypes
<1>3. PICK new : new = [req[s].copy EXCEPT !.settings.cooldown = until]
  OBVIOUS
<1>4. new \in Row /\ new.settings = [req[s].copy.settings EXCEPT !.cooldown = until]
      /\ new.credentials = req[s].copy.credentials
  BY <1>1, <1>3, RowChanged
<1>5. new.settings.mark = req[s].copy.settings.mark
  BY <1>1, <1>4 DEF Row
<1>6. Save(s, new) /\ Ends(s) /\ UNCHANGED <<day, registry, changed, current, late, keyLost>>
  BY <1>2, <1>3 DEF TestLimited, TestPasses, UnchangedRemote, WithCooldown
<1> QED BY <1>1, <1>4, <1>5, <1>6, AdministersKeeps

LEMMA UpsertSaveKeeps ==
    ASSUME SettingsInv, desk = "connectors", desk' = desk, NEW s \in Sessions, UpsertSave(s)
    PROVE  SettingsInv'
<1>1. s \in Busy /\ req[s].pc = "upsert" /\ req[s].more \in [key : Nat, host : Hosts \cup {NoHost}]
      /\ req[s].type \in Types
  BY DEF UpsertSave, Busy, SettingsInv, SettingsTypes, Request, Small, Large, Idle
<1>2. PICK new : new = [there |-> TRUE, active |-> TRUE, credentials |-> req[s].more, settings |-> NoSettings]
  OBVIOUS
<1>3. new \in Row /\ new.settings.mark = Never
  BY <1>1, <1>2 DEF Row, NoSettings, Never
<1>4. Save(s, new) /\ Ends(s) /\ UNCHANGED <<day, registry, changed, current, late>>
      /\ keyLost' = IF req[s].type # AslBelgisi THEN keyLost
                    ELSE config'[AslBelgisi].credentials.key # registry
  BY <1>2 DEF UpsertSave, UnchangedRemote
<1>5. keyLost' \in BOOLEAN
  BY <1>4 DEF SettingsInv, SettingsTypes
<1>6. KeyIsValid'
  <2>1. CASE req[s].type = AslBelgisi
    BY <2>1, <1>4 DEF KeyIsValid
  <2>2. CASE req[s].type # AslBelgisi
    <3>1. PICK row \in Row : Wrote(s, new, row)
      BY <1>1, <1>3, <1>4, PlainSaveWrites
    <3>2. \A r \in Sessions : req[r].pc = "refreshed" => req'[r].pc = "refreshed"
      BY <1>1, <1>4 DEF Ends, Becomes, SettingsInv, SettingsTypes
    <3> QED BY <1>1, <1>3, <1>4, <2>2, <3>1, <3>2, KeyLeftAlone DEF Types
  <2> QED BY <2>1, <2>2
<1> QED BY <1>1, <1>3, <1>4, <1>5, <1>6, SaveKeeps

LEMMA RefreshSaveKeeps ==
    ASSUME SettingsInv, desk = "connectors", desk' = desk, NEW s \in Sessions, RefreshSave(s)
    PROVE  SettingsInv'
<1>1. s \in Busy /\ req[s].pc = "refreshed" /\ req[s].copy \in Row /\ req[s].copy.there
      /\ req[s].type = AslBelgisi
  BY DEF RefreshSave, Busy, SettingsInv, SettingsTypes, Request, Refreshing, Idle
<1>2. req[s].more = registry /\ req[s].copy.credentials.key # registry /\ registry \in Nat
  BY <1>1 DEF SettingsInv, KeysKnown, SettingsTypes
<1>3. PICK new : new = [req[s].copy EXCEPT !.credentials.key = registry]
  OBVIOUS
<1>4. new \in Row /\ new.settings = req[s].copy.settings
      /\ new.credentials = [req[s].copy.credentials EXCEPT !.key = registry]
  BY <1>1, <1>2, <1>3, RowChanged
<1>5. new.credentials.key = registry
  BY <1>1, <1>4 DEF Row
<1>6. Save(s, new) /\ Ends(s) /\ keyLost' = FALSE /\ UNCHANGED <<day, registry, changed, current, late>>
  BY <1>2, <1>3 DEF RefreshSave, Renewed, UnchangedRemote
<1>7. PICK row \in Row : Wrote(s, new, row)
  BY <1>1, <1>4, <1>6, PlainSaveWrites
<1>8. config'[AslBelgisi].credentials.key = registry
  <2>1. row.credentials = new.credentials
    BY <1>2, <1>5, <1>7 DEF Wrote
  <2>2. config'[AslBelgisi] = row
    BY <1>1, <1>7 DEF Wrote, SettingsInv, SettingsTypes, Rows, Types
  <2> QED BY <2>1, <2>2, <1>5
<1>9. KeyIsValid'
  BY <1>6, <1>8 DEF KeyIsValid
<1> QED BY <1>1, <1>4, <1>6, <1>9, SaveKeeps

LEMMA SameRow ==
    ASSUME NEW x \in Row, NEW y \in Row, x.there = y.there, x.active = y.active,
           x.settings = y.settings, x.credentials = y.credentials
    PROVE  x = y
<1>1. x = [there |-> x.there, active |-> x.active, settings |-> x.settings, credentials |-> x.credentials]
  BY DEF Row
<1>2. y = [there |-> y.there, active |-> y.active, settings |-> y.settings, credentials |-> y.credentials]
  BY DEF Row
<1> QED BY <1>1, <1>2

LEMMA FetchKeeps ==
    ASSUME SettingsInv, desk = "connectors", desk' = desk, NEW s \in Sessions, Fetch(s)
    PROVE  SettingsInv'
<1>1. s \in Busy /\ req[s].pc = "pull" /\ Request(req[s]) /\ Knows(req[s])
  BY DEF Fetch, Busy, SettingsInv, SettingsTypes, NothingMissed, Idle
<1>2. PICK q : q = [pc |-> "fetched", type |-> req[s].type, copy |-> req[s].copy, more |-> req[s].more,
                    items |-> Fetched(req[s]), stale |-> {}, on |-> day]
  OBVIOUS
<1>3. /\ q.pc = "fetched" /\ q.type = req[s].type /\ q.copy = req[s].copy /\ q.more = req[s].more
      /\ q.items = Fetched(req[s]) /\ q.stale = {} /\ q.on = day
  BY <1>2
<1>4. req' = [req EXCEPT ![s] = q] /\ UNCHANGED settingsVars
  BY <1>2 DEF Fetch, Becomes
<1>5. UNCHANGED <<config, day, registry, changed, current, late, keyLost, overtaken>>
  BY <1>4 DEF settingsVars, tables
<1>6. Request(q)
  <2>1. Fetched(req[s]) \subseteq Items /\ day \in Nat
    BY DEF Fetched, SettingsInv, SettingsTypes
  <2>2. Large(q)
    BY <1>2, <1>3, <2>1 DEF Large
  <2> QED BY <1>1, <1>3, <2>2 DEF Request, Refreshing
<1>7. Knows(q)
  <2>1. Brings(q.copy.settings.mark)
    BY <1>1, <1>3 DEF Knows
  <2>2. ASSUME ~SnapshotOnly(Head(q.more.flows)), NEW i \in Items \ (current \cup late \cup q.items)
        PROVE  FALSE
    BY <2>1, <2>2, <1>3 DEF Fetched, Brings
  <2> QED BY <1>3, <2>1, <2>2 DEF Knows, Misses, SettingsInv, SettingsTypes
<1>8. Knows(q)'
  BY <1>5, <1>7 DEF Knows, Brings, Misses
<1>9. (\A t \in Types : Brings(config[t].settings.mark))'
  BY <1>5 DEF SettingsInv, NothingMissed, Brings
<1>10. KeyIsValid'
  <2>1. \A r \in Sessions : req[r].pc = "refreshed" => req'[r].pc = "refreshed"
    BY <1>1, <1>4 DEF SettingsInv, SettingsTypes
  <2> QED BY <1>5, <2>1 DEF SettingsInv, KeyIsValid
<1>11. late' \subseteq Items /\ registry' \in Nat /\ keyLost' \in BOOLEAN /\ Rows(config')
  BY <1>5 DEF SettingsInv, SettingsTypes
<1>12. s \notin overtaken' => q.copy = config'[q.type]
  BY <1>1, <1>3, <1>5 DEF SettingsInv, CopiesCurrent
<1> QED BY <1>3, <1>4, <1>5, <1>6, <1>8, <1>9, <1>10, <1>11, <1>12, RequestKeeps DEF Refreshing

LEMMA RefreshCallKeeps ==
    ASSUME SettingsInv, desk = "connectors", desk' = desk, NEW s \in Sessions, RefreshCall(s)
    PROVE  SettingsInv'
<1>1. s \in Busy /\ req[s].pc = "refresh" /\ Request(req[s]) /\ Knows(req[s]) /\ Small(req[s])
  BY DEF RefreshCall, Busy, SettingsInv, SettingsTypes, NothingMissed, Idle, Request, Large
<1>2. PICK q : q = [pc |-> "refreshed", type |-> req[s].type, copy |-> req[s].copy, more |-> registry + 1]
  OBVIOUS
<1>3. q.pc = "refreshed" /\ q.type = req[s].type /\ q.copy = req[s].copy /\ q.more = registry + 1
  BY <1>2
<1>4. /\ req' = [req EXCEPT ![s] = q]
      /\ UNCHANGED <<config, day, changed, current, late, keyLost, overtaken>>
      /\ registry' = registry + 1 /\ registry \in Nat
      /\ req[s].copy.credentials.key = registry
  <2>1. [req[s] EXCEPT !.pc = "refreshed", !.more = registry + 1] = q
    <3> DEFINE x == [req[s] EXCEPT !.pc = "refreshed", !.more = registry + 1]
    <3>1. req[s] \in [pc : {"refresh"}, type : Types, copy : Row, more : {req[s].more}]
      BY <1>1 DEF Small, Request
    <3>2. x \in [pc : {"refreshed"}, type : Types, copy : Row, more : {registry + 1}]
          /\ x.type = req[s].type /\ x.copy = req[s].copy
      BY <3>1
    <3> HIDE DEF x
    <3>3. x = [pc |-> x.pc, type |-> x.type, copy |-> x.copy, more |-> x.more]
      BY <3>2
    <3> QED BY <1>2, <3>2, <3>3 DEF x
  <2> QED BY <2>1 DEF RefreshCall, Goes, Becomes, SettingsInv, SettingsTypes
<1>5. Request(q)
  <2>1. Small(q)
    BY <1>2, <1>3 DEF Small
  <2> QED BY <1>1, <1>3, <2>1 DEF Request, Refreshing
<1>6. Knows(q)'
  BY <1>1, <1>3, <1>4 DEF Knows, Brings
<1>7. (\A t \in Types : Brings(config[t].settings.mark))'
  BY <1>4 DEF SettingsInv, NothingMissed, Brings
<1>8. req'[s].pc = "refreshed"
  BY <1>3, <1>4 DEF SettingsInv, SettingsTypes
<1>9. KeyIsValid'
  BY <1>8 DEF KeyIsValid
<1>10. late' \subseteq Items /\ registry' \in Nat /\ keyLost' \in BOOLEAN /\ Rows(config')
  BY <1>4 DEF SettingsInv, SettingsTypes
<1>11. s \notin overtaken' => q.copy = config'[q.type]
  BY <1>1, <1>3, <1>4 DEF SettingsInv, CopiesCurrent
<1>12. \A r \in Busy \ {s} : ~Refreshing(req[r])
  BY <1>1 DEF Refreshing, SettingsInv, KeysKnown
<1>13. q.more = registry' /\ q.copy.credentials.key # registry'
  BY <1>3, <1>4
<1> QED BY <1>3, <1>4, <1>5, <1>6, <1>7, <1>9, <1>10, <1>11, <1>12, <1>13, RequestKeeps DEF Refreshing

LEMMA RollbackKeeps ==
    ASSUME SettingsInv, desk = "connectors", desk' = desk, NEW s \in Sessions, SettingsRollback(s)
    PROVE  SettingsInv'
<1>1. /\ req' = [req EXCEPT ![s] = Idle]
      /\ UNCHANGED <<config, day, registry, changed, current, late, overtaken>>
      /\ keyLost' = (keyLost \/ req[s].pc = "refreshed")
  BY DEF SettingsRollback, Ends, Becomes, UnchangedRemote
<1>2. keyLost' \in BOOLEAN /\ late' \subseteq Items /\ registry' \in Nat /\ Rows(config')
  BY <1>1 DEF SettingsInv, SettingsTypes
<1>3. (\A t \in Types : Brings(config[t].settings.mark))'
  BY <1>1 DEF SettingsInv, NothingMissed, Brings
<1>4. KeyIsValid'
  <2>1. \A r \in Sessions \ {s} : req'[r] = req[r]
    BY <1>1 DEF SettingsInv, SettingsTypes
  <2> QED BY <1>1, <2>1 DEF SettingsInv, KeyIsValid
<1>5. Idle.pc = "idle"
  BY DEF Idle
<1> QED BY <1>1, <1>2, <1>3, <1>4, <1>5, RequestKeeps DEF Refreshing

(* After a flow the request is done, or pulls again with the row it wrote. *)
GoesOn(s, row) ==
    \E q : /\ req' = [req EXCEPT ![s] = q]
           /\ q = Idle \/ (Request(q) /\ q.pc = "pull" /\ q.type = Smartup /\ q.copy = row)

LEMMA NextFlowPulls ==
    ASSUME NEW s \in Sessions, NEW row \in Row, row.there, NextFlow(s, row)
    PROVE  GoesOn(s, row)
<1> USE DEF GoesOn
<1>1. CASE Len(req[s].more.flows) = 1
  BY <1>1 DEF NextFlow, Ends, Becomes
<1>2. CASE Len(req[s].more.flows) # 1
  <2> DEFINE more == [req[s].more EXCEPT !.flows = Tail(@), !.open = FALSE]
  <2>1. PICK q : q = [pc |-> "pull", type |-> Smartup, copy |-> row, more |-> more]
    OBVIOUS
  <2>2. req' = [req EXCEPT ![s] = q]
    BY <1>2, <2>1 DEF NextFlow, Becomes
  <2> HIDE DEF more
  <2>3. q.pc = "pull" /\ q.type = Smartup /\ q.copy = row /\ q.more = more
    BY <2>1
  <2>4. Small(q)
    BY <2>1, <2>3 DEF Small
  <2> QED BY <2>2, <2>3, <2>4 DEF Request, Refreshing, Types
<1> QED BY <1>1, <1>2

LEMMA FlowFailsKeeps ==
    ASSUME SettingsInv, desk = "connectors", desk' = desk, NEW s \in Sessions, FlowFails(s)
    PROVE  SettingsInv'
<1>1. s \in Busy /\ req[s].pc = "pull" /\ Request(req[s]) /\ Knows(req[s]) /\ req[s].copy \in Row
      /\ req[s].copy.there /\ req[s].type = Smartup
  BY DEF FlowFails, Busy, SettingsInv, SettingsTypes, NothingMissed, Idle, Request
<1>2. UNCHANGED <<config, day, registry, changed, current, late, keyLost, overtaken>>
      /\ NextFlow(s, req[s].copy)
  BY DEF FlowFails, KeptAsItWas, UnchangedRemote
<1>0. PICK row : row = req[s].copy
  OBVIOUS
<1>3. PICK q : /\ req' = [req EXCEPT ![s] = q]
               /\ q = Idle \/ (Request(q) /\ q.pc = "pull" /\ q.type = Smartup /\ q.copy = row)
  <2>1. row \in Row /\ row.there /\ NextFlow(s, row)
    BY <1>0, <1>1, <1>2
  <2>2. GoesOn(s, row)
    BY <2>1, NextFlowPulls
  <2> QED BY <2>2 DEF GoesOn
<1>4. q.pc \in {"idle", "pull"}
  BY <1>3 DEF Idle
<1>5. q # Idle => Knows(q)'
  BY <1>0, <1>1, <1>2, <1>3 DEF Knows, Brings
<1>6. (\A t \in Types : Brings(config[t].settings.mark))'
  BY <1>2 DEF SettingsInv, NothingMissed, Brings
<1>7. KeyIsValid'
  <2>1. \A r \in Sessions : req[r].pc = "refreshed" => req'[r].pc = "refreshed"
    BY <1>1, <1>3 DEF SettingsInv, SettingsTypes
  <2> QED BY <1>2, <2>1 DEF SettingsInv, KeyIsValid
<1>8. late' \subseteq Items /\ registry' \in Nat /\ keyLost' \in BOOLEAN /\ Rows(config')
  BY <1>2 DEF SettingsInv, SettingsTypes
<1>9. q # Idle /\ s \notin overtaken' => q.copy = config'[q.type]
  BY <1>0, <1>1, <1>2, <1>3 DEF SettingsInv, CopiesCurrent
<1> QED BY <1>2, <1>3, <1>4, <1>5, <1>6, <1>7, <1>8, <1>9, RequestKeeps DEF Refreshing

(* The stamped copy: the watermark is today's, or all is as it was.        *)
LEMMA StampedRow ==
    ASSUME SettingsInv, NEW row \in Row, NEW flow
    PROVE  /\ Stamped(row, flow) \in Row
           /\ Stamped(row, flow).there = row.there
           /\ Stamped(row, flow).credentials = row.credentials
           /\ SnapshotOnly(flow) => Stamped(row, flow) = row
           /\ ~SnapshotOnly(flow) => Stamped(row, flow).settings = [row.settings EXCEPT !.mark = day]
<1>1. day \in Nat
  BY DEF SettingsInv, SettingsTypes
<1>2. CASE SnapshotOnly(flow)
  BY <1>2 DEF Stamped
<1>3. CASE ~SnapshotOnly(flow)
  <2>1. Stamped(row, flow) = [row EXCEPT !.settings.mark = day]
    BY <1>3 DEF Stamped
  <2>2. [row EXCEPT !.settings.mark = day].there = row.there
    BY DEF Row
  <2> QED BY <1>1, <1>3, <2>1, <2>2, RowChanged
<1> QED BY <1>2, <1>3

LEMMA StampKeeps ==
    ASSUME SettingsInv, desk = "connectors", desk' = desk, NEW s \in Sessions, Stamp(s)
    PROVE  SettingsInv'
<1> DEFINE flow == Head(req[s].more.flows)
<1>1. /\ s \in Busy /\ req[s].pc \in {"stored", "fetched"} /\ Knows(req[s])
      /\ req[s].copy \in Row /\ req[s].copy.there /\ req[s].type = Smartup
      /\ Large(req[s]) /\ day \in Nat
  BY DEF Stamp, Busy, SettingsInv, SettingsTypes, NothingMissed, Idle, Request, Small
<1>2. req[s].pc = "stored" \/ SnapshotOnly(flow)
  BY DEF Stamp
<1>3. PICK new : new = Stamped(req[s].copy, flow)
  OBVIOUS
<1>4. /\ new \in Row /\ new.there /\ new.credentials = req[s].copy.credentials
      /\ SnapshotOnly(flow) => new = req[s].copy
      /\ ~SnapshotOnly(flow) => new.settings.mark = day
  <2>1. ~SnapshotOnly(flow) => new.settings = [req[s].copy.settings EXCEPT !.mark = day]
    BY <1>1, <1>3, StampedRow
  <2>2. ~SnapshotOnly(flow) => new.settings.mark = day
    BY <1>1, <2>1 DEF Row
  <2> QED BY <1>1, <1>3, <2>2, StampedRow
<1>5. /\ SaveRun(s, new, req[s].more.dated) /\ NextFlow(s, new)
      /\ UNCHANGED <<day, registry, changed, current, keyLost>>
      /\ late' = IF ~SnapshotOnly(flow) /\ req[s].on < day
                  THEN late \cup {i \in Items \ current : changed[i] < day} ELSE late
  BY <1>3 DEF Stamp, UnchangedRemote
<1>6. PICK q : /\ req' = [req EXCEPT ![s] = q]
               /\ q = Idle \/ (Request(q) /\ q.pc = "pull" /\ q.type = Smartup /\ q.copy = new)
  <2>1. new \in Row /\ new.there /\ NextFlow(s, new)
    BY <1>4, <1>5
  <2>2. GoesOn(s, new)
    BY <2>1, NextFlowPulls
  <2> QED BY <2>2 DEF GoesOn
<1>7. PICK row \in Row : Wrote(s, new, row)
  BY <1>1, <1>4, <1>5, SaveWrites
<1> HIDE DEF flow
<1>8. late \subseteq late' /\ late' \subseteq Items
  BY <1>5 DEF SettingsInv, SettingsTypes
<1>9. Brings(new.settings.mark)'
  <2>1. CASE SnapshotOnly(flow)
    BY <2>1, <1>1, <1>4, <1>5 DEF Knows, Brings
  <2>2. CASE ~SnapshotOnly(flow)
    <3>1. \A i \in Items \ (current \cup late) : changed[i] >= req[s].on
      BY <1>1, <1>2, <2>2 DEF Knows, Misses
    <3>2. req[s].on \in Nat /\ req[s].on <= day /\ \A i \in Items : changed[i] \in Nat
      BY <1>1 DEF Knows, Large, SettingsInv, SettingsTypes
    <3>3. \A i \in Items \ (current' \cup late') : changed[i] >= day
      BY <2>2, <3>1, <3>2, <1>1, <1>5
    <3> QED BY <2>2, <3>3, <1>1, <1>4, <1>5 DEF Brings
  <2> QED BY <2>1, <2>2
<1>10. q # Idle => Knows(q)'
  BY <1>6, <1>9 DEF Knows
<1>11. (\A t \in Types : Brings(config[t].settings.mark))'
  <2> SUFFICES ASSUME NEW t \in Types PROVE Brings(config[t].settings.mark)'
    OBVIOUS
  <2>1. PICK m : m = config[t].settings.mark
    OBVIOUS
  <2>2. Brings(m)'
    BY <2>1, <1>5, <1>8 DEF SettingsInv, NothingMissed, Brings
  <2>3. PICK n : n = config[Smartup].settings.mark
    OBVIOUS
  <2>4. Brings(n)'
    BY <2>3, <1>5, <1>8 DEF SettingsInv, NothingMissed, Brings, Types
  <2>5. config'[t].settings.mark \in {m, n, new.settings.mark}
    BY <2>1, <2>3, <1>1, <1>7 DEF Wrote, SettingsInv, SettingsTypes, Rows
  <2> QED BY <2>2, <2>4, <2>5, <1>9
<1>12. q.pc \in {"idle", "pull"}
  BY <1>6 DEF Idle
<1>13. KeyIsValid'
  <2>1. \A r \in Sessions : req[r].pc = "refreshed" => req'[r].pc = "refreshed"
    BY <1>1, <1>6 DEF SettingsInv, SettingsTypes
  <2> QED BY <1>1, <1>4, <1>5, <1>7, <2>1, KeyLeftAlone
<1>14. q # Idle /\ s \notin overtaken' => q.copy = config'[q.type]
  <2>1. s \notin overtaken' => row = new
    BY <1>4, <1>7, SameRow DEF Wrote
  <2>2. config'[Smartup] = row
    BY <1>1, <1>7 DEF Wrote, SettingsInv, SettingsTypes, Rows, Types
  <2> QED BY <1>6, <2>1, <2>2
<1>15. /\ Rows(config') /\ registry' \in Nat /\ keyLost' \in BOOLEAN
       /\ \A r \in Busy \ {s} : r \notin overtaken' =>
            r \notin overtaken /\ config'[req[r].type] = config[req[r].type]
  BY <1>5, <1>7 DEF Wrote, SettingsInv, SettingsTypes
<1> QED BY <1>5, <1>6, <1>8, <1>10, <1>11, <1>12, <1>13, <1>14, <1>15, RequestKeeps DEF Refreshing

LEMMA StoreProductsKeeps ==
    ASSUME SettingsInv, desk = "connectors", desk' = desk, NEW s \in Sessions, StoreProducts(s)
    PROVE  SettingsInv'
<1>1. /\ s \in Busy /\ req[s].pc = "fetched" /\ Knows(req[s]) /\ Request(req[s]) /\ Large(req[s])
      /\ ~SnapshotOnly(Head(req[s].more.flows)) /\ req[s].type = Smartup
  BY DEF StoreProducts, Busy, SettingsInv, SettingsTypes, NothingMissed, Idle, Request, Small
<1>2. PICK old : old = req[s]
  OBVIOUS
<1>3. PICK more : more = [old.more EXCEPT !.open = FALSE]
  OBVIOUS
<1>4. PICK q : q = [pc |-> "stored", type |-> old.type, copy |-> old.copy, more |-> more,
                    items |-> old.items, stale |-> old.stale, on |-> old.on]
  OBVIOUS
<1>5. q.pc = "stored" /\ q.type = old.type /\ q.copy = old.copy /\ q.more = more
      /\ q.items = old.items /\ q.stale = old.stale /\ q.on = old.on
  BY <1>4
<1>6. old.items \subseteq Items /\ old.stale \subseteq old.items /\ old.on \in Nat /\ day \in Nat
      /\ \A i \in Items : changed[i] \in Nat
  BY <1>1, <1>2 DEF Large, SettingsInv, SettingsTypes
<1>7. /\ req' = [req EXCEPT ![s] = q]
      /\ UNCHANGED <<config, day, registry, changed, overtaken, keyLost>>
      /\ current' = (current \cup old.items) \ old.stale
      /\ late' = IF old.on < day THEN (late \ old.items) \cup old.stale ELSE late \ old.items
  <2> DEFINE x == [old EXCEPT !.pc = "stored", !.more = more]
  <2>1. old \in [pc : {"fetched"}, type : Types, copy : Row, more : {old.more},
                 items : SUBSET Items, stale : SUBSET Items, on : Nat]
    BY <1>1, <1>2, <1>6 DEF Large, Request
  <2>0. x \in [pc : {"stored"}, type : Types, copy : Row, more : {more},
               items : SUBSET Items, stale : SUBSET Items, on : Nat]
    BY <2>1
  <2>3. /\ x.pc = "stored" /\ x.type = old.type /\ x.copy = old.copy /\ x.more = more
        /\ x.items = old.items /\ x.stale = old.stale /\ x.on = old.on
    BY <2>1
  <2> HIDE DEF x
  <2>2. x = [pc |-> x.pc, type |-> x.type, copy |-> x.copy, more |-> x.more,
             items |-> x.items, stale |-> x.stale, on |-> x.on]
    BY <2>0
  <2>4. x = q
    BY <1>4, <2>2, <2>3
  <2>5. [old EXCEPT !.pc = "stored", !.more.open = FALSE] = q
    BY <1>3, <2>4 DEF x
  <2> QED BY <1>2, <2>5 DEF StoreProducts, Becomes, UnchangedRemote
<1>8. Request(q)
  <2>1. Large(q)
    BY <1>4, <1>5, <1>6 DEF Large
  <2> QED BY <1>1, <1>2, <1>5, <2>1 DEF Request, Refreshing
<1>9. \A i \in Items \ (current' \cup late') : i \in current \cup late => changed[i] >= day
  <2> SUFFICES ASSUME NEW i \in Items \ (current' \cup late'), i \in current \cup late
               PROVE  changed[i] >= day
    OBVIOUS
  <2>1. i \in old.stale /\ ~(old.on < day)
    BY <1>7
  <2> QED BY <1>1, <1>2, <1>6, <2>1 DEF Knows
<1>10. \A m \in Nat : Brings(m) => Brings(m)'
  <2> SUFFICES ASSUME NEW m \in Nat, Brings(m), NEW i \in Items \ (current' \cup late')
               PROVE  changed[i] >= m
    BY <1>7 DEF Brings
  <2> QED BY <1>6, <1>9 DEF Brings
<1>11. (\A t \in Types : Brings(config[t].settings.mark))'
  <2> SUFFICES ASSUME NEW t \in Types PROVE Brings(config[t].settings.mark)'
    OBVIOUS
  <2>1. PICK m : m = config[t].settings.mark
    OBVIOUS
  <2>2. m \in Nat /\ Brings(m)
    BY <2>1 DEF SettingsInv, SettingsTypes, NothingMissed, Rows, Row
  <2> QED BY <1>7, <1>10, <2>1, <2>2
<1>12. Knows(q)'
  <2>1. q.copy.settings.mark \in Nat /\ Brings(q.copy.settings.mark)
    BY <1>1, <1>2, <1>5 DEF Request, Row, Knows
  <2>2. Brings(q.copy.settings.mark)'
    BY <1>10, <2>1
  <2>3. q.on <= day' /\ \A i \in q.stale : changed'[i] >= q.on
    BY <1>1, <1>2, <1>5, <1>7 DEF Knows
  <2>4. ASSUME NEW i \in Items \ (current' \cup late') PROVE changed'[i] >= q.on
    <3>1. CASE i \in current \cup late
      BY <1>5, <1>6, <1>7, <1>9, <2>3, <3>1
    <3>2. CASE i \in old.items
      BY <1>5, <1>7, <2>3, <3>2
    <3>3. CASE i \notin current \cup late \cup old.items
      BY <1>1, <1>2, <1>5, <1>7, <3>3 DEF Knows, Misses
    <3> QED BY <3>1, <3>2, <3>3
  <2> QED BY <2>2, <2>3, <2>4 DEF Knows, Misses
<1>13. KeyIsValid'
  <2>1. \A r \in Sessions : req[r].pc = "refreshed" => req'[r].pc = "refreshed"
    BY <1>1, <1>7 DEF SettingsInv, SettingsTypes
  <2> QED BY <1>7, <2>1 DEF SettingsInv, KeyIsValid
<1>14. current' \subseteq Items /\ late' \subseteq Items /\ registry' \in Nat /\ keyLost' \in BOOLEAN
       /\ Rows(config')
  BY <1>6, <1>7 DEF SettingsInv, SettingsTypes
<1>15. s \notin overtaken' => q.copy = config'[q.type]
  BY <1>1, <1>2, <1>5, <1>7 DEF SettingsInv, CopiesCurrent
<1> QED BY <1>5, <1>7, <1>8, <1>9, <1>11, <1>12, <1>13, <1>14, <1>15, RequestStores DEF Refreshing

(* What Smartup's changes do to the requests under way. *)
LEMMA ItemTold ==
    ASSUME SettingsInv, desk = "connectors", NEW i \in Items, ItemChanges(i), NEW s \in Sessions
    PROVE  \/ req[s] = Idle /\ req'[s] = Idle
           \/ /\ Request(req[s]) /\ Request(req'[s])
              /\ req[s] # Idle /\ req'[s] # Idle /\ req'[s].pc = req[s].pc /\ req'[s].type = req[s].type
              /\ req'[s].copy = req[s].copy /\ req'[s].more = req[s].more
              /\ req'[s].pc \in {"fetched", "stored"} =>
                   /\ req'[s].items = req[s].items /\ req'[s].on = req[s].on
                   /\ req'[s].stale \subseteq req[s].stale \cup {i}
<1>1. PICK old : old = req[s]
  OBVIOUS
<1>2. req'[s] = IF "items" \in DOMAIN old /\ i \in old.items
                  THEN [old EXCEPT !.stale = @ \cup {i}] ELSE old
  BY <1>1 DEF ItemChanges
<1>3. CASE old = Idle
  <2>1. "items" \notin DOMAIN old
    BY <1>3 DEF Idle
  <2> QED BY <1>1, <1>2, <1>3, <2>1
<1>4. CASE old # Idle
  <2>1. Request(old)
    BY <1>1, <1>4 DEF SettingsInv, SettingsTypes
  <2>2. CASE Small(old)
    <3>1. "items" \notin DOMAIN [pc |-> old.pc, type |-> old.type, copy |-> old.copy, more |-> old.more]
      OBVIOUS
    <3>2. req'[s] = old
      BY <1>2, <2>2, <3>1 DEF Small
    <3> QED BY <1>1, <1>4, <2>1, <2>2, <3>2 DEF Small
  <2>3. CASE Large(old)
    <3> DEFINE x == [old EXCEPT !.stale = @ \cup {i}]
    <3>1. old \in [pc : {old.pc}, type : Types, copy : Row, more : {old.more},
                   items : SUBSET Items, stale : SUBSET Items, on : Nat]
      BY <2>1, <2>3 DEF Large, Request
    <3>2. x = [pc |-> x.pc, type |-> x.type, copy |-> x.copy, more |-> x.more,
               items |-> x.items, stale |-> x.stale, on |-> x.on]
      BY <3>1
    <3>3. /\ x.pc = old.pc /\ x.type = old.type /\ x.copy = old.copy /\ x.more = old.more
          /\ x.items = old.items /\ x.on = old.on /\ x.stale = old.stale \cup {i}
      BY <3>1
    <3> HIDE DEF x
    <3>4. CASE i \in old.items
      <4>1. "items" \in DOMAIN [pc |-> old.pc, type |-> old.type, copy |-> old.copy, more |-> old.more,
                                items |-> old.items, stale |-> old.stale, on |-> old.on]
        OBVIOUS
      <4>2. req'[s] = x
        BY <1>2, <2>3, <3>4, <4>1 DEF Large, x
      <4>3. Large(x)
        BY <2>3, <3>2, <3>3, <3>4 DEF Large
      <4>4. Request(x)
        BY <2>1, <3>3, <4>3 DEF Request, Refreshing
      <4>5. x # Idle
        BY <2>3, <3>3 DEF Large, Idle
      <4> QED BY <1>1, <1>4, <2>1, <3>3, <4>2, <4>4, <4>5
    <3>5. CASE i \notin old.items
      BY <1>1, <1>2, <1>4, <2>1, <3>5
    <3> QED BY <3>4, <3>5
  <2> QED BY <2>1, <2>2, <2>3 DEF Request
<1> QED BY <1>3, <1>4

LEMMA ItemChangesKeeps ==
    ASSUME SettingsInv, desk = "connectors", desk' = desk, NEW i \in Items, ItemChanges(i)
    PROVE  SettingsInv'
<1>1. /\ changed' = [changed EXCEPT ![i] = day] /\ current' = current \ {i}
      /\ req' = [s \in Sessions |-> req'[s]]
      /\ UNCHANGED <<config, day, registry, overtaken, late, keyLost>>
  BY DEF ItemChanges
<1>2. day \in Nat /\ \A j \in Items : changed[j] \in Nat
  BY DEF SettingsInv, SettingsTypes
<1>3. SettingsTypes'
  <2>1. \A s \in Sessions : req'[s] = Idle \/ Request(req'[s])
    BY ItemTold
  <2>2. changed' \in [Items -> Nat] /\ current' \subseteq Items
    BY <1>1 DEF SettingsInv, SettingsTypes
  <2> QED BY <1>1, <2>1, <2>2 DEF SettingsInv, SettingsTypes
<1>4. Busy' = Busy
  BY <1>1, ItemTold DEF Busy
<1>5. \A s \in Busy : /\ Request(req[s]) /\ Request(req'[s])
                      /\ req'[s].pc = req[s].pc /\ req'[s].type = req[s].type
                      /\ req'[s].copy = req[s].copy /\ req'[s].more = req[s].more
                      /\ req'[s].pc \in {"fetched", "stored"} =>
                           /\ req'[s].items = req[s].items /\ req'[s].on = req[s].on
                           /\ req'[s].stale \subseteq req[s].stale \cup {i}
  BY ItemTold DEF Busy
<1>6. CopiesCurrent'
  BY <1>1, <1>4, <1>5 DEF SettingsInv, CopiesCurrent
<1>7. KeysKnown'
  BY <1>1, <1>4, <1>5 DEF SettingsInv, KeysKnown, Refreshing
<1>8. KeyIsValid'
  <2>1. \A s \in Sessions : req[s].pc = "refreshed" => req'[s].pc = "refreshed"
    BY ItemTold
  <2> QED BY <1>1, <2>1 DEF SettingsInv, KeyIsValid
<1>9. \A m \in Nat : Brings(m) => Brings(m)'
  BY <1>1, <1>2 DEF Brings, SettingsInv, SettingsTypes
<1>10. NothingMissed'
  <2>1. \A j \in Items : changed'[j] <= day'
    BY <1>1, <1>2 DEF SettingsInv, NothingMissed, SettingsTypes
  <2>2. ASSUME NEW t \in Types PROVE Brings(config[t].settings.mark)'
    <3>1. PICK m : m = config[t].settings.mark
      OBVIOUS
    <3>2. m \in Nat /\ Brings(m)
      BY <3>1 DEF SettingsInv, SettingsTypes, NothingMissed, Rows, Row
    <3> QED BY <1>1, <1>9, <3>1, <3>2
  <2>3. ASSUME NEW s \in Busy PROVE Knows(req[s])'
    <3>1. PICK old : old = req[s]
      OBVIOUS
    <3>2. PICK q : q = req'[s]
      OBVIOUS
    <3>3. Request(old) /\ Knows(old)
      BY <1>5, <3>1 DEF SettingsInv, NothingMissed
    <3>4. q.copy.settings.mark \in Nat /\ Brings(q.copy.settings.mark)
      BY <1>5, <3>1, <3>2, <3>3 DEF Request, Row, Knows
    <3>5. Brings(q.copy.settings.mark)'
      BY <1>9, <3>4
    <3>6. ASSUME q.pc \in {"fetched", "stored"}
          PROVE  /\ q.on <= day'
                 /\ \A j \in q.stale : changed'[j] >= q.on
                 /\ q.pc = "stored" \/ ~SnapshotOnly(Head(q.more.flows)) =>
                      \A j \in Items \ (current' \cup late' \cup Misses(q)) : changed'[j] >= q.on
      <4>1. /\ old.pc = q.pc /\ old.on = q.on /\ old.items = q.items /\ old.more = q.more
            /\ q.stale \subseteq old.stale \cup {i}
        BY <1>5, <3>1, <3>2, <3>6
      <4>2. q.on \in Nat /\ q.on <= day /\ old.stale \subseteq Items
        BY <3>3, <3>6, <4>1 DEF Request, Small, Large, Knows
      <4>3. \A j \in q.stale : changed'[j] >= q.on
        <5> SUFFICES ASSUME NEW j \in q.stale PROVE changed'[j] >= q.on
          OBVIOUS
        <5>1. CASE j = i
          BY <1>1, <1>2, <4>2, <5>1 DEF SettingsInv, SettingsTypes
        <5>2. CASE j # i
          BY <1>1, <1>2, <3>3, <3>6, <4>1, <4>2, <5>2 DEF Knows, SettingsInv, SettingsTypes
        <5> QED BY <5>1, <5>2
      <4>4. Misses(q) = Misses(old)
        BY <4>1 DEF Misses
      <4>5. ASSUME q.pc = "stored" \/ ~SnapshotOnly(Head(q.more.flows)),
                   NEW j \in Items \ (current' \cup late' \cup Misses(q))
            PROVE  changed'[j] >= q.on
        <5>1. CASE j = i
          BY <1>1, <1>2, <4>2, <5>1 DEF SettingsInv, SettingsTypes
        <5>2. CASE j # i
          <6>1. j \in Items \ (current \cup late \cup Misses(old))
            BY <1>1, <4>4, <4>5, <5>2
          <6>2. changed[j] >= old.on
            BY <3>3, <3>6, <4>1, <4>5, <6>1 DEF Knows
          <6> QED BY <1>1, <4>1, <5>2, <6>2 DEF SettingsInv, SettingsTypes
        <5> QED BY <5>1, <5>2
      <4> QED BY <1>1, <4>2, <4>3, <4>5
    <3>7. Knows(q)'
      BY <3>5, <3>6 DEF Knows, Misses
    <3> QED BY <3>2, <3>7
  <2> QED BY <1>4, <2>1, <2>2, <2>3 DEF NothingMissed
<1> QED BY <1>3, <1>6, <1>7, <1>8, <1>10 DEF SettingsInv

LEMMA MidnightKeeps ==
    ASSUME SettingsInv, desk = "connectors", desk' = desk, Midnight
    PROVE  SettingsInv'
<1>1. day' = day + 1 /\ UNCHANGED <<config, registry, changed, current, overtaken, late, keyLost, req>>
  BY DEF Midnight
<1>2. day \in Nat /\ \A i \in Items : changed[i] \in Nat
  BY DEF SettingsInv, SettingsTypes
<1>3. SettingsTypes'
  BY <1>1 DEF SettingsInv, SettingsTypes
<1>4. Busy' = Busy
  BY <1>1 DEF Busy
<1>5. CopiesCurrent' /\ KeysKnown' /\ KeyIsValid'
  BY <1>1, <1>4 DEF SettingsInv, CopiesCurrent, KeysKnown, KeyIsValid
<1>6. \A m \in Nat : Brings(m) => Brings(m)'
  BY <1>1, <1>2 DEF Brings
<1>7. NothingMissed'
  <2>1. \A i \in Items : changed'[i] <= day'
    BY <1>1, <1>2 DEF SettingsInv, NothingMissed
  <2>2. ASSUME NEW t \in Types PROVE Brings(config[t].settings.mark)'
    <3>1. PICK m : m = config[t].settings.mark
      OBVIOUS
    <3>2. m \in Nat /\ Brings(m)
      BY <3>1 DEF SettingsInv, SettingsTypes, NothingMissed, Rows, Row
    <3> QED BY <1>1, <1>6, <3>1, <3>2
  <2>3. ASSUME NEW s \in Busy PROVE Knows(req[s])'
    <3>1. PICK q : q = req[s]
      OBVIOUS
    <3>2. Request(q) /\ Knows(q)
      BY <3>1, BusyOnRow DEF SettingsInv, NothingMissed
    <3>3. q.copy.settings.mark \in Nat /\ Brings(q.copy.settings.mark)'
      BY <1>6, <3>2 DEF Request, Row, Knows
    <3>4. q.pc \in {"fetched", "stored"} => q.on \in Nat
      BY <3>2 DEF Request, Small, Large
    <3>5. Knows(q)'
      BY <1>1, <1>2, <3>2, <3>3, <3>4 DEF Knows, Misses
    <3> QED BY <1>1, <3>1, <3>5
  <2> QED BY <1>4, <2>1, <2>2, <2>3 DEF NothingMissed
<1> QED BY <1>3, <1>5, <1>7 DEF SettingsInv

LEMMA ReadsKeep ==
    ASSUME SettingsInv, desk = "connectors", desk' = desk, NEW s \in Sessions,
           \/ \E t \in Types :
                (\E host \in Hosts : UpsertRead(s, t, host)) \/ DisableRead(s, t) \/ TestRead(s, t)
           \/ \E policy \in Policies : PolicyRead(s, policy)
           \/ \E full \in BOOLEAN : SyncRead(s, full)
           \/ \E flows \in Flows : PullRead(s, flows)
           \/ \E due \in DueFlows : TickRead(s, due)
           \/ RefreshRead(s)
    PROVE  SettingsInv'
<1>1. registry \in Nat /\ \A t \in Types : config[t].active => config[t].there
  BY DEF SettingsInv, SettingsTypes, Rows
<1>2. Smartup \in Types /\ AslBelgisi \in Types
  BY DEF Types
<1>3. ASSUME NEW t \in Types, NEW host \in Hosts, UpsertRead(s, t, host) PROVE SettingsInv'
  <2>1. PICK more : more = [key |-> registry, host |-> host]
    OBVIOUS
  <2>2. more \in [key : Nat, host : Hosts \cup {NoHost}] /\ Load(s, "upsert", t, more)
    BY <1>1, <1>3, <2>1 DEF UpsertRead
  <2> QED BY <2>2, LoadKeeps
<1>4. ASSUME NEW t \in Types, DisableRead(s, t) PROVE SettingsInv'
  BY <1>4, LoadKeeps DEF DisableRead
<1>5. ASSUME NEW t \in Types, TestRead(s, t) PROVE SettingsInv'
  BY <1>1, <1>5, LoadKeeps DEF TestRead, LoadActive
<1>6. ASSUME NEW policy \in Policies, PolicyRead(s, policy) PROVE SettingsInv'
  BY <1>2, <1>6, LoadKeeps DEF PolicyRead
<1>7. ASSUME NEW more, LoadActive(s, "pull", Smartup, more) PROVE SettingsInv'
  BY <1>1, <1>2, <1>7, LoadKeeps DEF LoadActive
<1>8. CASE RefreshRead(s)
  BY <1>1, <1>2, <1>8, LoadKeeps DEF RefreshRead, LoadActive, Refreshing
<1> QED BY <1>3, <1>4, <1>5, <1>6, <1>7, <1>8 DEF SyncRead, PullRead, TickRead

LEMMA OtherDesks ==
    ASSUME SettingsInv, desk # "connectors", desk' = desk, UNCHANGED settingsVars
    PROVE  SettingsInv'
<1>1. UNCHANGED <<config, day, registry, changed, current, late, keyLost>>
  BY DEF settingsVars, tables
<1>2. SettingsTypes'
  BY <1>1 DEF SettingsInv, SettingsTypes
<1>3. Busy' = {}
  BY DEF Busy
<1>4. KeyIsValid'
  BY <1>2 DEF SettingsTypes, KeyIsValid, Types
<1>5. NothingMissed'
  BY <1>1, <1>3 DEF SettingsInv, NothingMissed, Brings
<1> QED BY <1>2, <1>3, <1>4, <1>5 DEF SettingsInv, CopiesCurrent, KeysKnown

LEMMA NothingHappens == ASSUME SettingsInv, UNCHANGED vars PROVE SettingsInv'
<1>1. UNCHANGED <<config, day, registry, changed, current, late, keyLost, overtaken, req, desk>>
  BY DEF vars, settingsVars, tables
<1>2. Busy' = Busy
  BY <1>1 DEF Busy
<1>3. ASSUME NEW s \in Busy PROVE Knows(req[s])'
  <2>1. PICK q : q = req[s]
    OBVIOUS
  <2>2. Knows(q)'
    BY <1>1, <2>1 DEF SettingsInv, NothingMissed, Knows, Brings, Misses
  <2> QED BY <1>1, <2>1, <2>2
<1>4. (\A t \in Types : Brings(config[t].settings.mark))'
  BY <1>1 DEF SettingsInv, NothingMissed, Brings
<1> QED BY <1>1, <1>2, <1>3, <1>4
        DEF SettingsInv, SettingsTypes, CopiesCurrent, KeysKnown, KeyIsValid, NothingMissed

LEMMA SettingsStep == SettingsInv /\ [Next]_vars => SettingsInv'
<1> SUFFICES ASSUME SettingsInv, [Next]_vars PROVE SettingsInv'
  OBVIOUS
<1>1. CASE Connectors
  <2>1. desk = "connectors" /\ desk' = desk
    BY <1>1 DEF Connectors
  <2>2. ASSUME NEW s \in Sessions, Administer(s) PROVE SettingsInv'
    BY <2>1, <2>2, ReadsKeep, UpsertSaveKeeps, DisableSaveKeeps, PolicySaveKeeps, TestKeeps
       DEF Administer
  <2>3. ASSUME NEW s \in Sessions, Synchronise(s) PROVE SettingsInv'
    BY <2>1, <2>3, ReadsKeep, FetchKeeps, StoreProductsKeeps, StampKeeps, FlowFailsKeeps,
       RefreshCallKeeps, RefreshSaveKeeps DEF Synchronise
  <2>4. ASSUME NEW s \in Sessions, SettingsRollback(s) PROVE SettingsInv'
    BY <2>1, <2>4, RollbackKeeps
  <2>5. ASSUME NEW i \in Items, ItemChanges(i) PROVE SettingsInv'
    BY <2>1, <2>5, ItemChangesKeeps
  <2>6. CASE Midnight
    BY <2>1, <2>6, MidnightKeeps
  <2> QED BY <1>1, <2>2, <2>3, <2>4, <2>5, <2>6 DEF Connectors
<1>2. CASE Logins \/ Codes \/ Scans \/ Displays
  <2>1. desk # "connectors" /\ desk' = desk /\ UNCHANGED settingsVars
    BY <1>2 DEF Logins, Codes, Scans, Displays
  <2> QED BY <2>1, OtherDesks
<1>3. CASE UNCHANGED vars
  BY <1>3, NothingHappens
<1> QED BY <1>1, <1>2, <1>3 DEF Next

-----------------------------------------------------------------------------
(* What it means *)

(* The stored key is the one the registry accepts, or the refresh worker   *)
(* is about to store it, unless it was lost (key_refresh.py, _refresh_one, *)
(* against every other request on the row).                                *)
THEOREM KeyStaysValid == Spec => []KeyIsValid
<1>1. SettingsInv => KeyIsValid
  BY DEF SettingsInv
<1> QED BY <1>1, SettingsStart, SettingsStep, PTL DEF Spec

(* The watermark never passes a change of the catalogue that is not here,  *)
(* unless a fetch waited over midnight (sync_smartup_products, pull_now).  *)
THEOREM ChangesArrive == Spec => []NoMissedChanges
<1>1. SettingsInv => NoMissedChanges
  BY DEF SettingsInv, NothingMissed, Brings, NoMissedChanges, Types
<1> QED BY <1>1, SettingsStart, SettingsStep, PTL DEF Spec

-----------------------------------------------------------------------------
(* What a step of a request does to the settings that are not its own. *)

Survives(s) ==
    LET old == config[req[s].type]
        new == config'[req[s].type] IN
    /\ \A f \in DOMAIN NoSettings \ Own(req[s].pc) : new.settings[f] = old.settings[f]
    /\ new.credentials.host = old.credentials.host

LEMMA SavedSurvives ==
    ASSUME SettingsInv, desk = "connectors", NEW s \in Busy \ overtaken, NEW new \in Row, NEW dated,
           SaveRun(s, new, dated),
           \A f \in {"policy", "cooldown", "mark"} \ Own(req[s].pc) :
             new.settings[f] = req[s].copy.settings[f],
           new.credentials.host = req[s].copy.credentials.host
    PROVE  Survives(s)
<1>1. PICK row \in Row : Wrote(s, new, row)
  BY SaveWrites
<1>2. req[s].copy = config[req[s].type] /\ req[s].type \in Types
  BY BusyOnRow DEF SettingsInv, CopiesCurrent, Request
<1>3. config'[req[s].type] = row /\ row.settings = new.settings /\ row.credentials = new.credentials
  BY <1>1, <1>2 DEF Wrote, SettingsInv, SettingsTypes, Rows
<1>4. DOMAIN NoSettings = {"policy", "cooldown", "mark"}
  BY DEF NoSettings
<1> QED BY <1>2, <1>3, <1>4 DEF Survives

LEMMA StepSurvives ==
    ASSUME SettingsInv, desk = "connectors", NEW s \in Busy \ overtaken, req[s].pc # "upsert",
           Administer(s) \/ Synchronise(s) \/ SettingsRollback(s)
    PROVE  Survives(s)
<1>1. Request(req[s]) /\ req[s].copy \in Row /\ req[s] # Idle /\ s \in Sessions
  BY BusyOnRow DEF Request, Busy
<1>2. CASE UNCHANGED config
  BY <1>2 DEF Survives
<1>3. CASE DisableSave(s)
  <2>1. PICK new : new = [req[s].copy EXCEPT !.active = FALSE]
    OBVIOUS
  <2> QED BY <1>1, <1>3, <2>1, RowChanged, SavedSurvives DEF DisableSave, Save
<1>4. CASE PolicySave(s)
  <2>1. PICK new : new = [req[s].copy EXCEPT !.settings.policy = req[s].more]
    OBVIOUS
  <2>2. req[s].pc = "policy" /\ req[s].more \in Policies
    BY <1>1, <1>4 DEF PolicySave, Request, Small, Large
  <2>3. new \in Row /\ new.settings = [req[s].copy.settings EXCEPT !.policy = req[s].more]
        /\ new.credentials = req[s].copy.credentials /\ Save(s, new)
    BY <1>1, <1>4, <2>1, <2>2, RowChanged DEF PolicySave
  <2>4. new.settings.cooldown = req[s].copy.settings.cooldown /\ new.settings.mark = req[s].copy.settings.mark
    BY <1>1, <2>3 DEF Row
  <2> QED BY <1>1, <2>2, <2>3, <2>4, SavedSurvives DEF Own, Save
<1>5. CASE TestLimited(s) \/ TestPasses(s)
  <2>1. PICK until \in Nat : Save(s, WithCooldown(req[s].copy, until))
    BY <1>5 DEF TestLimited, TestPasses, Never, SettingsInv, SettingsTypes
  <2>2. PICK new : new = [req[s].copy EXCEPT !.settings.cooldown = until]
    OBVIOUS
  <2>3. new \in Row /\ new.settings = [req[s].copy.settings EXCEPT !.cooldown = until]
        /\ new.credentials = req[s].copy.credentials /\ Save(s, new) /\ req[s].pc = "test"
    BY <1>1, <1>5, <2>1, <2>2, RowChanged DEF TestLimited, TestPasses, WithCooldown
  <2>4. new.settings.policy = req[s].copy.settings.policy /\ new.settings.mark = req[s].copy.settings.mark
    BY <1>1, <2>3 DEF Row
  <2> QED BY <1>1, <2>3, <2>4, SavedSurvives DEF Own, Save
<1>6. CASE Stamp(s)
  <2>1. PICK flow : flow = Head(req[s].more.flows)
    OBVIOUS
  <2>2. PICK new : new = Stamped(req[s].copy, flow)
    OBVIOUS
  <2>3. SaveRun(s, new, req[s].more.dated) /\ req[s].pc \in {"fetched", "stored"}
    BY <1>6, <2>1, <2>2 DEF Stamp
  <2>4. /\ new \in Row /\ new.credentials = req[s].copy.credentials
        /\ \/ new.settings = req[s].copy.settings
           \/ new.settings = [req[s].copy.settings EXCEPT !.mark = day]
    BY <1>1, <2>2, StampedRow
  <2>5. new.settings.policy = req[s].copy.settings.policy
        /\ new.settings.cooldown = req[s].copy.settings.cooldown
    BY <1>1, <2>4 DEF Row
  <2> QED BY <1>1, <2>3, <2>4, <2>5, SavedSurvives DEF Own
<1>7. CASE RefreshSave(s)
  <2>1. PICK new : new = [req[s].copy EXCEPT !.credentials.key = req[s].more]
    OBVIOUS
  <2>2. req[s].pc = "refreshed" /\ req[s].more \in Nat
    BY <1>7 DEF RefreshSave, SettingsInv, KeysKnown, SettingsTypes
  <2>3. new \in Row /\ new.settings = req[s].copy.settings
        /\ new.credentials = [req[s].copy.credentials EXCEPT !.key = req[s].more] /\ Save(s, new)
    BY <1>1, <1>7, <2>1, <2>2, RowChanged DEF RefreshSave, Renewed
  <2>4. new.credentials.host = req[s].copy.credentials.host
    BY <1>1, <2>3 DEF Row
  <2> QED BY <2>3, <2>4, SavedSurvives DEF Save
<1>8. UNCHANGED config \/ DisableSave(s) \/ PolicySave(s) \/ TestLimited(s) \/ TestPasses(s)
      \/ Stamp(s) \/ RefreshSave(s)
  <2>1. CASE Administer(s)
    BY <2>1, <1>1 DEF Administer, UpsertRead, UpsertSave, DisableRead, PolicyRead, TestRead,
          LoadActive, Load, Arrives
  <2>2. CASE Synchronise(s)
    BY <2>2, <1>1 DEF Synchronise, SyncRead, PullRead, TickRead, RefreshRead, LoadActive, Load, Arrives,
          Fetch, StoreProducts, FlowFails, KeptAsItWas, RefreshCall, settingsVars, tables
  <2>3. CASE SettingsRollback(s)
    BY <2>3 DEF SettingsRollback
  <2> QED BY <2>1, <2>2, <2>3
<1> QED BY <1>2, <1>3, <1>4, <1>5, <1>6, <1>7, <1>8

(* The others' settings survive what a request writes back, as long as no  *)
(* one wrote the row since it was read (set_erp_write_roles, test_connector,*)
(* sync_smartup_products, pull_now, _refresh_one).                         *)
THEOREM OthersSettingsSurvive == Spec => SettingsSurvive
<1>1. SettingsInv /\ [Next]_vars =>
        [\A s \in Sessions \ overtaken :
           OnRow(s) /\ req[s].pc # "upsert" /\ req'[s] # req[s] =>
             LET old == config[req[s].type]
                 new == config'[req[s].type] IN
             /\ \A f \in DOMAIN NoSettings \ Own(req[s].pc) : new.settings[f] = old.settings[f]
             /\ new.credentials.host = old.credentials.host]_vars
  <2> SUFFICES ASSUME SettingsInv, Next, NEW s \in Sessions \ overtaken,
                      OnRow(s), req[s].pc # "upsert", req'[s] # req[s]
               PROVE  Survives(s)
    BY DEF Survives
  <2>1. CASE Connectors
    <3>1. CASE UNCHANGED config
      BY <3>1 DEF Survives
    <3>2. ASSUME NEW r \in Sessions, Administer(r) \/ Synchronise(r) \/ SettingsRollback(r)
          PROVE  Survives(s)
      <4>1. PICK q : req' = [req EXCEPT ![r] = q]
        BY <3>2 DEF Administer, UpsertRead, UpsertSave, DisableRead, DisableSave, PolicyRead, PolicySave,
              TestRead, TestLimited, TestPasses, LoadActive, Load, Becomes, Ends, Synchronise, SyncRead,
              PullRead, TickRead, RefreshRead, Fetch, StoreProducts, Stamp, NextFlow, FlowFails,
              RefreshCall, Goes, RefreshSave, SettingsRollback
      <4>2. s = r
        BY <2>1, <4>1 DEF Connectors, SettingsInv, SettingsTypes
      <4>3. "copy" \notin DOMAIN Idle
        BY DEF Idle
      <4>4. s \in Busy \ overtaken /\ desk = "connectors"
        BY <2>1, <4>3 DEF Connectors, OnRow, Busy
      <4> QED BY <3>2, <4>2, <4>4, StepSurvives
    <3> QED BY <2>1, <3>1, <3>2 DEF Connectors, ItemChanges, Midnight
  <2>2. CASE Logins \/ Codes \/ Scans \/ Displays
    BY <2>2 DEF Logins, Codes, Scans, Displays, settingsVars, tables, Survives
  <2> QED BY <2>1, <2>2 DEF Next
<1> QED BY <1>1, SettingsStart, SettingsStep, PTL DEF Spec, SettingsSurvive

-----------------------------------------------------------------------------
(* The trees of codes.                                                     *)
(*                                                                         *)
(* First what the two loops of build_code_tree find in the registry's      *)
(* trees, and a walk over the stored ones.  Then the places: while a       *)
(* request builds the tree of a pallet it is alone with it, knows the      *)
(* place the goods are at, and the stored codes it will not find are       *)
(* stamped with that place already if they all hang together.              *)

(* Going down *)

(* The codes found on the way, level by level. *)
Found(down, start, codes, parent, levels) ==
    /\ down \in [0..levels -> SUBSET Marks]
    /\ down[0] = start
    /\ \A n \in 1..levels :
         down[n] = down[n - 1] \cup {d \in codes : parent[d] \in down[n - 1]}

LEMMA Descending ==
    ASSUME NEW start \in SUBSET Marks, NEW codes \in SUBSET Marks, NEW parent, NEW levels \in Nat
    PROVE  \E down : /\ Found(down, start, codes, parent, levels)
                   /\ Descend(start, codes, parent, levels) = down[levels]
<1>1. PICK Step \in [SUBSET Marks -> SUBSET Marks] :
        Step = [found \in SUBSET Marks |-> found \cup {d \in codes : parent[d] \in found}]
  OBVIOUS
<1>2. PICK g \in [0..levels -> SUBSET Marks] :
        g[0] = start /\ \A n \in 1..levels : g[n] = Step[g[n - 1]]
  <2>1. PICK X : X = SUBSET Marks
    OBVIOUS
  <2>2. start \in X /\ Step \in [X -> X]
    BY <2>1
  <2>3. \E g : Iterated(g, Step, start, X, levels)
    BY <2>2, Iterates
  <2> QED BY <2>1, <2>3 DEF Iterated
<1> DEFINE Stepwise(down) ==
             down = [n \in 0..levels |->
                       IF n = 0 THEN start
                       ELSE down[n - 1] \cup {d \in codes : parent[d] \in down[n - 1]}]
           D == CHOOSE down : Stepwise(down)
<1>3. Stepwise(g)
  <2>1. \A n \in 1..levels : n - 1 \in 0..levels
    OBVIOUS
  <2>2. \A n \in 1..levels : g[n] = g[n - 1] \cup {d \in codes : parent[d] \in g[n - 1]}
    BY <1>1, <1>2, <2>1
  <2>3. \A n \in 0..levels : n = 0 \/ n \in 1..levels
    OBVIOUS
  <2>4. g = [n \in 0..levels |-> g[n]]
    OBVIOUS
  <2> QED BY <1>2, <2>2, <2>3, <2>4
<1>4. Stepwise(D)
  BY <1>3
<1>5. Descend(start, codes, parent, levels) = D[levels]
  BY DEF Descend
<1> HIDE DEF D
<1>6. D[0] = start
  BY <1>4
<1>7. \A n \in 1..levels : D[n] = D[n - 1] \cup {d \in codes : parent[d] \in D[n - 1]}
  BY <1>4
<1>8. D \in [0..levels -> SUBSET Marks]
  <2> DEFINE G == {n \in 0..levels : D[n] \in SUBSET Marks}
  <2>1. 0 \in G
    BY <1>6
  <2>2. \A n \in 1..levels : n - 1 \in G => n \in G
    BY <1>7
  <2>3. \A n \in 0..levels : n \in G
    <3> HIDE DEF G
    <3> QED BY <2>1, <2>2, GrowingNumbers
  <2>4. D = [n \in 0..levels |-> D[n]]
    BY <1>4
  <2> QED BY <2>3, <2>4
<1> QED BY <1>5, <1>6, <1>7, <1>8 DEF Found

(* Nothing is found outside a set that contains the start and every code   *)
(* below its members.                                                      *)
LEMMA DescendsWithin ==
    ASSUME NEW start \in SUBSET Marks, NEW codes \in SUBSET Marks, NEW parent, NEW levels \in Nat,
           NEW T, start \subseteq T, \A d \in codes : parent[d] \in T => d \in T
    PROVE  /\ Descend(start, codes, parent, levels) \subseteq T
           /\ start \subseteq Descend(start, codes, parent, levels)
           /\ Descend(start, codes, parent, levels) \in SUBSET Marks
<1>1. PICK down : /\ Found(down, start, codes, parent, levels)
                  /\ Descend(start, codes, parent, levels) = down[levels]
  BY Descending
<1> USE <1>1 DEF Found
<1> DEFINE G == {n \in 0..levels : start \subseteq down[n] /\ down[n] \subseteq T}
<1>2. 0 \in G
  BY <1>1
<1>3. \A n \in 1..levels : n - 1 \in G => n \in G
  BY <1>1
<1>4. \A n \in 0..levels : n \in G
  <2> HIDE DEF G
  <2> QED BY <1>2, <1>3, GrowingNumbers
<1> QED BY <1>1, <1>4

(* A code is found if a short enough way up from it leads to the start.    *)
LEMMA DescendsTo ==
    ASSUME NEW start \in SUBSET Marks, NEW codes \in SUBSET Marks, NEW parent, NEW levels \in Nat,
           NEW T, NEW level \in [T -> 0..levels],
           \A d \in T : \/ d \in start
                        \/ d \in codes /\ parent[d] \in T /\ level[d] = level[parent[d]] + 1
    PROVE  T \subseteq Descend(start, codes, parent, levels)
<1>1. PICK down : /\ Found(down, start, codes, parent, levels)
                  /\ Descend(start, codes, parent, levels) = down[levels]
  BY Descending
<1> USE <1>1 DEF Found
<1> DEFINE G == {n \in 0..levels : \A d \in T : level[d] <= n => d \in down[n]}
<1>2. 0 \in G
  BY <1>1
<1>3. \A n \in 1..levels : n - 1 \in G => n \in G
  <2> SUFFICES ASSUME NEW n \in 1..levels, n - 1 \in G, NEW d \in T, level[d] <= n
               PROVE  d \in down[n]
    OBVIOUS
  <2>1. CASE level[d] <= n - 1
    BY <1>1, <2>1
  <2>2. CASE ~(level[d] <= n - 1)
    <3>1. level[d] = n /\ n \in Nat /\ n - 1 \in 0..levels
      BY <2>2
    <3>2. CASE d \in start
      <4> DEFINE H == {i \in 0..levels : start \subseteq down[i]}
      <4>1. 0 \in H /\ \A i \in 1..levels : i - 1 \in H => i \in H
        BY <1>1
      <4>2. n \in H
        <5> HIDE DEF H
        <5> QED BY <4>1, GrowingNumbers
      <4> QED BY <3>2, <4>2
    <3>3. CASE d \notin start
      <4>1. d \in codes /\ parent[d] \in T /\ level[d] = level[parent[d]] + 1
        BY <3>3
      <4>2. level[parent[d]] <= n - 1
        BY <3>1, <4>1
      <4>3. parent[d] \in down[n - 1]
        BY <4>1, <4>2
      <4> QED BY <1>1, <4>1, <4>3
    <3> QED BY <3>2, <3>3
  <2> QED BY <2>1, <2>2
<1>4. \A n \in 0..levels : n \in G
  <2> HIDE DEF G
  <2> QED BY <1>2, <1>3, GrowingNumbers
<1> QED BY <1>1, <1>4

(* What is found is at the start or below something found. *)
LEMMA DescendsFrom ==
    ASSUME NEW start \in SUBSET Marks, NEW codes \in SUBSET Marks, NEW parent, NEW levels \in Nat
    PROVE  \A d \in Descend(start, codes, parent, levels) :
             d \in start \/ (d \in codes /\ parent[d] \in Descend(start, codes, parent, levels))
<1>1. PICK down : /\ Found(down, start, codes, parent, levels)
                  /\ Descend(start, codes, parent, levels) = down[levels]
  BY Descending
<1> USE <1>1 DEF Found
<1> DEFINE G == {n \in 0..levels : \A e \in down[n] :
                   e \in start \/ (e \in codes /\ parent[e] \in down[n])}
<1>2. 0 \in G
  BY <1>1
<1>3. \A n \in 1..levels : n - 1 \in G => n \in G
  BY <1>1
<1>4. \A n \in 0..levels : n \in G
  <2> HIDE DEF G
  <2> QED BY <1>2, <1>3, GrowingNumbers
<1> QED BY <1>1, <1>4

-----------------------------------------------------------------------------
(* Going up *)

Climbed(up, c, answered) ==
    /\ up \in [0..MaxUp -> Marks]
    /\ up[0] = c
    /\ \A n \in 1..MaxUp : up[n] = Up(up[n - 1], answered)

LEMMA UpInMarks ==
    ASSUME NEW c \in Marks, NEW answered
    PROVE  /\ Up(c, answered) \in Marks
           /\ Above[c] \in Marks \cup {NoMark}
           /\ MaxUp \in Nat /\ MaxDepth \in Nat /\ MaxUp >= 1 /\ MaxDepth >= 1
BY MarkingAssumption DEF MarkingAssumption, Up

LEMMA Climbing ==
    ASSUME NEW c \in Marks, NEW answered
    PROVE  \E up : /\ Climbed(up, c, answered)
                   /\ RootFrom(c, answered) = up[MaxUp]
<1>1. PICK Step \in [Marks -> Marks] : Step = [d \in Marks |-> Up(d, answered)]
  BY UpInMarks
<1>0. MaxUp \in Nat
  BY UpInMarks
<1>2. PICK g \in [0..MaxUp -> Marks] : g[0] = c /\ \A n \in 1..MaxUp : g[n] = Step[g[n - 1]]
  <2>1. \E g : Iterated(g, Step, c, Marks, MaxUp)
    BY <1>0, Iterates
  <2> QED BY <2>1 DEF Iterated
<1> DEFINE Climbs(up) == up = [n \in 0..MaxUp |-> IF n = 0 THEN c ELSE Up(up[n - 1], answered)]
           U == CHOOSE up : Climbs(up)
<1>3. Climbs(g)
  <2>1. \A n \in 1..MaxUp : n - 1 \in 0..MaxUp
    BY <1>0
  <2>2. \A n \in 1..MaxUp : g[n] = Up(g[n - 1], answered)
    BY <1>1, <1>2, <2>1
  <2>3. \A n \in 0..MaxUp : n = 0 \/ n \in 1..MaxUp
    BY <1>0
  <2>4. g = [n \in 0..MaxUp |-> g[n]]
    OBVIOUS
  <2> QED BY <1>2, <2>2, <2>3, <2>4
<1>4. Climbs(U)
  BY <1>3
<1>5. RootFrom(c, answered) = U[MaxUp]
  BY DEF RootFrom
<1> HIDE DEF U
<1>6. U[0] = c /\ \A n \in 1..MaxUp : U[n] = Up(U[n - 1], answered)
  BY <1>0, <1>4
<1>7. U \in [0..MaxUp -> Marks]
  <2> DEFINE G == {n \in 0..MaxUp : U[n] \in Marks}
  <2>1. 0 \in G /\ \A n \in 1..MaxUp : n - 1 \in G => n \in G
    <3>1. \A n \in 1..MaxUp : n - 1 \in 0..MaxUp /\ n \in 0..MaxUp /\ 0 \in 0..MaxUp
      BY <1>0
    <3>2. 0 \in G
      BY <1>0, <1>6
    <3>3. ASSUME NEW n \in 1..MaxUp, n - 1 \in G PROVE n \in G
      BY <1>6, <3>1, <3>3, UpInMarks
    <3> QED BY <3>2, <3>3
  <2>2. \A n \in 0..MaxUp : n \in G
    <3> HIDE DEF G
    <3> QED BY <1>0, <2>1, GrowingNumbers
  <2>3. U = [n \in 0..MaxUp |-> U[n]]
    BY <1>4
  <2> QED BY <2>2, <2>3
<1> QED BY <1>5, <1>6, <1>7 DEF Climbed

Levelled(level) ==
    /\ level \in [Marks -> 0..(MaxDepth - 1)]
    /\ \A c \in Marks : IF Above[c] = NoMark THEN level[c] = 0
                        ELSE Above[c] \in Marks /\ level[c] = level[Above[c]] + 1

LEMMA Levels == \E level : Levelled(level)
<1>1. PICK level \in [Marks -> 0..(MaxDepth - 1)] :
        \A c \in Marks : level[c] = IF Above[c] = NoMark THEN 0 ELSE level[Above[c]] + 1
  BY PackingAssumption DEF PackingAssumption
<1>2. \A c \in Marks : Above[c] \in Marks \cup {NoMark}
  BY UpInMarks
<1> QED BY <1>1, <1>2 DEF Levelled

(* The top of a tree. *)
LEMMA PalletIsTop ==
    ASSUME NEW c \in Marks
    PROVE  Pallet(c) \in Marks /\ Above[Pallet(c)] = NoMark
<1>1. PICK up : Climbed(up, c, Marks) /\ Pallet(c) = up[MaxUp]
  BY Climbing DEF Pallet
<1>2. PICK level : Levelled(level)
  BY Levels
<1>3. MaxUp \in Nat /\ MaxDepth \in Nat /\ MaxUp >= 1 /\ MaxDepth >= 1 /\ MaxDepth <= MaxUp
  BY UpInMarks, PackingAssumption DEF PackingAssumption
<1> DEFINE G == {n \in 0..MaxUp : Above[up[n]] = NoMark \/ level[up[n]] <= (MaxDepth - 1) - n}
<1>4. 0 \in G
  BY <1>1, <1>2, <1>3 DEF Climbed, Levelled
<1>5. \A n \in 1..MaxUp : n - 1 \in G => n \in G
  <2> SUFFICES ASSUME NEW n \in 1..MaxUp, n - 1 \in G PROVE n \in G
    OBVIOUS
  <2>1. PICK x \in Marks : x = up[n - 1] /\ up[n] = Up(x, Marks)
    BY <1>1, <1>3 DEF Climbed
  <2>2. CASE Above[x] = NoMark
    BY <2>1, <2>2 DEF Up
  <2>3. CASE Above[x] # NoMark
    <3>1. up[n] = Above[x] /\ up[n] \in Marks /\ level[x] = level[up[n]] + 1
      BY <1>2, <2>1, <2>3 DEF Up, Levelled
    <3>2. level[x] <= (MaxDepth - 1) - (n - 1)
      BY <2>1, <2>3
    <3>3. level[up[n]] \in Int
      BY <1>2, <3>1 DEF Levelled
    <3> QED BY <1>3, <3>1, <3>2, <3>3
  <2> QED BY <2>2, <2>3
<1>6. MaxUp \in G
  <2> HIDE DEF G
  <2>1. \A n \in 0..MaxUp : n \in G
    BY <1>3, <1>4, <1>5, GrowingNumbers
  <2> QED BY <1>3, <2>1
<1>7. up[MaxUp] \in Marks
  BY <1>1, <1>3 DEF Climbed
<1>8. level[up[MaxUp]] \in 0..(MaxDepth - 1)
  BY <1>2, <1>7 DEF Levelled
<1> QED BY <1>1, <1>3, <1>6, <1>7, <1>8

LEMMA PalletOfTop ==
    ASSUME NEW c \in Marks, Above[c] = NoMark
    PROVE  Pallet(c) = c
<1>1. PICK up : Climbed(up, c, Marks) /\ Pallet(c) = up[MaxUp]
  BY Climbing DEF Pallet
<1>2. MaxUp \in Nat
  BY UpInMarks
<1> DEFINE G == {n \in 0..MaxUp : up[n] = c}
<1>3. 0 \in G /\ \A n \in 1..MaxUp : n - 1 \in G => n \in G
  BY <1>1, <1>2 DEF Climbed, Up
<1>4. \A n \in 0..MaxUp : n \in G
  <2> HIDE DEF G
  <2> QED BY <1>2, <1>3, GrowingNumbers
<1> QED BY <1>1, <1>2, <1>4

LEMMA PalletOfPart ==
    ASSUME NEW c \in Marks, Above[c] # NoMark
    PROVE  Above[c] \in Marks /\ Pallet(Above[c]) = Pallet(c)
<1>1. PICK d \in Marks : d = Above[c]
  BY UpInMarks
<1>2. PICK u : Climbed(u, c, Marks) /\ Pallet(c) = u[MaxUp]
  BY Climbing DEF Pallet
<1>3. PICK v : Climbed(v, d, Marks) /\ Pallet(d) = v[MaxUp]
  BY Climbing DEF Pallet
<1>4. MaxUp \in Nat /\ MaxUp >= 1 /\ MaxUp - 1 \in Nat
  BY UpInMarks
<1> DEFINE G == {n \in 0..(MaxUp - 1) : u[n + 1] = v[n]}
<1>5. 0 \in G
  <2>1. u[1] = Up(u[0], Marks)
    <3>1. 1 \in 1..MaxUp /\ 1 - 1 = 0
      BY <1>4
    <3> QED BY <1>2, <3>1 DEF Climbed
  <2>2. u[1] = d
    BY <1>1, <1>2, <2>1 DEF Climbed, Up
  <2> QED BY <1>3, <1>4, <2>2 DEF Climbed
<1>6. \A n \in 1..(MaxUp - 1) : n - 1 \in G => n \in G
  <2> SUFFICES ASSUME NEW n \in 1..(MaxUp - 1), n - 1 \in G PROVE n \in G
    OBVIOUS
  <2>1. n \in 1..MaxUp /\ n + 1 \in 1..MaxUp /\ (n + 1) - 1 = n /\ (n - 1) + 1 = n
    BY <1>4
  <2>2. u[n] = v[n - 1]
    BY <2>1
  <2>3. u[n + 1] = Up(u[n], Marks)
    BY <1>2, <2>1 DEF Climbed
  <2>4. v[n] = Up(v[n - 1], Marks)
    BY <1>3, <2>1 DEF Climbed
  <2> QED BY <2>2, <2>3, <2>4
<1>7. u[MaxUp] = v[MaxUp - 1]
  <2> HIDE DEF G
  <2>1. \A n \in 0..(MaxUp - 1) : n \in G
    BY <1>4, <1>5, <1>6, GrowingNumbers
  <2>2. MaxUp - 1 \in G /\ (MaxUp - 1) + 1 = MaxUp
    BY <1>4, <2>1
  <2> QED BY <2>2 DEF G
<1>8. v[MaxUp] = Up(v[MaxUp - 1], Marks)
  BY <1>3, <1>4 DEF Climbed
<1>9. Above[u[MaxUp]] = NoMark
  BY <1>2, PalletIsTop
<1> QED BY <1>1, <1>2, <1>3, <1>7, <1>8, <1>9 DEF Up

LEMMA RootInPallet ==
    ASSUME NEW c \in Marks, NEW answered
    PROVE  RootFrom(c, answered) \in Marks /\ Pallet(RootFrom(c, answered)) = Pallet(c)
<1>1. PICK up : Climbed(up, c, answered) /\ RootFrom(c, answered) = up[MaxUp]
  BY Climbing
<1>2. MaxUp \in Nat
  BY UpInMarks
<1> DEFINE G == {n \in 0..MaxUp : Pallet(up[n]) = Pallet(c)}
<1>3. 0 \in G
  BY <1>1, <1>2 DEF Climbed
<1>4. \A n \in 1..MaxUp : n - 1 \in G => n \in G
  <2> SUFFICES ASSUME NEW n \in 1..MaxUp, n - 1 \in G PROVE n \in G
    OBVIOUS
  <2>1. PICK x \in Marks : x = up[n - 1] /\ up[n] = Up(x, answered)
    BY <1>1, <1>2 DEF Climbed
  <2> QED BY <2>1, PalletOfPart DEF Up
<1>5. \A n \in 0..MaxUp : n \in G
  <2> HIDE DEF G
  <2> QED BY <1>2, <1>3, <1>4, GrowingNumbers
<1> QED BY <1>1, <1>2, <1>5 DEF Climbed

-----------------------------------------------------------------------------
(* Trees and pallets *)

LEMMA PartOfPallet ==
    ASSUME NEW p, NEW c \in Marks, Above[c] \in Whole(p)
    PROVE  c \in Whole(p)
<1>1. Above[c] # NoMark
  BY MarkingAssumption DEF MarkingAssumption, Whole
<1> QED BY <1>1, PalletOfPart DEF Whole

(* What is found below a code belongs to its pallet. *)
LEMMA TreeInPallet ==
    ASSUME NEW root \in Marks, NEW answered
    PROVE  /\ TreeFrom(root, answered) \in SUBSET Whole(Pallet(root))
           /\ root \in TreeFrom(root, answered)
<1>1. PICK codes \in SUBSET Marks : codes = {c \in Marks : Above[c] \in answered}
  OBVIOUS
<1>2. PICK T : T = Whole(Pallet(root))
  OBVIOUS
<1>3. {root} \in SUBSET Marks /\ {root} \subseteq T
  BY <1>2 DEF Whole
<1>4. \A d \in codes : Above[d] \in T => d \in T
  BY <1>2, PartOfPallet
<1>5. MaxDepth - 1 \in Nat
  BY UpInMarks
<1>6. PICK start \in SUBSET Marks : start = {root}
  BY <1>3
<1>7. Descend(start, codes, Above, MaxDepth - 1) \subseteq T
      /\ start \subseteq Descend(start, codes, Above, MaxDepth - 1)
  BY <1>3, <1>4, <1>5, <1>6, DescendsWithin
<1> QED BY <1>1, <1>2, <1>6, <1>7 DEF TreeFrom

(* What is packed in a pallet is the whole of it. *)
LEMMA InsideIsWhole ==
    ASSUME NEW p \in Marks, Pallet(p) = p
    PROVE  Inside(p) = Whole(p)
<1>1. Inside(p) \in SUBSET Whole(p)
  BY TreeInPallet DEF Inside
<1>2. PICK level : Levelled(level)
  BY Levels
<1>3. PICK codes \in SUBSET Marks : codes = {c \in Marks : Above[c] \in Marks}
  OBVIOUS
<1>4. PICK T \in SUBSET Marks : T = Whole(p)
  BY DEF Whole
<1>5. PICK on : on = [d \in T |-> level[d]]
  OBVIOUS
<1>6. MaxDepth - 1 \in Nat
  BY UpInMarks
<1>7. on \in [T -> 0..(MaxDepth - 1)]
  BY <1>2, <1>5 DEF Levelled
<1>8. PICK start \in SUBSET Marks : start = {p}
  OBVIOUS
<1>9. \A d \in T : \/ d \in start
                   \/ d \in codes /\ Above[d] \in T /\ on[d] = on[Above[d]] + 1
  <2> SUFFICES ASSUME NEW d \in T, d \notin start
               PROVE  d \in codes /\ Above[d] \in T /\ on[d] = on[Above[d]] + 1
    OBVIOUS
  <2>1. d \in Marks /\ Pallet(d) = p /\ d # p
    BY <1>4, <1>8 DEF Whole
  <2>2. Above[d] # NoMark
    BY <2>1, PalletOfTop
  <2>3. Above[d] \in Marks /\ Pallet(Above[d]) = p
    BY <2>1, <2>2, PalletOfPart
  <2>4. Above[d] \in T
    BY <1>4, <2>3 DEF Whole
  <2> QED BY <1>2, <1>3, <1>5, <2>1, <2>2, <2>3, <2>4 DEF Levelled
<1>10. T \subseteq Descend(start, codes, Above, MaxDepth - 1)
  BY <1>6, <1>7, <1>9, DescendsTo
<1> QED BY <1>1, <1>3, <1>4, <1>8, <1>10 DEF Inside, TreeFrom

(* And what is packed in one of the codes found is found too. *)
LEMMA InsideIsClosed ==
    ASSUME NEW c \in Marks, NEW d \in Marks, Above[d] \in Inside(c)
    PROVE  d \in Inside(c)
<1>1. PICK level : Levelled(level)
  BY Levels
<1>2. PICK codes \in SUBSET Marks : codes = {e \in Marks : Above[e] \in Marks}
  OBVIOUS
<1>3. PICK start \in SUBSET Marks : start = {c}
  OBVIOUS
<1>4. MaxDepth - 1 \in Nat
  BY UpInMarks
<1>5. PICK T : T = Descend(start, codes, Above, MaxDepth - 1) /\ T = Inside(c)
  BY <1>2, <1>3 DEF Inside, TreeFrom
<1>6. T \in SUBSET Marks
  BY <1>5, TreeInPallet DEF Inside, Whole
<1>7. \A e \in T : e \in start \/ (e \in codes /\ Above[e] \in T)
  <2>1. \A e \in Descend(start, codes, Above, MaxDepth - 1) :
          \/ e \in start
          \/ e \in codes /\ Above[e] \in Descend(start, codes, Above, MaxDepth - 1)
    BY <1>4, DescendsFrom
  <2> QED BY <1>5, <2>1
<1>8. PICK S \in SUBSET Marks : S = T \cup {d}
  BY <1>6
<1>9. PICK on : on = [e \in S |-> level[e]]
  OBVIOUS
<1>10. on \in [S -> 0..(MaxDepth - 1)]
  BY <1>1, <1>9 DEF Levelled
<1>11. \A e \in S : \/ e \in start
                    \/ e \in codes /\ Above[e] \in S /\ on[e] = on[Above[e]] + 1
  <2> SUFFICES ASSUME NEW e \in S, e \notin start
               PROVE  e \in codes /\ Above[e] \in S /\ on[e] = on[Above[e]] + 1
    OBVIOUS
  <2>1. Above[e] \in T
    BY <1>5, <1>7, <1>8
  <2>2. Above[e] \in Marks /\ Above[e] # NoMark
    BY <1>6, <2>1, MarkingAssumption DEF MarkingAssumption
  <2>3. level[e] = level[Above[e]] + 1
    BY <1>1, <2>2 DEF Levelled
  <2> QED BY <1>2, <1>8, <1>9, <2>1, <2>2, <2>3
<1>12. S \subseteq Descend(start, codes, Above, MaxDepth - 1)
  BY <1>4, <1>10, <1>11, DescendsTo
<1> QED BY <1>5, <1>8, <1>12

-----------------------------------------------------------------------------
(* What is stored of a pallet *)

MarkRow == [known : BOOLEAN, parent : Marks \cup {NoMark}, at : Places \cup {NoPlace}]

(* The table names no parent but the one the registry knows.               *)
MarksTyped ==
    /\ mark \in [Marks -> MarkRow]
    /\ \A c \in Marks : mark[c].parent \in {NoMark, Above[c]}
    /\ \A c \in Marks \ Stored : mark[c].at = NoPlace

LEMMA StoredInPallet ==
    ASSUME MarksTyped, NEW c \in Marks
    PROVE  StoredTree(c) \in SUBSET (Whole(Pallet(c)) \cap Stored)
<1>1. PICK codes \in SUBSET Marks : codes = Stored
  BY DEF Stored
<1>2. PICK parent : parent = [d \in codes |-> mark[d].parent]
  OBVIOUS
<1>3. PICK T : T = Whole(Pallet(c))
  OBVIOUS
<1>4. PICK start \in SUBSET Marks : start = {c} /\ start \subseteq T
  BY <1>3 DEF Whole
<1>5. \A d \in codes : parent[d] \in T => d \in T
  <2> SUFFICES ASSUME NEW d \in codes, parent[d] \in T PROVE d \in T
    OBVIOUS
  <2>1. d \in Marks /\ parent[d] = mark[d].parent /\ parent[d] # NoMark
    BY <1>2, <1>3, MarkingAssumption DEF Whole, MarkingAssumption
  <2>2. Above[d] \in T
    BY <2>1 DEF MarksTyped
  <2> QED BY <1>3, <2>1, <2>2, PartOfPallet
<1>6. Cardinality(Marks) \in Nat
  BY MarkingAssumption, FS_CardinalityType DEF MarkingAssumption
<1>7. Descend(start, codes, parent, Cardinality(Marks)) \subseteq T
  BY <1>4, <1>5, <1>6, DescendsWithin
<1> QED BY <1>1, <1>2, <1>3, <1>4, <1>7 DEF StoredTree

(* No more levels than codes. *)
LEMMA LevelsAreFew ==
    ASSUME NEW level, Levelled(level), NEW c \in Marks
    PROVE  level[c] \in 0..Cardinality(Marks)
<1>1. level[c] \in Nat
  BY UpInMarks DEF Levelled
<1>2. PICK S : S = {level[d] : d \in Marks}
  OBVIOUS
<1> DEFINE G == {i \in 0..level[c] : level[c] - i \in S}
<1>3. 0 \in G
  BY <1>1, <1>2
<1>4. \A i \in 1..level[c] : i - 1 \in G => i \in G
  <2> SUFFICES ASSUME NEW i \in 1..level[c], i - 1 \in G PROVE i \in G
    OBVIOUS
  <2>1. PICK d \in Marks : level[d] = level[c] - (i - 1)
    BY <1>2
  <2>2. level[d] # 0
    BY <1>1, <2>1
  <2>3. Above[d] \in Marks /\ level[d] = level[Above[d]] + 1 /\ level[Above[d]] \in Int
    BY <2>2, UpInMarks DEF Levelled
  <2>4. level[Above[d]] = level[c] - i
    BY <1>1, <2>1, <2>3
  <2> QED BY <1>2, <2>3, <2>4
<1>5. \A i \in 0..level[c] : i \in G
  <2> HIDE DEF G
  <2> QED BY <1>1, <1>3, <1>4, GrowingNumbers
<1>6. 0..level[c] \subseteq S
  <2> SUFFICES ASSUME NEW i \in 0..level[c] PROVE i \in S
    OBVIOUS
  <2>1. level[c] - i \in 0..level[c] /\ level[c] - (level[c] - i) = i
    BY <1>1
  <2> QED BY <1>5, <2>1
<1>7. IsFiniteSet(S) /\ Cardinality(S) <= Cardinality(Marks)
  <2>1. IsFiniteSet(Marks)
    BY MarkingAssumption DEF MarkingAssumption
  <2>2. level \in Surjection(Marks, S)
    <3>1. level \in [Marks -> S]
      BY <1>2 DEF Levelled
    <3> QED BY <1>2, <3>1 DEF Surjection
  <2> QED BY <2>1, <2>2, FS_Surjection
<1>8. Cardinality(0..level[c]) = level[c] + 1
  <2>1. 0 \in Int /\ level[c] \in Int /\ level[c] >= 0
    BY <1>1
  <2>2. Cardinality(0..level[c]) = IF 0 > level[c] THEN 0 ELSE level[c] - 0 + 1
    BY <2>1, FS_Interval
  <2> QED BY <2>1, <2>2
<1>9. Cardinality(0..level[c]) <= Cardinality(S)
  BY <1>6, <1>7, FS_Subset
<1>10. Cardinality(S) \in Nat /\ Cardinality(Marks) \in Nat
  BY <1>7, MarkingAssumption, FS_CardinalityType DEF MarkingAssumption
<1> QED BY <1>1, <1>7, <1>8, <1>9, <1>10

(* Codes that hang together are found from the top of the pallet. *)
LEMMA LinkedIsFound ==
    ASSUME MarksTyped, NEW p \in Marks, Pallet(p) = p, Linked(p)
    PROVE  Stored \cap Whole(p) \subseteq StoredTree(p)
<1>1. PICK codes \in SUBSET Marks : codes = Stored
  BY DEF Stored
<1>2. PICK parent : parent = [d \in codes |-> mark[d].parent]
  OBVIOUS
<1>3. PICK T \in SUBSET Marks : T = (Stored \cap Whole(p)) \cup {p}
  BY DEF Whole
<1>4. PICK start \in SUBSET Marks : start = {p}
  OBVIOUS
<1>5. PICK level : Levelled(level)
  BY Levels
<1>6. PICK levels \in Nat : levels = Cardinality(Marks)
  BY MarkingAssumption, FS_CardinalityType DEF MarkingAssumption
<1>7. PICK on : on = [d \in T |-> level[d]]
  OBVIOUS
<1>8. on \in [T -> 0..levels]
  BY <1>5, <1>6, <1>7, LevelsAreFew
<1>9. \A d \in T : \/ d \in start
                   \/ d \in codes /\ parent[d] \in T /\ on[d] = on[parent[d]] + 1
  <2> SUFFICES ASSUME NEW d \in T, d \notin start
               PROVE  d \in codes /\ parent[d] \in T /\ on[d] = on[parent[d]] + 1
    OBVIOUS
  <2>1. d \in Stored /\ d \in Whole(p) /\ d # p /\ d \in Marks /\ Pallet(d) = p
    BY <1>3, <1>4 DEF Whole
  <2>2. mark[d].parent = Above[d] /\ Above[d] \in Stored \cup {p}
    BY <2>1 DEF Linked
  <2>3. Above[d] # NoMark
    BY <2>1, PalletOfTop
  <2>4. Above[d] \in Marks /\ Pallet(Above[d]) = p
    BY <2>1, <2>3, PalletOfPart
  <2>5. Above[d] \in T
    BY <1>3, <2>2, <2>4 DEF Whole
  <2>6. level[d] = level[Above[d]] + 1
    BY <1>5, <2>1, <2>3 DEF Levelled
  <2> QED BY <1>1, <1>2, <1>7, <2>1, <2>2, <2>5, <2>6
<1>10. T \subseteq Descend(start, codes, parent, levels)
  BY <1>8, <1>9, DescendsTo
<1> QED BY <1>1, <1>2, <1>3, <1>4, <1>6, <1>10 DEF StoredTree

(* Whether a pallet's codes hang together depends on them only. *)
LEMMA LinksOfPallet ==
    ASSUME NEW p \in Marks, \A c \in Whole(p) : /\ mark'[c].known = mark[c].known
                                                /\ mark'[c].parent = mark[c].parent
    PROVE  Linked(p)' <=> Linked(p)
<1>1. \A c \in Whole(p) : c \in Stored' <=> c \in Stored
  BY DEF Stored, Whole
<1>2. ASSUME NEW c \in Whole(p), c # p
      PROVE  Above[c] \in Whole(p)
  <2>1. c \in Marks /\ Pallet(c) = p
    BY DEF Whole
  <2>2. Above[c] # NoMark
    BY <1>2, <2>1, PalletOfTop
  <2> QED BY <2>1, <2>2, PalletOfPart DEF Whole
<1>3. \A c \in Whole(p) : c # p => (Above[c] \in Stored' \cup {p} <=> Above[c] \in Stored \cup {p})
  BY <1>1, <1>2
<1> QED BY <1>1, <1>3 DEF Linked

-----------------------------------------------------------------------------
(* The places stamped on codes *)

TreeRequest(q) ==
    /\ q.pc \in {"idle", "climbing", "growing"}
    /\ q.pc \in {"climbing", "growing"} =>
         q.mark \in Marks /\ q.more \in SUBSET Marks /\ q.place \in Places
    /\ q.pc = "growing" => q.tree \in SUBSET Whole(Pallet(q.mark))

(* A request that builds the tree of a pallet was told where the pallet    *)
(* lies, and the codes it will not stamp were stamped when it began, if    *)
(* they all hang together; it is alone with them.                          *)
Stamping(s, c) ==
    Growing(s, Pallet(c)) =>
      /\ lies[c] = req[s].place
      /\ c \in Stored /\ (Linked(Pallet(c)) \/ Pallet(c) # Pallet(req[s].mark)) =>
           mark[c].at = req[s].place
      /\ req[s].pc = "growing" /\ Pallet(c) = Pallet(req[s].mark) => req[s].seen[c] = mark[c]

AtRest(c) ==
    c \in Stored /\ (\A s \in Sessions : ~Growing(s, Pallet(c))) => mark[c].at = lies[c]

OneBuilds(p) == \A s, r \in Sessions : Growing(s, p) /\ Growing(r, p) => s = r

CodeInv(c) ==
    /\ lies[c] = lies[Pallet(c)]
    /\ OneBuilds(Pallet(c))
    /\ \A s \in Sessions : Stamping(s, c)
    /\ AtRest(c)

CodesInv ==
    /\ DOMAIN req = Sessions /\ DOMAIN lies = Marks
    /\ \A s \in Sessions : TreeRequest(req[s])
    /\ \A c \in Marks : Pallet(c) \notin mixedUp => CodeInv(c)

TreeInv ==
    /\ MarksTyped
    /\ IF desk = "codes" THEN CodesInv ELSE Stored = {}

LEMMA TreeStart == Init => TreeInv
<1> SUFFICES ASSUME Init PROVE TreeInv
  OBVIOUS
<1>1. mark = [c \in Marks |-> Unstored] /\ lies = [c \in Marks |-> NoPlace]
      /\ req = [s \in Sessions |-> Idle]
  BY DEF Init, MarkingInit, NoRequests
<1>2. Stored = {}
  BY <1>1 DEF Stored, Unstored
<1>3. MarksTyped
  BY <1>1 DEF MarksTyped, MarkRow, Unstored
<1>4. \A s \in Sessions : req[s].pc = "idle" /\ TreeRequest(req[s])
  BY <1>1 DEF Idle, TreeRequest
<1>5. \A c \in Marks : CodeInv(c)
  BY <1>1, <1>2, <1>4, PalletIsTop DEF CodeInv, OneBuilds, Stamping, AtRest, Growing
<1> QED BY <1>1, <1>2, <1>3, <1>4, <1>5 DEF TreeInv, CodesInv

LEMMA OwnPallet ==
    ASSUME NEW c \in Marks
    PROVE  /\ Pallet(c) \in Marks /\ Pallet(Pallet(c)) = Pallet(c)
           /\ c \in Whole(Pallet(c)) /\ Pallet(c) \in Whole(Pallet(c))
BY PalletIsTop, PalletOfTop DEF Whole

(* What a step leaves to a pallet whose codes it does not touch: a request *)
(* may go on to build it, with what it saw still true.                     *)
BuildsOn(s, c) ==
    \/ ~Growing(s, Pallet(c)) /\ ~Growing(s, Pallet(c))'
    \/ /\ Growing(s, Pallet(c)) /\ Growing(s, Pallet(c))'
       /\ req'[s].place = req[s].place
       /\ Pallet(c) # Pallet(req[s].mark) \/ Pallet(c) = Pallet(req'[s].mark)
       /\ req'[s].pc = "growing" /\ Pallet(c) = Pallet(req'[s].mark) =>
            \/ req'[s] = req[s]
            \/ req'[s].seen[c] = mark[c]

LEMMA UntouchedCode ==
    ASSUME NEW c \in Marks, CodeInv(c),
           \A d \in Whole(Pallet(c)) : mark'[d] = mark[d] /\ lies'[d] = lies[d],
           \A s \in Sessions : BuildsOn(s, c)
    PROVE  CodeInv(c)'
<1>1. PICK p \in Marks : p = Pallet(c)
  BY OwnPallet
<1>2. /\ mark'[c] = mark[c] /\ lies'[c] = lies[c] /\ lies'[p] = lies[p]
      /\ c \in Stored' <=> c \in Stored
  BY <1>1, OwnPallet DEF Stored
<1>3. Linked(p)' <=> Linked(p)
  BY <1>1, LinksOfPallet
<1>4. \A s \in Sessions : Growing(s, p)' <=> Growing(s, p)
  BY <1>1 DEF BuildsOn
<1>5. (lies[c] = lies[Pallet(c)])'
  BY <1>1, <1>2 DEF CodeInv
<1>6. OneBuilds(Pallet(c))'
  BY <1>1, <1>4 DEF CodeInv, OneBuilds
<1>7. AtRest(c)'
  BY <1>1, <1>2, <1>4 DEF CodeInv, AtRest
<1>8. ASSUME NEW s \in Sessions PROVE Stamping(s, c)'
  <2> SUFFICES ASSUME Growing(s, p)'
               PROVE  /\ lies'[c] = req'[s].place
                      /\ c \in Stored' /\ (Linked(p)' \/ p # Pallet(req'[s].mark)) =>
                           mark'[c].at = req'[s].place
                      /\ req'[s].pc = "growing" /\ p = Pallet(req'[s].mark) =>
                           req'[s].seen[c] = mark'[c]
    BY <1>1 DEF Stamping
  <2>1. /\ Growing(s, p) /\ req'[s].place = req[s].place
        /\ p # Pallet(req[s].mark) \/ p = Pallet(req'[s].mark)
        /\ req'[s].pc = "growing" /\ p = Pallet(req'[s].mark) =>
            req'[s] = req[s] \/ req'[s].seen[c] = mark[c]
    BY <1>1, <1>4 DEF BuildsOn
  <2>2. Stamping(s, c)
    BY DEF CodeInv
  <2> QED BY <1>1, <1>2, <1>3, <2>1, <2>2 DEF Stamping
<1> QED BY <1>5, <1>6, <1>7, <1>8 DEF CodeInv

(* Requests of another session do not change. *)
LEMMA OthersBuildOn ==
    ASSUME NEW c \in Marks, NEW r \in Sessions, req'[r] = req[r]
    PROVE  BuildsOn(r, c)
BY DEF BuildsOn, Growing

LEMMA OneRequest ==
    ASSUME CodesInv, NEW s \in Sessions, NEW v, req' = [req EXCEPT ![s] = v], TreeRequest(v)
    PROVE  /\ DOMAIN req' = Sessions
           /\ req'[s] = v
           /\ \A r \in Sessions \ {s} : req'[r] = req[r]
           /\ \A r \in Sessions : TreeRequest(req'[r])
BY DEF CodesInv

-----------------------------------------------------------------------------

LEMMA ReceiveKeepsCodes ==
    ASSUME MarksTyped, CodesInv, NEW s \in Sessions, NEW c \in Marks, Receive(s, c)
    PROVE  MarksTyped' /\ CodesInv'
<1>1. /\ mark'[c] = [known |-> TRUE, parent |-> mark[c].parent, at |-> mark[c].at]
      /\ \A d \in Marks \ {c} : mark'[d] = mark[d]
      /\ DOMAIN mark' = Marks /\ mark' = [d \in Marks |-> mark'[d]]
  BY DEF Receive, MarksTyped, MarkRow
<1>2. mark[c] \in MarkRow /\ mark[c].at = NoPlace
  BY DEF Receive, MarksTyped
<1>3. MarksTyped'
  <2>1. mark'[c] \in MarkRow
    BY <1>1, <1>2 DEF MarkRow
  <2>2. mark' \in [Marks -> MarkRow]
    BY <1>1, <2>1 DEF MarksTyped
  <2>3. \A d \in Marks : mark'[d].parent = mark[d].parent /\ mark'[d].at = mark[d].at
    BY <1>1
  <2>4. \A d \in Marks : d \notin Stored' => d \notin Stored
    BY <1>1 DEF Stored
  <2> QED BY <2>2, <2>3, <2>4 DEF MarksTyped
<1>4. req' = req /\ lies' = lies
  BY DEF Receive
<1>5. ASSUME NEW d \in Marks, Pallet(d) \notin mixedUp' PROVE CodeInv(d)'
  <2>1. mixedUp \subseteq mixedUp'
    BY DEF Receive
  <2>2. CodeInv(d)
    BY <1>5, <2>1 DEF CodesInv
  <2>3. CASE Pallet(d) # Pallet(c)
    <3>1. \A e \in Whole(Pallet(d)) : mark'[e] = mark[e] /\ lies'[e] = lies[e]
      BY <1>1, <1>4, <2>3 DEF Whole
    <3>2. \A r \in Sessions : BuildsOn(r, d)
      BY <1>4, OthersBuildOn
    <3> QED BY <2>2, <3>1, <3>2, UntouchedCode
  <2>4. CASE Pallet(d) = Pallet(c)
    <3>1. PICK p \in Marks : p = Pallet(c) /\ p = Pallet(d)
      BY <2>4, OwnPallet
    <3>2. p \notin mixedUp' /\ lies[c] = NoPlace /\ ~Crowded(s, p)
      BY <1>5, <3>1 DEF Receive
    <3>3. \A r \in Sessions : ~Growing(r, p)
      <4>1. req[s].pc = "idle"
        BY DEF Receive, Arrives, Idle
      <4> QED BY <3>2, <4>1 DEF Crowded, Growing
    <3>4. \A r \in Sessions : ~Growing(r, p)'
      BY <1>4, <3>3 DEF Growing
    <3>5. AtRest(d)'
      <4>1. CASE d = c
        BY <1>1, <1>2, <1>4, <3>2, <4>1 DEF AtRest
      <4>2. CASE d # c
        <5>1. mark'[d] = mark[d] /\ (d \in Stored' <=> d \in Stored)
          BY <1>1, <4>2 DEF Stored
        <5> QED BY <1>4, <2>2, <3>1, <3>3, <5>1 DEF AtRest, CodeInv
      <4> QED BY <4>1, <4>2
    <3>6. (lies[d] = lies[Pallet(d)])'
      BY <1>4, <2>2 DEF CodeInv
    <3> QED BY <3>1, <3>4, <3>5, <3>6 DEF CodeInv, OneBuilds, Stamping
  <2> QED BY <2>3, <2>4
<1> QED BY <1>3, <1>4, <1>5 DEF CodesInv

LEMMA PlaceKeepsCodes ==
    ASSUME MarksTyped, CodesInv, NEW s \in Sessions, NEW c \in Marks, NEW l \in Places,
           Place(s, c, l)
    PROVE  MarksTyped' /\ CodesInv'
<1>1. PICK found : found = StoredTree(c) /\ found \in SUBSET (Whole(Pallet(c)) \cap Stored)
  BY StoredInPallet
<1>2. /\ mark' = [d \in Marks |-> IF d \in found THEN [mark[d] EXCEPT !.at = l] ELSE mark[d]]
      /\ lies' = [d \in Marks |-> IF d \in Together(c) THEN l ELSE lies[d]]
  BY <1>1 DEF Place
<1>3. \A d \in Marks :
        /\ mark'[d] \in MarkRow /\ mark'[d].known = mark[d].known
        /\ mark'[d].parent = mark[d].parent
        /\ mark'[d].at = IF d \in found THEN l ELSE mark[d].at
  BY <1>2 DEF MarksTyped, MarkRow
<1>4. Stored' = Stored
  BY <1>3 DEF Stored
<1>5. MarksTyped'
  <2>1. mark' \in [Marks -> MarkRow]
    BY <1>2, <1>3
  <2>2. \A d \in Marks \ Stored : d \notin found
    BY <1>1
  <2> QED BY <1>3, <1>4, <2>1, <2>2 DEF MarksTyped
<1>6. PICK v : v = [pc |-> "climbing", mark |-> c, place |-> l, more |-> {}]
  OBVIOUS
<1>7. TreeRequest(v) /\ req' = [req EXCEPT ![s] = v]
  BY <1>6 DEF Place, Becomes, TreeRequest
<1>8. /\ DOMAIN req' = Sessions /\ req'[s] = v
      /\ \A r \in Sessions \ {s} : req'[r] = req[r]
      /\ \A r \in Sessions : TreeRequest(req'[r])
  BY <1>7, OneRequest
<1>9. req[s].pc = "idle"
  BY DEF Place, Arrives, Idle
<1>10. Inside(c) \in SUBSET Whole(Pallet(c))
  BY TreeInPallet DEF Inside
<1>11. ASSUME NEW d \in Marks, Pallet(d) \notin mixedUp' PROVE CodeInv(d)'
  <2>1. mixedUp \subseteq mixedUp'
    BY DEF Place
  <2>2. CodeInv(d)
    BY <1>11, <2>1 DEF CodesInv
  <2>3. CASE Pallet(d) # Pallet(c)
    <3>1. \A e \in Whole(Pallet(d)) : mark'[e] = mark[e] /\ lies'[e] = lies[e]
      BY <1>1, <1>2, <1>10, <2>3 DEF Whole, Together
    <3>2. ~Growing(s, Pallet(d)) /\ ~Growing(s, Pallet(d))'
      BY <1>6, <1>8, <1>9, <2>3 DEF Growing
    <3>3. \A r \in Sessions : BuildsOn(r, d)
      BY <1>8, <3>2, OthersBuildOn DEF BuildsOn
    <3> QED BY <2>2, <3>1, <3>3, UntouchedCode
  <2>4. CASE Pallet(d) = Pallet(c)
    <3>1. c = Pallet(c) /\ c = Pallet(d) /\ c \notin mixedUp /\ ~Crowded(s, c)
      BY <1>11, <2>4, OwnPallet DEF Place
    <3>2. \A r \in Sessions \ {s} : ~Growing(r, c)'
      BY <1>8, <3>1 DEF Crowded, Growing
    <3>3. \A e \in Whole(c) : lies[e] = lies[c]
      BY <3>1 DEF CodesInv, CodeInv, Whole
    <3>4. Inside(c) = Whole(c)
      BY <3>1, InsideIsWhole
    <3>5. Together(c) = Whole(c)
      BY <3>3, <3>4 DEF Together
    <3>6. lies'[d] = l /\ lies'[c] = l
      BY <1>2, <2>4, <3>1, <3>5 DEF Whole
    <3>7. Linked(c)' => Linked(c)
      BY <1>3, LinksOfPallet DEF Whole
    <3>8. d \in Stored' /\ Linked(c)' => mark'[d].at = l
      <4> SUFFICES ASSUME d \in Stored, Linked(c) PROVE mark'[d].at = l
        BY <1>4, <3>7
      <4>1. d \in found
        BY <1>1, <3>1, LinkedIsFound DEF Whole
      <4> QED BY <1>3, <4>1
    <3>9. \A r \in Sessions : Stamping(r, d)'
      BY <1>6, <1>8, <3>1, <3>2, <3>6, <3>8 DEF Stamping
    <3>10. Growing(s, c)'
      BY <1>6, <1>8, <3>1 DEF Growing
    <3> QED BY <3>1, <3>2, <3>6, <3>9, <3>10 DEF CodeInv, OneBuilds, AtRest
  <2> QED BY <2>3, <2>4
<1>12. DOMAIN lies' = Marks
  BY <1>2
<1> QED BY <1>5, <1>8, <1>11, <1>12 DEF CodesInv

LEMMA FetchTreeKeepsCodes ==
    ASSUME MarksTyped, CodesInv, NEW s \in Sessions, NEW l \in Places, FetchTree(s, l)
    PROVE  MarksTyped' /\ CodesInv'
<1>1. mark' = mark /\ lies' = lies /\ mixedUp \subseteq mixedUp'
  BY DEF FetchTree
<1>2. MarksTyped'
  BY <1>1 DEF MarksTyped, Stored
<1>3. PICK tops : tops = Tops(l) /\ tops \in SUBSET Marks
                  /\ \A t \in tops : t \in Stored /\ mark[t].at = l
  <2>1. \A t \in Tops(l) : t \in Marks /\ t \in Stored /\ mark[t].at = l
    BY DEF Tops, StoredAt, Stored
  <2>2. PICK tops : tops = Tops(l)
    OBVIOUS
  <2> QED BY <2>1, <2>2
<1>4. PICK v : /\ TreeRequest(v) /\ req' = [req EXCEPT ![s] = v]
               /\ v.pc = "climbing" /\ v.place = l /\ {v.mark} \cup v.more = tops
  <2>1. PICK c \in tops :
          req' = [req EXCEPT ![s] = [pc |-> "climbing", mark |-> c, place |-> l, more |-> tops \ {c}]]
    BY <1>3 DEF FetchTree, Becomes
  <2>2. PICK v : v = [pc |-> "climbing", mark |-> c, place |-> l, more |-> tops \ {c}]
    OBVIOUS
  <2>3. TreeRequest(v) /\ {v.mark} \cup v.more = tops
    BY <1>3, <2>2 DEF TreeRequest
  <2> QED BY <2>1, <2>2, <2>3
<1>5. /\ DOMAIN req' = Sessions /\ req'[s] = v
      /\ \A r \in Sessions \ {s} : req'[r] = req[r]
      /\ \A r \in Sessions : TreeRequest(req'[r])
  BY <1>4, OneRequest
<1>6. \A p : ~Growing(s, p)
  BY DEF FetchTree, Arrives, Idle, Growing
<1>7. \A p : Growing(s, p)' <=> \E t \in tops : Pallet(t) = p
  BY <1>4, <1>5 DEF Growing
<1>8. ASSUME NEW d \in Marks, Pallet(d) \notin mixedUp' PROVE CodeInv(d)'
  <2>1. CodeInv(d)
    BY <1>1, <1>8 DEF CodesInv
  <2>2. CASE ~Growing(s, Pallet(d))'
    <3>1. \A r \in Sessions : BuildsOn(r, d)
      BY <1>5, <1>6, <2>2, OthersBuildOn DEF BuildsOn
    <3> QED BY <1>1, <2>1, <3>1, UntouchedCode
  <2>3. CASE Growing(s, Pallet(d))'
    <3>1. PICK p \in Marks : p = Pallet(d)
      BY OwnPallet
    <3>2. PICK t \in tops : Pallet(t) = p
      BY <1>7, <2>3, <3>1
    <3>3. ~Crowded(s, p)
      BY <1>3, <1>8, <3>1, <3>2 DEF FetchTree
    <3>4. \A r \in Sessions : ~Growing(r, p)
      BY <1>6, <3>3 DEF Crowded
    <3>5. \A r \in Sessions \ {s} : ~Growing(r, p)'
      BY <1>5, <3>4 DEF Growing
    <3>6. t \in Marks /\ CodeInv(t)
      BY <1>1, <1>3, <1>8, <3>1, <3>2 DEF CodesInv
    <3>7. lies[t] = l
      BY <1>3, <3>2, <3>4, <3>6 DEF CodeInv, AtRest
    <3>8. lies[d] = l
      BY <2>1, <3>1, <3>2, <3>6, <3>7 DEF CodeInv
    <3>9. d \in Stored => mark[d].at = l
      BY <2>1, <3>1, <3>4, <3>8 DEF CodeInv, AtRest
    <3>10. d \in Stored' <=> d \in Stored
      BY <1>1 DEF Stored
    <3>11. \A r \in Sessions : Stamping(r, d)'
      BY <1>1, <1>4, <1>5, <3>1, <3>5, <3>8, <3>9, <3>10 DEF Stamping
    <3>12. (lies[d] = lies[Pallet(d)])'
      BY <1>1, <2>1 DEF CodeInv
    <3> QED BY <2>3, <3>1, <3>5, <3>11, <3>12 DEF CodeInv, OneBuilds, AtRest
  <2> QED BY <2>2, <2>3
<1>9. DOMAIN lies' = Marks
  BY <1>1 DEF CodesInv
<1> QED BY <1>2, <1>5, <1>8, <1>9 DEF CodesInv

LEMMA ClimbKeepsCodes ==
    ASSUME MarksTyped, CodesInv, NEW s \in Sessions, Climb(s)
    PROVE  MarksTyped' /\ CodesInv'
<1>1. mark' = mark /\ lies' = lies /\ mixedUp' = mixedUp
  BY DEF Climb, markVars
<1>2. MarksTyped'
  BY <1>1 DEF MarksTyped, Stored
<1>3. PICK q : q = req[s] /\ q.pc = "climbing" /\ TreeRequest(q)
  BY DEF Climb, CodesInv
<1>4. PICK v : /\ TreeRequest(v) /\ req' = [req EXCEPT ![s] = v]
               /\ v.pc = "growing" /\ v.mark = q.mark /\ v.place = q.place /\ v.more = q.more
               /\ v.seen = mark
  <2>1. PICK answered \in Answers :
          req' = [req EXCEPT ![s] =
                    [pc |-> "growing", mark |-> q.mark, place |-> q.place, more |-> q.more,
                     root |-> RootFrom(q.mark, answered),
                     tree |-> TreeFrom(RootFrom(q.mark, answered), answered), seen |-> mark]]
    BY <1>3 DEF Climb, Becomes
  <2>2. PICK root \in Marks : root = RootFrom(q.mark, answered) /\ Pallet(root) = Pallet(q.mark)
    BY <1>3, RootInPallet DEF TreeRequest
  <2>3. PICK tree : tree = TreeFrom(root, answered) /\ tree \in SUBSET Whole(Pallet(q.mark))
    BY <2>2, TreeInPallet
  <2>4. PICK v : v = [pc |-> "growing", mark |-> q.mark, place |-> q.place, more |-> q.more,
                      root |-> root, tree |-> tree, seen |-> mark]
    OBVIOUS
  <2>5. TreeRequest(v)
    BY <1>3, <2>3, <2>4 DEF TreeRequest
  <2>6. req' = [req EXCEPT ![s] = v]
    BY <2>1, <2>2, <2>3, <2>4
  <2>7. /\ v.pc = "growing" /\ v.mark = q.mark /\ v.place = q.place /\ v.more = q.more
        /\ v.seen = mark
    BY <2>4
  <2> QED BY <2>5, <2>6, <2>7
<1>5. /\ DOMAIN req' = Sessions /\ req'[s] = v
      /\ \A r \in Sessions \ {s} : req'[r] = req[r]
      /\ \A r \in Sessions : TreeRequest(req'[r])
  BY <1>4, OneRequest
<1>6. ASSUME NEW d \in Marks, Pallet(d) \notin mixedUp' PROVE CodeInv(d)'
  <2>1. CodeInv(d)
    BY <1>1, <1>6 DEF CodesInv
  <2>2. Growing(s, Pallet(d))' <=> Growing(s, Pallet(d))
    BY <1>3, <1>4, <1>5 DEF Growing
  <2>3. BuildsOn(s, d)
    BY <1>3, <1>4, <1>5, <2>2 DEF BuildsOn
  <2>4. \A r \in Sessions : BuildsOn(r, d)
    BY <1>5, <2>3, OthersBuildOn
  <2> QED BY <1>1, <2>1, <2>4, UntouchedCode
<1>7. DOMAIN lies' = Marks
  BY <1>1 DEF CodesInv
<1> QED BY <1>2, <1>5, <1>6, <1>7 DEF CodesInv

LEMMA GrowKeepsCodes ==
    ASSUME MarksTyped, CodesInv, NEW s \in Sessions, Grow(s)
    PROVE  MarksTyped' /\ CodesInv'
<1>1. PICK q : q = req[s] /\ q.pc = "growing" /\ TreeRequest(q)
  BY DEF Grow, CodesInv
<1>2. PICK p \in Marks : p = Pallet(q.mark) /\ q.tree \in SUBSET Whole(p)
  BY <1>1, OwnPallet DEF TreeRequest
<1>3. q.place \in Places /\ q.more \in SUBSET Marks /\ q.mark \in Marks
  BY <1>1 DEF TreeRequest
<1>4. DOMAIN mark' = Marks /\ mark' = [c \in Marks |-> mark'[c]]
  BY DEF Grow
<1>5. \A c \in Marks \ q.tree : mark'[c] = mark[c]
  BY <1>1 DEF Grow
<1>6. ASSUME NEW c \in Marks, c \in q.tree
      PROVE  /\ mark'[c] \in MarkRow /\ mark'[c].known
             /\ mark'[c].parent \in {NoMark, Above[c]}
             /\ q.seen[c] = mark[c] => mark'[c].at = q.place
  <2>1. PICK parent : parent = [e \in q.tree |-> IF e = q.root THEN NoMark ELSE Above[e]]
    OBVIOUS
  <2>2. parent[c] \in {NoMark, Above[c]}
    BY <1>6, <2>1
  <2>3. mark'[c] =
          IF ~q.seen[c].known THEN [known |-> TRUE, parent |-> parent[c], at |-> q.place]
          ELSE [known |-> TRUE,
                parent |-> Differing(mark[c].parent, q.seen[c].parent, parent[c]),
                at |-> Differing(mark[c].at, q.seen[c].at, q.place)]
    BY <1>1, <1>6, <2>1 DEF Grow
  <2>4. mark[c] \in MarkRow /\ mark[c].parent \in {NoMark, Above[c]}
    BY DEF MarksTyped
  <2>5. Above[c] \in Marks \cup {NoMark}
    BY UpInMarks
  <2>6. CASE ~q.seen[c].known
    <3>1. mark'[c] = [known |-> TRUE, parent |-> parent[c], at |-> q.place]
      BY <2>3, <2>6
    <3> QED BY <1>3, <2>2, <2>5, <3>1 DEF MarkRow
  <2>7. CASE q.seen[c].known
    <3>1. PICK a : a = Differing(mark[c].at, q.seen[c].at, q.place)
      OBVIOUS
    <3>2. PICK u : u = Differing(mark[c].parent, q.seen[c].parent, parent[c])
      OBVIOUS
    <3>3. mark'[c] = [known |-> TRUE, parent |-> u, at |-> a]
      BY <2>3, <2>7, <3>1, <3>2
    <3>4. a \in {mark[c].at, q.place} /\ (q.seen[c] = mark[c] => a = q.place)
      BY <3>1 DEF Differing
    <3>5. u \in {NoMark, Above[c]}
      BY <2>2, <2>4, <3>2 DEF Differing
    <3>6. mark'[c].known /\ mark'[c].parent = u /\ mark'[c].at = a
      BY <3>3
    <3>7. mark'[c] \in MarkRow
      BY <1>3, <2>4, <2>5, <3>3, <3>4, <3>5 DEF MarkRow
    <3> QED BY <3>4, <3>5, <3>6, <3>7
  <2> QED BY <2>6, <2>7
<1>7. MarksTyped'
  <2>1. \A c \in Marks : mark'[c] \in MarkRow
    BY <1>5, <1>6 DEF MarksTyped
  <2>2. mark' \in [Marks -> MarkRow]
    BY <1>4, <2>1
  <2>3. \A c \in Marks : mark'[c].parent \in {NoMark, Above[c]}
    BY <1>5, <1>6 DEF MarksTyped
  <2>4. \A c \in Marks : c \notin Stored' => c \notin q.tree /\ c \notin Stored
    BY <1>5, <1>6 DEF Stored
  <2>5. \A c \in Marks \ Stored' : mark'[c].at = NoPlace
    BY <1>5, <2>4 DEF MarksTyped
  <2> QED BY <2>2, <2>3, <2>5 DEF MarksTyped
<1>8. PICK v : /\ TreeRequest(v) /\ req' = [req EXCEPT ![s] = v]
               /\ v.pc \in {"idle", "climbing"}
               /\ IF q.more = {} THEN v.pc = "idle"
                  ELSE v.pc = "climbing" /\ v.place = q.place /\ {v.mark} \cup v.more = q.more
  <2>1. CASE q.more = {}
    <3>1. PICK v : v = Idle
      OBVIOUS
    <3>2. req' = [req EXCEPT ![s] = v]
      BY <1>1, <2>1, <3>1 DEF Grow, Ends, Becomes
    <3>3. TreeRequest(v) /\ v.pc = "idle"
      BY <3>1 DEF TreeRequest, Idle
    <3> QED BY <2>1, <3>2, <3>3
  <2>2. CASE q.more # {}
    <3>1. PICK c \in q.more :
            req' = [req EXCEPT ![s] = [pc |-> "climbing", mark |-> c, place |-> q.place,
                                       more |-> q.more \ {c}]]
      BY <1>1, <2>2 DEF Grow, Becomes
    <3>2. PICK v : v = [pc |-> "climbing", mark |-> c, place |-> q.place, more |-> q.more \ {c}]
      OBVIOUS
    <3>3. TreeRequest(v) /\ v.pc = "climbing" /\ v.place = q.place /\ {v.mark} \cup v.more = q.more
      BY <1>3, <3>2 DEF TreeRequest
    <3>4. req' = [req EXCEPT ![s] = v]
      BY <3>1, <3>2
    <3> QED BY <2>2, <3>3, <3>4
  <2> QED BY <2>1, <2>2
<1>9. /\ DOMAIN req' = Sessions /\ req'[s] = v
      /\ \A r \in Sessions \ {s} : req'[r] = req[r]
      /\ \A r \in Sessions : TreeRequest(req'[r])
  BY <1>8, OneRequest
<1>10. lies' = lies /\ mixedUp \subseteq mixedUp'
  BY DEF Grow
<1>11. ASSUME NEW d \in Marks, Pallet(d) \notin mixedUp' PROVE CodeInv(d)'
  <2>1. CodeInv(d)
    BY <1>10, <1>11 DEF CodesInv
  <2>2. CASE Pallet(d) # p
    <3>1. \A e \in Whole(Pallet(d)) : mark'[e] = mark[e] /\ lies'[e] = lies[e]
      BY <1>2, <1>5, <1>10, <2>2 DEF Whole
    <3>2. Growing(s, Pallet(d)) <=> \E c \in q.more : Pallet(c) = Pallet(d)
      BY <1>1, <1>2, <2>2 DEF Growing
    <3>3. Growing(s, Pallet(d))' <=> \E c \in q.more : Pallet(c) = Pallet(d)
      BY <1>8, <1>9 DEF Growing
    <3>4. Growing(s, Pallet(d))' => v.pc = "climbing" /\ v.place = q.place
      BY <1>8, <3>3
    <3>5. BuildsOn(s, d)
      BY <1>1, <1>2, <1>9, <2>2, <3>2, <3>3, <3>4 DEF BuildsOn
    <3>6. \A r \in Sessions : BuildsOn(r, d)
      BY <1>9, <3>5, OthersBuildOn
    <3> QED BY <2>1, <3>1, <3>6, UntouchedCode
  <2>3. CASE Pallet(d) = p
    <3>1. Growing(s, p)
      BY <1>1, <1>2 DEF Growing
    <3>2. \A r \in Sessions \ {s} : ~Growing(r, p)
      BY <2>1, <2>3, <3>1 DEF CodeInv, OneBuilds
    <3>3. \A r \in Sessions \ {s} : ~Growing(r, p)'
      BY <1>9, <3>2 DEF Growing
    <3>4. /\ lies[d] = q.place /\ q.seen[d] = mark[d]
          /\ d \in Stored /\ Linked(p) => mark[d].at = q.place
      BY <1>1, <1>2, <2>1, <2>3, <3>1 DEF CodeInv, Stamping
    <3>5. d \in Stored' => mark'[d].at = q.place
      <4>1. CASE d \in q.tree
        BY <1>6, <3>4, <4>1
      <4>2. CASE d \notin q.tree
        <5>1. d \in Stored' <=> d \in Stored
          BY <1>5, <4>2 DEF Stored
        <5>2. d \in Stored => Linked(p)
          <6>1. d \in Whole(p)
            BY <2>3 DEF Whole
          <6>2. d \in Stored => ~(Stored \cap Whole(p) \subseteq q.tree)
            BY <4>2, <6>1
          <6>3. d \in Stored => mixedUp' = mixedUp \cup {o \in {p} : ~Linked(o)}
            BY <1>1, <1>2, <6>2 DEF Grow
          <6> QED BY <1>11, <2>3, <6>3
        <5> QED BY <1>5, <3>4, <4>2, <5>1, <5>2
      <4> QED BY <4>1, <4>2
    <3>6. (lies[d] = lies[Pallet(d)])' /\ lies'[d] = q.place
      BY <1>10, <2>1, <3>4 DEF CodeInv
    <3>7. Growing(s, p)' => v.pc = "climbing" /\ v.place = q.place
      BY <1>8, <1>9 DEF Growing
    <3>8. \A r \in Sessions : Stamping(r, d)'
      BY <1>9, <2>3, <3>3, <3>5, <3>6, <3>7 DEF Stamping
    <3> QED BY <2>3, <3>3, <3>5, <3>6, <3>8 DEF CodeInv, OneBuilds, AtRest
  <2> QED BY <2>2, <2>3
<1>12. DOMAIN lies' = Marks
  BY <1>10 DEF CodesInv
<1> QED BY <1>7, <1>9, <1>11, <1>12 DEF CodesInv

LEMMA GrowFailsKeepsCodes ==
    ASSUME MarksTyped, CodesInv, NEW s \in Sessions, GrowFails(s)
    PROVE  MarksTyped' /\ CodesInv'
<1>1. PICK q : q = req[s] /\ q.pc \in {"climbing", "growing"}
  BY DEF GrowFails
<1>2. PICK p : p = Pallet(q.mark)
  OBVIOUS
<1>3. mark' = mark /\ lies' = lies /\ mixedUp' = mixedUp \cup {o \in {p} : ~Linked(o)}
  BY <1>1, <1>2 DEF GrowFails
<1>4. MarksTyped'
  BY <1>3 DEF MarksTyped, Stored
<1>5. PICK v : v = Idle /\ TreeRequest(v) /\ req' = [req EXCEPT ![s] = v]
  BY DEF GrowFails, Ends, Becomes, Idle, TreeRequest
<1>6. /\ DOMAIN req' = Sessions /\ req'[s] = v
      /\ \A r \in Sessions \ {s} : req'[r] = req[r]
      /\ \A r \in Sessions : TreeRequest(req'[r])
  BY <1>5, OneRequest
<1>7. \A o : ~Growing(s, o)'
  BY <1>5, <1>6 DEF Growing, Idle
<1>8. ASSUME NEW d \in Marks, Pallet(d) \notin mixedUp' PROVE CodeInv(d)'
  <2>1. CodeInv(d)
    BY <1>3, <1>8 DEF CodesInv
  <2>2. CASE ~Growing(s, Pallet(d))
    <3>1. \A r \in Sessions : BuildsOn(r, d)
      BY <1>6, <1>7, <2>2, OthersBuildOn DEF BuildsOn
    <3> QED BY <1>3, <2>1, <3>1, UntouchedCode
  <2>3. CASE Growing(s, Pallet(d))
    <3>1. \A r \in Sessions : ~Growing(r, Pallet(d))'
      <4>1. \A r \in Sessions \ {s} : ~Growing(r, Pallet(d))
        BY <2>1, <2>3 DEF CodeInv, OneBuilds
      <4> QED BY <1>6, <1>7, <4>1 DEF Growing
    <3>2. Pallet(d) = p => Linked(p)
      BY <1>3, <1>8
    <3>3. lies[d] = q.place /\ (d \in Stored => mark[d].at = q.place)
      BY <1>1, <1>2, <2>1, <2>3, <3>2 DEF CodeInv, Stamping
    <3>4. d \in Stored' => mark'[d].at = lies'[d]
      BY <1>3, <3>3 DEF Stored
    <3>5. (lies[d] = lies[Pallet(d)])'
      BY <1>3, <2>1 DEF CodeInv
    <3> QED BY <3>1, <3>4, <3>5 DEF CodeInv, OneBuilds, AtRest, Stamping
  <2> QED BY <2>2, <2>3
<1>9. DOMAIN lies' = Marks
  BY <1>3 DEF CodesInv
<1> QED BY <1>4, <1>6, <1>8, <1>9 DEF CodesInv

LEMMA TreeStep == TreeInv /\ [Next]_vars => TreeInv'
<1> SUFFICES ASSUME TreeInv, [Next]_vars PROVE TreeInv'
  OBVIOUS
<1>1. ASSUME UNCHANGED <<mark, lies, mixedUp, desk>>, desk # "codes" \/ req' = req
      PROVE  TreeInv'
  <2>1. MarksTyped' /\ Stored' = Stored
    BY <1>1 DEF TreeInv, MarksTyped, Stored
  <2>2. CASE desk # "codes"
    BY <1>1, <2>1, <2>2 DEF TreeInv
  <2>3. CASE desk = "codes"
    <3>1. CodesInv /\ req' = req
      BY <1>1, <2>3 DEF TreeInv
    <3>2. \A p : Linked(p)' <=> Linked(p)
      BY <1>1, <2>1 DEF Linked
    <3>3. \A s, p : Growing(s, p)' <=> Growing(s, p)
      BY <3>1 DEF Growing
    <3>4. ASSUME NEW c \in Marks, CodeInv(c) PROVE CodeInv(c)'
      <4>1. \A s \in Sessions : BuildsOn(s, c)
        BY <3>1, OthersBuildOn
      <4> QED BY <1>1, <3>4, <4>1, UntouchedCode
    <3>5. CodesInv'
      BY <1>1, <3>1, <3>4 DEF CodesInv
    <3> QED BY <1>1, <2>1, <2>3, <3>5 DEF TreeInv
  <2> QED BY <2>2, <2>3
<1>2. CASE Connectors \/ Logins \/ Scans \/ Displays
  BY <1>1, <1>2 DEF Connectors, Logins, Scans, Displays, markVars
<1>3. CASE UNCHANGED vars
  BY <1>1, <1>3 DEF vars, markVars
<1>4. CASE Codes
  <2>1. MarksTyped /\ CodesInv /\ desk = "codes" /\ desk' = desk
    BY <1>4 DEF Codes, TreeInv
  <2>2. PICK s \in Sessions : Label(s)
    BY <1>4 DEF Codes
  <2>3. MarksTyped' /\ CodesInv'
    BY <2>1, <2>2, ReceiveKeepsCodes, PlaceKeepsCodes, FetchTreeKeepsCodes, ClimbKeepsCodes,
       GrowKeepsCodes, GrowFailsKeepsCodes DEF Label
  <2> QED BY <2>1, <2>3 DEF TreeInv
<1> QED BY <1>2, <1>3, <1>4 DEF Next

(* A pallet's codes are stamped with the place the goods lie at, whatever  *)
(* the registry answers and however receipts, putaways and fetches of      *)
(* trees overlap, as long as what overlapped was not the same pallet       *)
(* (confirm_putaway, build_code_tree, fetch_location_code_tree).           *)
THEOREM CodesSayWhereTheyLie == Spec => []CodesAreWhereTheyLie
<1>1. TreeInv => CodesAreWhereTheyLie
  BY DEF TreeInv, CodesInv, CodeInv, AtRest, CodesAreWhereTheyLie, Stored
<1> QED BY <1>1, TreeStart, TreeStep, PTL DEF Spec

-----------------------------------------------------------------------------
(* The goods of a code *)

(* The levels below a code, one after the other. *)
LEMMA LevelsBelow ==
    ASSUME NEW c \in Marks
    PROVE  /\ Below(c, 1) = Children({c})
           /\ \A n \in 2..LevelsDown : Below(c, n) = Children(Below(c, n - 1))
<1>1. PICK X : X = SUBSET Marks
  OBVIOUS
<1>2. PICK Step \in [X -> X] : Step = [codes \in X |-> Children(codes)]
  BY <1>1 DEF Children, Stored
<1>3. LevelsDown \in Nat /\ LevelsDown >= 1
  BY ResolutionAssumption DEF ResolutionAssumption
<1>4. Children({c}) \in X
  BY <1>1 DEF Children, Stored
<1>5. PICK first \in X : first = Children({c})
  BY <1>4
<1>6. PICK g : Iterated(g, Step, first, X, LevelsDown)
  BY <1>3, <1>5, Iterates
<1> DEFINE Nested(level) == level = [n \in 1..(LevelsDown + 1) |->
                              IF n = 1 THEN Children({c}) ELSE Children(level[n - 1])]
           L == CHOOSE level : Nested(level)
<1>7. PICK h : h = [n \in 1..(LevelsDown + 1) |-> g[n - 1]]
  OBVIOUS
<1>8. Nested(h)
  <2>1. h[1] = Children({c})
    BY <1>3, <1>5, <1>6, <1>7 DEF Iterated
  <2>2. ASSUME NEW n \in 1..(LevelsDown + 1), n # 1 PROVE h[n] = Children(h[n - 1])
    <3>1. n - 1 \in 1..LevelsDown /\ n - 1 \in 1..(LevelsDown + 1) /\ (n - 1) - 1 \in 0..LevelsDown
      BY <1>3, <2>2
    <3>2. h[n] = g[n - 1] /\ h[n - 1] = g[(n - 1) - 1]
      BY <1>7, <3>1
    <3>3. g[n - 1] = Step[g[(n - 1) - 1]] /\ g[(n - 1) - 1] \in X
      BY <1>6, <3>1 DEF Iterated
    <3> QED BY <1>2, <3>2, <3>3
  <2>3. h = [n \in 1..(LevelsDown + 1) |-> h[n]]
    BY <1>7
  <2> QED BY <2>1, <2>2, <2>3
<1>9. Nested(L)
  BY <1>8
<1>10. \A n : Below(c, n) = L[n]
  BY DEF Below
<1> HIDE DEF L
<1>11. L[1] = Children({c})
  BY <1>3, <1>9
<1>12. \A n \in 2..LevelsDown : L[n] = Children(L[n - 1])
  <2>1. \A n \in 2..LevelsDown : n \in 1..(LevelsDown + 1) /\ n # 1
    BY <1>3
  <2> QED BY <1>9, <2>1
<1> QED BY <1>10, <1>11, <1>12

(* The stored children of a code are packed in it. *)
LEMMA ChildrenArePacked ==
    ASSUME MarksTyped, NEW codes \in SUBSET Marks, NEW d \in Children(codes)
    PROVE  d \in Marks /\ Above[d] \in codes /\ mark[d].parent = Above[d]
BY MarkingAssumption DEF MarkingAssumption, MarksTyped, Children, Stored

LEMMA BelowIsInside ==
    ASSUME MarksTyped, NEW c \in Marks
    PROVE  \A n \in 1..LevelsDown : Below(c, n) \subseteq Inside(c)
<1>1. c \in Inside(c) /\ Inside(c) \in SUBSET Marks
  BY TreeInPallet DEF Inside, Whole
<1>2. ASSUME NEW codes \in SUBSET Inside(c) PROVE Children(codes) \subseteq Inside(c)
  <2>1. codes \in SUBSET Marks
    BY <1>1
  <2> QED BY <2>1, ChildrenArePacked, InsideIsClosed
<1>3. LevelsDown \in Nat /\ LevelsDown >= 1
  BY ResolutionAssumption DEF ResolutionAssumption
<1> DEFINE G == {n \in 0..LevelsDown : n = 0 \/ Below(c, n) \subseteq Inside(c)}
<1>4. 0 \in G
  BY <1>3
<1>5. ASSUME NEW n \in 1..LevelsDown, n - 1 \in G PROVE n \in G
  <2>1. CASE n = 1
    <3>1. {c} \in SUBSET Inside(c)
      BY <1>1
    <3>2. Below(c, 1) \subseteq Inside(c)
      BY <1>2, <3>1, LevelsBelow
    <3> QED BY <1>3, <2>1, <3>2
  <2>2. CASE n # 1
    <3>1. n \in 2..LevelsDown /\ n - 1 # 0 /\ Below(c, n - 1) \in SUBSET Inside(c)
      BY <1>3, <1>5, <2>2
    <3>2. PICK codes \in SUBSET Inside(c) : codes = Below(c, n - 1)
      BY <3>1
    <3>3. Below(c, n) = Children(codes)
      BY <3>1, <3>2, LevelsBelow
    <3> QED BY <1>2, <3>2, <3>3
  <2> QED BY <2>1, <2>2
<1>6. \A n \in 0..LevelsDown : n \in G
  <2> HIDE DEF G
  <2> QED BY <1>3, <1>4, <1>5, GrowingNumbers
<1> QED BY <1>3, <1>6

(* A scanned pallet counts as the boxes packed in it and is taken for      *)
(* their goods once its tree is stored, and before never for more boxes or *)
(* for other goods (resolve_scanned_code, _compute_counts).                *)
THEOREM PalletsCountAsPacked == Spec => []CountedAsPacked
<1>1. MarksTyped => CountedAsPacked
  <2> SUFFICES ASSUME MarksTyped, NEW c \in Marks, GoodsRead[c] = NoGoods,
                      NEW packed, packed = {d \in Marks : Above[d] = c},
                      NEW whole \in BOOLEAN,
                      whole <=> packed \subseteq Stored /\ Linked(Pallet(c))
               PROVE  /\ BoxCount(c) <= Counted(packed)
                      /\ ResolvedGoods(c) \subseteq GoodsOf(Inside(c)) \cup {NoGoods}
                      /\ whole => BoxCount(c) = Counted(packed)
                      /\ whole /\ GoodsOf(packed) # {} => ResolvedGoods(c) = GoodsOf(packed)
    BY DEF CountedAsPacked
  <2>1. BoxCount(c) = Counted(Children({c}))
    BY DEF BoxCount
  <2>2. Children({c}) \subseteq packed
    BY ChildrenArePacked
  <2>3. LevelsDown \in Nat /\ 1 \in 1..LevelsDown
    BY ResolutionAssumption DEF ResolutionAssumption
  <2>4. PICK with : with = {n \in 1..LevelsDown : GoodsOf(Below(c, n)) # {}}
    OBVIOUS
  <2>5. ResolvedGoods(c) = IF with = {} THEN {NoGoods}
                           ELSE GoodsOf(Below(c, CHOOSE n \in with : \A m \in with : n <= m))
    BY <2>4 DEF ResolvedGoods
  <2>6. with # {} => \E n \in with : \A m \in with : n <= m
    BY <2>3, <2>4, Smallest
  <2>7. BoxCount(c) <= Counted(packed)
    <3>1. packed \in SUBSET Marks /\ IsFiniteSet(packed)
      BY MarkingAssumption, FS_Subset DEF MarkingAssumption
    <3>2. IsFiniteSet(Children({c})) /\ Cardinality(Children({c})) <= Cardinality(packed)
      BY <2>2, <3>1, FS_Subset
    <3>3. /\ Cardinality(packed) \in Nat /\ Cardinality(Children({c})) \in Nat
          /\ packed # {} => Cardinality(packed) >= 1
      BY <3>1, <3>2, FS_CardinalityType, FS_EmptySet
    <3> QED BY <2>1, <2>2, <3>2, <3>3 DEF Counted
  <2>8. ResolvedGoods(c) \subseteq GoodsOf(Inside(c)) \cup {NoGoods}
    <3>1. CASE with = {}
      BY <2>5, <3>1
    <3>2. CASE with # {}
      <4>1. PICK n \in with : ResolvedGoods(c) = GoodsOf(Below(c, n))
        BY <2>5, <2>6, <3>2
      <4>2. Below(c, n) \subseteq Inside(c)
        BY <2>4, BelowIsInside
      <4> QED BY <4>1, <4>2 DEF GoodsOf
    <3> QED BY <3>1, <3>2
  <2>9. whole => Children({c}) = packed
    <3> SUFFICES ASSUME whole, NEW d \in packed PROVE d \in Children({c})
      BY <2>2
    <3>1. d \in Marks /\ Above[d] = c /\ Above[d] # NoMark /\ d \in Stored
      BY MarkingAssumption DEF MarkingAssumption
    <3>2. Pallet(d) = Pallet(c)
      BY <3>1, PalletOfPart
    <3>3. d \in Whole(Pallet(c)) /\ d # Pallet(c)
      BY <3>1, <3>2, PalletIsTop DEF Whole
    <3>4. mark[d].parent = c
      BY <3>1, <3>3 DEF Linked
    <3> QED BY <3>1, <3>4 DEF Children
  <2>10. ASSUME whole, GoodsOf(packed) # {} PROVE ResolvedGoods(c) = GoodsOf(packed)
    <3>1. Below(c, 1) = packed
      BY <2>9, <2>10, LevelsBelow
    <3>2. 1 \in with /\ \A m \in with : m \in Nat /\ m >= 1
      BY <2>3, <2>4, <2>10, <3>1
    <3>3. (CHOOSE n \in with : \A m \in with : n <= m) = 1
      BY <2>6, <3>2
    <3> QED BY <2>5, <3>1, <3>2, <3>3
  <2> QED BY <2>1, <2>7, <2>8, <2>9, <2>10
<1>2. TreeInv => CountedAsPacked
  BY <1>1 DEF TreeInv
<1> QED BY <1>2, TreeStart, TreeStep, PTL DEF Spec
=============================================================================
