---------------------------- MODULE PlayerSession ----------------------------
(***************************************************************************)
(* How one player comes online and goes away: the accept coroutines of the *)
(* login master, the gate's login, afk, close and doAuth, and the calls    *)
(* they make to the agent pool and through it to the player's agent.       *)
(*                                                                         *)
(* A thread is a chain of synchronous calls, and a step is what one of its *)
(* services does between two yields.  Accept threads start in the login    *)
(* master, Request threads are client requests to go afk (reqAfk) that     *)
(* the agent turns into a message to the gate, and an Fd thread is the     *)
(* gate's handling of one client socket.  at[t] is the call t is in and    *)
(* how far it is.                                                          *)
(*                                                                         *)
(* The gate serves the player's calls through its queue for the uid, the   *)
(* pool through the queue of the player's cell (SqTable).  The login node  *)
(* talks to the gate over one connection, so its calls arrive in order;    *)
(* answers, and the gate's own calls to the login master, travel apart     *)
(* from them.                                                              *)
(***************************************************************************)
EXTENDS Naturals, Sequences, FiniteSets

CONSTANTS
    Accept,    \* accept coroutines of the login master for this player
    Request,   \* requests to go afk from the player's client
    Fd,        \* client connections to the gate
    NoFd,      \* u.fd = 0: not connected yet
    NilFd      \* u.fd = nil: gone afk

VARIABLES
    userOnline,     \* login master: the subid it has the player online with
    internalId,     \* gate: the last subid given
    uidMap,         \* gate: the subid of the player's session, if any
    usernameMap,    \* gate: the sessions that can be named (username = subid)
    ufd,            \* gate: u.fd of each session
    connectionMap,  \* gate: the session of each authenticated fd
    online,         \* agent pool: the cell's online flag, "false" in a new cell
    playerSubid,    \* agent: player.subid
    net,            \* calls on the way from the login node to the gate
    inbox,          \* the agent's message queue
    line, orphan,   \* the gate's queue for the uid, the cell's queue
    at,             \* where each thread is
    arg,            \* the subid argument of the call t is in
    u, fd,          \* the session and fd that the call took into locals
    ended           \* history: which afk ended which session

loginVars  == <<userOnline, net>>
gateVars   == <<internalId, uidMap, usernameMap, ufd, connectionMap, ended>>
agentVars  == <<online, playerSubid, inbox>>
sqVars     == <<line, orphan>>
localVars  == <<arg, u, fd>>
vars == <<loginVars, gateVars, agentVars, sqVars, at, localVars>>

Thread == Accept \cup Request \cup Fd
Subid  == 1..Cardinality(Accept)   \* each accept opens one session at most
None   == 0

Sq == INSTANCE SqTable WITH Key <- {"gate", "cell"}

Init ==
    /\ userOnline = None /\ internalId = 0
    /\ uidMap = None /\ usernameMap = {}
    /\ ufd = [s \in Subid |-> NoFd]
    /\ connectionMap = [d \in Fd |-> None]
    /\ online = "false" /\ playerSubid = None
    /\ net = <<>> /\ inbox = <<>>
    /\ Sq!SqInit
    /\ at = [t \in Thread |-> "idle"]
    /\ arg = [t \in Thread |-> None] /\ u = arg
    /\ fd = [t \in Thread |-> NoFd]
    /\ ended = {}

Goto(t, l) == at' = [at EXCEPT ![t] = l]

\* The calls that afk, a refused login and a disconnect make one after the
\* other: the login master's logout, then the pool's afk, which may call the
\* agent; and the call to the pool that a login makes.
Proceed(t) == Goto(t,
    [afkLogout   |-> "afkPool",      afkPool      |-> "afkCell",
     afkAgent    |-> "afkAnswer",    afkAnswer    |-> "afkClose",
     loginLogout |-> "loginPoolAfk", loginPoolAfk |-> "loginCellAfk",
     loginAgent  |-> "loginAnswer",  loginAnswer  |-> "loginClose",
     closeLogout |-> "closePool",    closePool    |-> "closeCell",
     closeAgent  |-> "closeAnswer",  closeAnswer  |-> "closeClose",
     loginPool   |-> "loginCell",    checkin      |-> "checkedIn",
     checkedIn   |-> "loginEnter"][at[t]])

\* t runs in the gate's queue and is at l.
InGate(t, l) == at[t] = l /\ Sq!Holds(t, "gate")

\* The function given to the gate's queue returns and delSq follows.
ExitDelSq(t) ==
    LET rest(s) == IF Len(s) > 1 THEN {Tail(s)} ELSE {}
    IN  /\ line' = [line EXCEPT !["gate"] = <<>>]
        /\ orphan' = [orphan EXCEPT !["gate"] =
              IF line["gate"] # <<>> /\ Head(line["gate"]) = t
              THEN @ \cup rest(line["gate"])
              ELSE LET q == CHOOSE q \in @ : Head(q) = t
                   IN  (@ \ {q}) \cup rest(q)
                         \cup (IF line["gate"] = <<>> THEN {} ELSE {line["gate"]})]

-----------------------------------------------------------------------------
(* loginMaster.accept and loginMaster.logout *)

\* accept, after auth: a player who is online is first sent away from the
\* gate with afk, flag 1; a player who is not is logged in at once.
AcceptRead(a) ==
    /\ a \in Accept /\ at[a] = "idle"
    /\ net' = Append(net, a)
    /\ arg' = [arg EXCEPT ![a] = userOnline]
    /\ Goto(a, IF userOnline # None THEN "afkSent" ELSE "loginSent")
    /\ UNCHANGED <<userOnline, gateVars, agentVars, sqVars, u, fd>>

\* The afk call came back, with an answer or with an error.
AcceptKicked(a) ==
    /\ a \in Accept /\ at[a] = "afkDone"
    /\ userOnline' = None
    /\ net' = Append(net, a)
    /\ Goto(a, "loginSent")
    /\ UNCHANGED <<gateVars, agentVars, sqVars, localVars>>

\* The gate's login answered a subid: remember it and tell the client.
AcceptOnline(a) ==
    /\ a \in Accept /\ at[a] = "loginDone"
    /\ userOnline' = arg[a]
    /\ Goto(a, "done")
    /\ UNCHANGED <<net, gateVars, agentVars, sqVars, localVars>>

\* A call of the login master reaches the gate, which queues it for the uid.
Arrive(a) ==
    /\ net # <<>> /\ Head(net) = a
    /\ net' = Tail(net)
    /\ Sq!Enter(a, "gate")
    /\ Goto(a, IF at[a] = "afkSent" THEN "afk" ELSE "login")
    /\ UNCHANGED <<userOnline, gateVars, agentVars, localVars>>

\* loginMaster.logout, called by the gate; it does not look at the subid.
MasterLogout(t) ==
    /\ at[t] \in {"afkLogout", "loginLogout", "closeLogout"}
    /\ userOnline' = None
    /\ Proceed(t)
    /\ UNCHANGED <<net, gateVars, agentVars, sqVars, localVars>>

-----------------------------------------------------------------------------
(* gateCenter *)

\* gateCenter.login up to its first call: a session that is still there is
\* taken down and this login fails; otherwise a new subid is taken.
LoginFirst(a) ==
    /\ InGate(a, "login")
    /\ \/ /\ uidMap # None
          /\ u' = [u EXCEPT ![a] = uidMap]
          /\ fd' = [fd EXCEPT ![a] = ufd[uidMap]]
          /\ uidMap' = None
          /\ usernameMap' = usernameMap \ {uidMap}
          /\ Goto(a, "loginLogout")
          /\ UNCHANGED <<internalId, arg>>
       \/ /\ uidMap = None
          /\ internalId' = internalId + 1
          /\ arg' = [arg EXCEPT ![a] = internalId']
          /\ Goto(a, "loginPool")
          /\ UNCHANGED <<uidMap, usernameMap, u, fd>>
    /\ UNCHANGED <<loginVars, ufd, connectionMap, ended, agentVars, sqVars>>

\* gateCenter.login after the pool's answer: the session is entered.
LoginEnter(a) ==
    /\ InGate(a, "loginEnter")
    /\ uidMap' = arg[a]
    /\ usernameMap' = usernameMap \cup {arg[a]}
    /\ Sq!Exit(a, "gate")
    /\ Goto(a, "loginDone")
    /\ UNCHANGED <<loginVars, internalId, ufd, connectionMap, ended, agentVars,
                   localVars>>

\* gateCenter.login fails: the pool gave no agent, or a session was there.
LoginFail(a) ==
    /\ InGate(a, "loginFail")
    /\ Sq!Exit(a, "gate")
    /\ Goto(a, "refused")
    /\ UNCHANGED <<loginVars, gateVars, agentVars, localVars>>

\* u and u.fd: the player has a session that has not gone afk.
HasSession == uidMap # None /\ ufd[uidMap] # NilFd

\* gateCenter.afk up to its first call.  u.fd = nil marks a session that has
\* gone afk.  An afk whose subid is larger than the session's takes both
\* usernames out and ends in an error, which skips delSq.
AfkFirst(t) ==
    /\ InGate(t, "afk")
    /\ \/ /\ HasSession
          /\ u' = [u EXCEPT ![t] = uidMap]
          /\ fd' = [fd EXCEPT ![t] = ufd[uidMap]]
          /\ ufd' = [ufd EXCEPT ![uidMap] = NilFd]
          /\ uidMap' = None
          /\ usernameMap' = usernameMap \
                (IF arg[t] > uidMap THEN {arg[t], uidMap} ELSE {arg[t]})
          /\ ended' = ended \cup {[by |-> arg[t], of |-> uidMap]}
          /\ Goto(t, "afkLogout")
          /\ UNCHANGED sqVars
       \/ /\ ~HasSession
          /\ ExitDelSq(t)
          /\ Goto(t, "afkDone")
          /\ UNCHANGED <<u, fd, ufd, uidMap, usernameMap, ended>>
    /\ UNCHANGED <<loginVars, internalId, connectionMap, agentVars, arg>>

\* close(fd, tag, true), the last thing that afk and a refused login do.  The
\* disconnectHandler it calls finds u.fd or the username gone and ignores it.
CloseInSq(t) ==
    /\ InGate(t, "afkClose") \/ InGate(t, "loginClose")
    /\ LET d == fd[t]
           l == IF at[t] = "loginClose" THEN "loginFail" ELSE "afkDone"
       IN  IF d \in Fd /\ connectionMap[d] # None
           THEN /\ connectionMap' = [connectionMap EXCEPT ![d] = None]
                /\ at' = [at EXCEPT ![d] = "closed", ![t] = l]
           ELSE /\ Goto(t, l)
                /\ UNCHANGED connectionMap
    /\ CASE at[t] = "loginClose" -> UNCHANGED sqVars
         [] at[t] = "afkClose" /\ arg[t] > u[t] -> Sq!Exit(t, "gate")
         [] OTHER -> ExitDelSq(t)
    /\ UNCHANGED <<loginVars, internalId, uidMap, usernameMap, ufd, ended,
                   agentVars, localVars>>

\* doAuth: a client that was told its subid shakes hands on a new fd, and
\* waits for the queue with the session it named.
Handshake(d, a) ==
    /\ d \in Fd /\ at[d] = "idle"
    /\ a \in Accept /\ at[a] = "done" /\ arg[a] \in usernameMap
    /\ u' = [u EXCEPT ![d] = arg[a]]
    /\ Sq!Enter(d, "gate")
    /\ Goto(d, "auth")
    /\ UNCHANGED <<loginVars, gateVars, agentVars, arg, fd>>

\* doAuth under the queue: the session gets the fd, or an index that is not
\* above u.version or a wrong hmac closes the connection.
Auth(d) ==
    /\ InGate(d, "auth")
    /\ \/ /\ ufd' = [ufd EXCEPT ![u[d]] = d]
          /\ connectionMap' = [connectionMap EXCEPT ![d] = u[d]]
          /\ Goto(d, "connected")
       \/ /\ Goto(d, "closed")
          /\ UNCHANGED <<ufd, connectionMap>>
    /\ Sq!Exit(d, "gate")
    /\ UNCHANGED <<loginVars, internalId, uidMap, usernameMap, ended, agentVars,
                   localVars>>

\* close(fd, tag): the socket of an authenticated client goes away.
Close(d) ==
    /\ d \in Fd /\ at[d] = "connected"
    /\ connectionMap' = [connectionMap EXCEPT ![d] = None]
    /\ Sq!Enter(d, "gate")
    /\ Goto(d, "close")
    /\ UNCHANGED <<loginVars, internalId, uidMap, usernameMap, ufd, ended,
                   agentVars, localVars>>

\* disconnectHandler up to its first call.
DisconnectFirst(d) ==
    /\ InGate(d, "close")
    /\ \/ /\ u[d] \in usernameMap /\ ufd[u[d]] = d
          /\ uidMap' = None
          /\ usernameMap' = usernameMap \ {u[d]}
          /\ Goto(d, "closeLogout")
          /\ UNCHANGED sqVars
       \/ /\ ~(u[d] \in usernameMap /\ ufd[u[d]] = d)
          /\ ExitDelSq(d)
          /\ Goto(d, "closed")
          /\ UNCHANGED <<uidMap, usernameMap>>
    /\ UNCHANGED <<loginVars, internalId, ufd, connectionMap, ended, agentVars,
                   localVars>>

\* disconnectHandler after the pool's afk.
DisconnectLast(d) ==
    /\ InGate(d, "closeClose")
    /\ ExitDelSq(d)
    /\ Goto(d, "closed")
    /\ UNCHANGED <<loginVars, gateVars, agentVars, localVars>>

-----------------------------------------------------------------------------
(* The agent pool, its cell of the player, and the agent *)

\* The gate calls the pool, which queues the call for the player's cell.
PoolCall(t) ==
    /\ at[t] \in {"afkPool", "loginPool", "loginPoolAfk", "closePool"}
    /\ \/ /\ Sq!Enter(t, "cell")
          /\ Proceed(t)
       \/ /\ at[t] = "loginPool"   \* startAgent brought up no agent
          /\ Goto(t, "loginFail")
          /\ UNCHANGED sqVars
    /\ UNCHANGED <<loginVars, gateVars, agentVars, localVars>>

\* agentPoolCell.afk; it does not look at the subid.
CellAfk(t) ==
    /\ at[t] \in {"afkCell", "loginCellAfk", "closeCell"} /\ Sq!Holds(t, "cell")
    /\ \/ /\ online # "nil"
          /\ online' = "nil"
          /\ inbox' = Append(inbox, t)
          /\ Goto(t, [afkCell |-> "afkAgent", loginCellAfk |-> "loginAgent",
                      closeCell |-> "closeAgent"][at[t]])
          /\ UNCHANGED sqVars
       \/ /\ online = "nil"
          /\ Sq!Exit(t, "cell")
          /\ Goto(t, [afkCell |-> "afkClose", loginCellAfk |-> "loginClose",
                      closeCell |-> "closeClose"][at[t]])
          /\ UNCHANGED <<online, inbox>>
    /\ UNCHANGED <<loginVars, gateVars, playerSubid, localVars>>

\* agentPoolCell.checkin calls the agent.  With one player in one kingdom its
\* test for another uid or kid in the cell finds none, and the cell is at work:
\* PoolCall took it on, and the frees that would end it are not modelled.
CellCheckin(a) ==
    /\ at[a] = "loginCell" /\ Sq!Holds(a, "cell")
    /\ inbox' = Append(inbox, a)
    /\ Goto(a, "checkin")
    /\ UNCHANGED <<loginVars, gateVars, online, playerSubid, sqVars, localVars>>

\* The client sends reqAfk on an authenticated fd; the gate redirects it.
ReqAfk(r, d) ==
    /\ r \in Request /\ at[r] = "idle"
    /\ connectionMap[d] # None
    /\ inbox' = Append(inbox, r)
    /\ Goto(r, "agent")
    /\ UNCHANGED <<loginVars, gateVars, online, playerSubid, sqVars, localVars>>

\* The agent takes its next message: reqAfk sends the gate an afk with the
\* player's subid, checkin sets the subid, afk leaves it.
Agent ==
    /\ inbox # <<>>
    /\ inbox' = Tail(inbox)
    /\ LET t == Head(inbox)
       IN  \/ /\ at[t] = "agent"
              /\ arg' = [arg EXCEPT ![t] = playerSubid]
              /\ Sq!Enter(t, "gate")
              /\ Goto(t, "afk")
              /\ UNCHANGED playerSubid
           \/ /\ at[t] = "checkin"
              /\ playerSubid' = arg[t]
              /\ Proceed(t)
              /\ UNCHANGED <<sqVars, arg>>
           \/ /\ at[t] \in {"afkAgent", "loginAgent", "closeAgent"}
              /\ Proceed(t)
              /\ UNCHANGED <<playerSubid, sqVars, arg>>
    /\ UNCHANGED <<loginVars, gateVars, online, u, fd>>

\* The agent's answer reaches the cell, whose function returns to the gate.
CellAnswer(t) ==
    /\ at[t] \in {"checkedIn", "afkAnswer", "loginAnswer", "closeAnswer"}
    /\ online' = IF at[t] = "checkedIn" THEN "true" ELSE online
    /\ Sq!Exit(t, "cell")
    /\ Proceed(t)
    /\ UNCHANGED <<loginVars, gateVars, playerSubid, inbox, localVars>>

-----------------------------------------------------------------------------
Next ==
    \/ \E t \in Thread :
          \/ AcceptRead(t) \/ AcceptKicked(t) \/ AcceptOnline(t) \/ Arrive(t)
          \/ MasterLogout(t) \/ LoginFirst(t) \/ LoginEnter(t) \/ LoginFail(t)
          \/ AfkFirst(t) \/ CloseInSq(t) \/ Auth(t) \/ Close(t)
          \/ DisconnectFirst(t) \/ DisconnectLast(t)
          \/ PoolCall(t) \/ CellAfk(t) \/ CellCheckin(t) \/ CellAnswer(t)
    \/ \E d \in Fd, a \in Accept : Handshake(d, a)
    \/ \E r \in Request, d \in Fd : ReqAfk(r, d)
    \/ Agent

Spec == Init /\ [][Next]_vars

-----------------------------------------------------------------------------
\* What gateCenter.afk says of its test on the subid: when the session's subid
\* is the larger one a new connection has been made, and the old afk must not
\* take the new connection away.
OldAfkHarmless ==
    \A e \in ended : e.of <= e.by
=============================================================================
