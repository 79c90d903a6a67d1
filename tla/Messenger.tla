------------------------------- MODULE Messenger -------------------------------
(***************************************************************************)
(* The messenger KP: clients and server over named pipes.                  *)
(*                                                                         *)
(* A pipe keeps the order of what is put into it and may lose messages, as *)
(* LossyPipe says of it; a put waits until the reader has the pipe open,   *)
(* which the server has when it is between two requests, and the client's  *)
(* receiver again and again as long as it lives (FifoPipe).                *)
(***************************************************************************)
EXTENDS ChatClient

CONSTANTS
  Lossy,        \* may a pipe lose messages?
  MaxInPipe     \* bound: messages in a pipe

ASSUME PipeAssumption == Lossy \in BOOLEAN /\ MaxInPipe \in Nat \ {0}

VARIABLES
  requests,     \* the contents of the server's pipe
  answers       \* those of the clients' pipes

pipeVars == <<requests, answers>>
vars == <<serverVars, clientVars, pipeVars>>

Init == /\ InitServer
        /\ InitClient
        /\ requests = <<>>
        /\ answers = [c \in Clients |-> <<>>]

Put(pipe, m) == {Append(pipe, m)} \cup (IF Lossy THEN {pipe} ELSE {})

\* What the list of chats can show a user: chats with a message in it.
Listed(c, cmd, name) ==
  LET u == client[c].login
  IN  \/ cmd = "join" /\ name \in DOMAIN groups /\ u \in groups[name].members
      \/ /\ cmd = "private" /\ ChatOf(u, name) # 0
         /\ privates[ChatOf(u, name)].messages # <<>>

User(c) ==
  /\ \/ \E l \in Logins : CmdLogin(c, l)
     \/ CmdLogout(c)
     \/ \E g \in GroupNames : CmdOpen(c, "join", g) \/ CmdOpen(c, "create", g)
     \/ \E l \in Logins : CmdOpen(c, "private", l)
     \/ CmdPush(c)
     \/ \E cmd \in {"join", "private"}, n \in GroupNames \cup Logins :
          Listed(c, cmd, n) /\ Choose(c, cmd, n)
     \/ BackToMenu(c)
  /\ UNCHANGED <<serverVars, pipeVars>>

UserExit(c) == Exit(c) /\ UNCHANGED <<inputs, patient, serverVars, pipeVars>>

Update(c) == UpdateChat(c) /\ UNCHANGED <<inputs, patient, serverVars, pipeVars>>

\* A thread's put_message returns.
Send(c, t) == /\ client[c][t] # NoRequest
              /\ pending = NoAnswer
              /\ Len(requests) < MaxInPipe
              /\ requests' \in Put(requests, client[c][t])
              /\ Sent(c, t)
              /\ UNCHANGED <<inputs, patient, serverVars, answers>>

Handle == /\ pending = NoAnswer
          /\ requests # <<>>
          /\ RequestHandler(Head(requests))
          /\ requests' = Tail(requests)
          /\ UNCHANGED <<clientVars, answers>>

\* The put of the answer waits for the client's receiver.
Respond == /\ pending # NoAnswer
           /\ client[pending.to].life = "on"
           /\ Len(answers[pending.to]) < MaxInPipe
           /\ \E q \in Put(answers[pending.to], pending) :
                answers' = [answers EXCEPT ![pending.to] = q]
           /\ pending' = NoAnswer
           /\ UNCHANGED <<users, authorized, groups, privates, counter, clientVars, requests>>

Receive(c) == /\ client[c].life = "on"
              /\ answers[c] # <<>>
              /\ AnswerHandler(c, Head(answers[c]))
              /\ answers' = [answers EXCEPT ![c] = Tail(@)]
              /\ UNCHANGED <<inputs, patient, serverVars, requests>>

Next == \/ Handle
        \/ Respond
        \/ \E c \in Clients : \/ User(c) \/ UserExit(c) \/ Update(c) \/ Receive(c)
                              \/ \E t \in Threads : Send(c, t)

Spec == Init /\ [][Next]_vars

\* Server, receivers and updaters are loops; a put that waits gets in when the
\* pipe is opened time and again (FifoPipe!PutsComplete).  Users do as they like.
Fairness == /\ WF_vars(Handle)
            /\ WF_vars(Respond)
            /\ \A c \in Clients : /\ WF_vars(Receive(c))
                                  /\ WF_vars(Update(c))
                                  /\ \A t \in Threads : SF_vars(Send(c, t))

FairSpec == Spec /\ Fairness

-----------------------------------------------------------------------------
(* Properties.                                                             *)

\* Everybody the server knows of has logged in before.  A member of a group is
\* announced in it once, at any number of joins, and nobody else is
\* (server.cpp:149-152, 173-178); and two users have one private chat, whoever
\* asked for it first (server.cpp:116-127).
ServerConsistent ==
  /\ authorized \subseteq users
  /\ \A g \in DOMAIN groups :
       /\ groups[g].members \subseteq users
       /\ \A u \in Logins :
            Cardinality({i \in DOMAIN groups[g].messages :
                           groups[g].messages[i].from = System /\ groups[g].messages[i].text = u})
              = IF u \in groups[g].members THEN 1 ELSE 0
  /\ \A i, j \in DOMAIN privates :
       {privates[i].user1, privates[i].user2} = {privates[j].user1, privates[j].user2} => i = j

\* The server never looks at the members of a group before it stores a message,
\* or at whether the user is logged in; still, with users who wait for their
\* answers, only members are heard in a group (server.cpp:250-262).
AuthorsAreMembers ==
  patient => \A g \in DOMAIN groups : \A i \in DOMAIN groups[g].messages :
               groups[g].messages[i].from \in groups[g].members \cup {System}

\* With users who wait for their answers, two clients are never logged in with
\* the same login (server.cpp:79-81, client.cpp:75-76).
LoggedIn(c) == client[c].state # "NotLogin"

OneClientPerLogin ==
  patient => \A c, d \in Clients :
               LoggedIn(c) /\ LoggedIn(d) /\ client[c].login = client[d].login => c = d

\* The messages of the chat a client is in.
OpenMessages(c) ==
  LET k == ChatOf(client[c].login, client[c].chat)
  IN  IF client[c].state = "InGroupChat" /\ client[c].chat \in DOMAIN groups
      THEN Ids(groups[client[c].chat].messages)
      ELSE IF client[c].state = "InPrivateChat" /\ k # 0 THEN Ids(privates[k].messages)
      ELSE {}

\* While a client is in the first chat it has opened, everything up to the
\* message it asks the next ones after is on the screen, whatever gets lost or
\* is asked for twice (server.cpp:233-244, client.cpp:186-194).
NothingSkipped ==
  \A c \in Clients :
    client[c].opened = 1 /\ client[c].state \in InChat =>
      \A n \in OpenMessages(c) : n <= client[c].last => n \in client[c].shown

\* With pipes that lose nothing, every message of that chat gets to the screen,
\* unless the user leaves the chat (messenger.cpp:114-127).
Unread(c, n) == client[c].opened = 1 /\ n \in OpenMessages(c) \ client[c].shown

MessagesReachReaders ==
  \A c \in Clients, n \in 1..MaxInputs : Unread(c, n) ~> ~Unread(c, n)

\* The help text for the command private says `log in to a personal chat with a
\* LOGIN user' (messenger.cpp:100): what is written there goes to that user, if
\* users wait for their answers.
PrivateReachesAddressee ==
  patient => \A i \in DOMAIN privates : \A j \in DOMAIN privates[i].messages :
    LET m == privates[i].messages[j]
    IN  {m.from, m.text[2]} = {privates[i].user1, privates[i].user2}

\* The help text says `F12 - exit' (messenger.cpp:94): the program then ends.
ExitCompletes == \A c \in Clients : client[c].life = "leaving" ~> client[c].life = "off"
=============================================================================
