------------------------------- MODULE ChatServer -------------------------------
(***************************************************************************)
(* The server of the messenger KP (server.cpp): one thread that takes a    *)
(* request, changes its lists of users, group chats and private chats, and *)
(* waits until the client takes the answer.                                *)
(*                                                                         *)
(* The text of a message is the chat its author wrote it in, all that the  *)
(* properties tell apart; a system message, which tells that a user        *)
(* joined, has the login for text.  The query cmd_chats changes nothing    *)
(* and is left out.                                                        *)
(***************************************************************************)
EXTENDS Naturals, Sequences, FiniteSets

Sets == INSTANCE FiniteSetsExt

CONSTANTS
  Clients,      \* client processes; each has a pipe for its answers
  Logins,
  GroupNames,
  NoneUser,     \* __NONE, the login in the requests of nobody
  System,       \* the author of system messages
  NoAnswer

Threads == {"input", "updater"}
Commands == {"login", "logout", "private", "create", "join", "push_msg", "get_msg"}
Names == Logins \cup GroupNames \cup {""}
AnswerType == [to : Clients, by : Threads, cmd : Commands, ok : BOOLEAN,
               name : Names, last : Nat, ids : SUBSET Nat]

ASSUME AnswerAssumption == NoAnswer \notin AnswerType

VARIABLES
  users,        \* logins the server has an object for
  authorized,   \* those whose flag says so
  groups,       \* group chats: from the names that exist to members, messages
  privates,     \* private chats in the order they were made
  counter,      \* message_counter_id
  pending       \* the answer the server waits to get rid of, NoAnswer if none

serverVars == <<users, authorized, groups, privates, counter, pending>>

InitServer == /\ users = {}
              /\ authorized = {}
              /\ groups = <<>>
              /\ privates = <<>>
              /\ counter = 0
              /\ pending = NoAnswer

\* response: ids tells which messages an answer to get_msg carries; the reader
\* itself gets the authors and texts.
Response(r, cmd, ok, last, ids) ==
  pending' = [to |-> r.client, by |-> r.by, cmd |-> cmd, ok |-> ok,
              name |-> r.name, last |-> last, ids |-> ids]

Done(r) == Response(r, r.cmd, TRUE, 0, {})
Failed(r, cmd) == Response(r, cmd, FALSE, 0, {})

\* Variant: it is not looked at whether the user is logged in already.
MayLogInKnown(name) == name \notin {NoneUser, System}

MayLogIn(name) == name \notin authorized \cup {NoneUser, System}

Login(r) ==
  /\ \/ /\ MayLogIn(r.name)
        /\ users' = users \cup {r.name}
        /\ authorized' = authorized \cup {r.name}
        /\ Done(r)
     \/ /\ ~MayLogIn(r.name)
        /\ Failed(r, "login")
        /\ UNCHANGED <<users, authorized>>
  /\ UNCHANGED <<groups, privates, counter>>

\* Nothing is answered.
Logout(r) ==
  /\ authorized' = authorized \ {r.login}
  /\ UNCHANGED <<users, groups, privates, counter, pending>>

\* The place of the first private chat at one of the places, 0 if there is none.
FirstPrivate(places) == IF places = {} THEN 0 ELSE Sets!Min(places)

\* Variant: only a chat the same user began counts.
ChatOfBegun(u, v) ==
  FirstPrivate({i \in DOMAIN privates : privates[i].user1 = u /\ privates[i].user2 = v})

ChatOf(u, v) ==
  FirstPrivate({i \in DOMAIN privates : {privates[i].user1, privates[i].user2} = {u, v}})

Private(r) ==
  /\ \/ /\ (r.name = r.login \/ r.name \notin users)
        /\ Failed(r, "private")
        /\ UNCHANGED privates
     \/ /\ r.name # r.login
        /\ r.name \in users
        /\ privates' = IF ChatOf(r.login, r.name) # 0 THEN privates
                       ELSE Append(privates, [user1 |-> r.login, user2 |-> r.name,
                                              messages |-> <<>>])
        /\ Done(r)
  /\ UNCHANGED <<users, authorized, groups, counter>>

\* Variant: the counter goes up after its value is taken.
NewMessageEarly(from, text) == [id |-> counter, from |-> from, text |-> text]

NewMessage(from, text) == [id |-> counter + 1, from |-> from, text |-> text]

Create(r) ==
  /\ \/ /\ r.name \in DOMAIN groups
        /\ Failed(r, "create")
        /\ UNCHANGED <<groups, counter>>
     \/ /\ r.name \notin DOMAIN groups
        /\ groups' = [g \in DOMAIN groups \cup {r.name} |->
                        IF g \in DOMAIN groups THEN groups[g]
                        ELSE [members |-> {r.login},
                              messages |-> <<NewMessage(System, r.login)>>]]
        /\ counter' = counter + 1
        /\ Done(r)
  /\ UNCHANGED <<users, authorized, privates>>

IsNew(g, u) == u \notin groups[g].members

Join(r) ==
  /\ \/ /\ r.name \notin DOMAIN groups
        /\ Failed(r, "join")
        /\ UNCHANGED <<groups, counter>>
     \/ /\ r.name \in DOMAIN groups
        /\ IF IsNew(r.name, r.login)
           THEN /\ groups' = [groups EXCEPT
                 ![r.name] = [members |-> @.members \cup {r.login},
                              messages |-> Append(@.messages, NewMessage(System, r.login))]]
                /\ counter' = counter + 1
           ELSE UNCHANGED <<groups, counter>>
        /\ Done(r)
  /\ UNCHANGED <<users, authorized, privates>>

\* The chat of a private message: the first the author takes part in, whatever
\* name the request gives.
PrivateTarget(r) ==
  FirstPrivate({i \in DOMAIN privates : r.login \in {privates[i].user1, privates[i].user2}})

\* Membership in a group is not looked at, and an error is answered as if the
\* request had been get_msg.
PutMsg(r) ==
  /\ \/ /\ r.mode = "GROUP"
        /\ r.name \in DOMAIN groups
        /\ groups' = [groups EXCEPT ![r.name].messages =
                                      Append(@, NewMessage(r.login, <<r.mode, r.name>>))]
        /\ counter' = counter + 1
        /\ Done(r)
        /\ UNCHANGED privates
     \/ /\ r.mode = "PRIVATE"
        /\ PrivateTarget(r) # 0
        /\ privates' = [privates EXCEPT ![PrivateTarget(r)].messages =
                                          Append(@, NewMessage(r.login, <<r.mode, r.name>>))]
        /\ counter' = counter + 1
        /\ Done(r)
        /\ UNCHANGED groups
     \/ /\ IF r.mode = "GROUP" THEN r.name \notin DOMAIN groups ELSE PrivateTarget(r) = 0
        /\ Failed(r, "get_msg")
        /\ UNCHANGED <<groups, privates, counter>>
  /\ UNCHANGED <<users, authorized>>

Ids(messages) == {messages[i].id : i \in DOMAIN messages}

GetMsg(r) ==
  LET answer(messages) ==
        LET new == {i \in Ids(messages) : i > r.last}
        IN  Response(r, r.cmd, TRUE, Sets!Max(new \cup {r.last}), new)
  IN  /\ \/ /\ r.mode = "GROUP"
            /\ r.name \in DOMAIN groups
            /\ answer(groups[r.name].messages)
         \/ /\ r.mode = "PRIVATE"
            /\ ChatOf(r.login, r.name) # 0
            /\ answer(privates[ChatOf(r.login, r.name)].messages)
         \/ /\ IF r.mode = "GROUP" THEN r.name \notin DOMAIN groups
               ELSE ChatOf(r.login, r.name) = 0
            /\ Failed(r, "get_msg")
      /\ UNCHANGED <<users, authorized, groups, privates, counter>>

\* Whether the user is logged in is asked nowhere but in cmd_login.
RequestHandler(r) ==
  \/ r.cmd = "login" /\ Login(r)
  \/ r.cmd # "login" /\ r.login \notin users /\ UNCHANGED serverVars
  \/ /\ r.login \in users
     /\ \/ r.cmd = "logout" /\ Logout(r)
        \/ r.cmd = "private" /\ Private(r)
        \/ r.cmd = "create" /\ Create(r)
        \/ r.cmd = "join" /\ Join(r)
        \/ r.cmd = "push_msg" /\ PutMsg(r)
        \/ r.cmd = "get_msg" /\ GetMsg(r)
=============================================================================
