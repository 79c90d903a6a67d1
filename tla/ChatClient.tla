------------------------------- MODULE ChatClient -------------------------------
(***************************************************************************)
(* A client of the messenger KP (client.cpp, messenger.cpp) with its three *)
(* threads: the input thread carries out what the user types, the updater  *)
(* asks for new messages of the open chat again and again, and the         *)
(* receiver takes the answers.  They share the client object with no lock. *)
(* A request is made up first and put into the pipe of the server later,   *)
(* when the server opens it (module Messenger): until then the thread      *)
(* waits, and the others go on.                                            *)
(***************************************************************************)
EXTENDS ChatServer

CONSTANTS
  MaxInputs,    \* bound: commands and texts typed, at all clients together
  Exits,        \* may users leave the program?
  NoRequest

RequestType == [client : Clients, by : Threads, cmd : Commands,
                login : Logins \cup {NoneUser}, mode : {"", "GROUP", "PRIVATE"},
                name : Names, last : Nat]

ASSUME ClientAssumption == /\ MaxInputs \in Nat /\ Exits \in BOOLEAN
                           /\ NoRequest \notin RequestType

VARIABLES
  client,
  inputs,       \* how many inputs are left
  patient       \* have users waited for the answer to each command so far?

clientVars == <<client, inputs, patient>>

InChat == {"InGroupChat", "InPrivateChat"}

\* Beside the client object: the requests its threads wait to put; life, "on",
\* "leaving" (F12 pressed) or "off"; shown, the messages on the screen; and of
\* the user: whether an answer is waited for, and how often a chat has been
\* opened, or chosen to be.
InitClient ==
  inputs = MaxInputs /\ patient = TRUE /\ client = [c \in Clients |->
              [state |-> "NotLogin", login |-> NoneUser, chat |-> "", last |-> 0,
               input |-> NoRequest, updater |-> NoRequest, life |-> "on", shown |-> {},
               waiting |-> FALSE, opened |-> 0]]

\* Client::request, on behalf of a thread.
Sender(c) == IF client[c].state = "NotLogin" THEN NoneUser ELSE client[c].login

\* Variant: the state is compared with the wrong value.
ChatModePrivate(c) == "PRIVATE"

ChatMode(c) == IF client[c].state = "InGroupChat" THEN "GROUP" ELSE "PRIVATE"

Request(c, by, cmd, mode, name, last) ==
  [client |-> c, by |-> by, cmd |-> cmd, login |-> Sender(c),
   mode |-> mode, name |-> name, last |-> last]

-----------------------------------------------------------------------------
(* The input thread.                                                       *)

MayType(c) == /\ client[c].life = "on"
              /\ client[c].input = NoRequest
              /\ inputs > 0

\* An input has been used.
Typed(c) == inputs' = inputs - 1 /\ patient' = (patient /\ ~client[c].waiting)

\* The user has typed something that leads to the request; the other fields
\* become those of new.
Ask(c, cmd, mode, name, new) ==
  /\ client' = [client EXCEPT
       ![c] = [new EXCEPT !.input = Request(c, "input", cmd, mode, name, 0),
                          !.waiting = cmd # "logout"]]
  /\ Typed(c)

\* The login is set before the server has agreed to it.
CmdLogin(c, login) ==
  /\ MayType(c)
  /\ client[c].state = "NotLogin"
  /\ Ask(c, "login", "", login, [client[c] EXCEPT !.login = login])

CmdLogout(c) ==
  /\ MayType(c)
  /\ client[c].state = "InMainMenu"
  /\ Ask(c, "logout", "", "", [client[c] EXCEPT !.shown = {}])

\* join, private and create, typed in the menu.
CmdOpen(c, cmd, name) ==
  /\ MayType(c)
  /\ client[c].state = "InMainMenu"
  /\ Ask(c, cmd, "", name, client[c])

CmdPush(c) ==
  /\ MayType(c)
  /\ client[c].state \in InChat
  /\ Ask(c, "push_msg", ChatMode(c), client[c].chat, client[c])

\* update_chat of messenger.cpp: a chat is chosen from the list.
Choose(c, cmd, name) ==
  /\ MayType(c)
  /\ client[c].state # "NotLogin"
  /\ Ask(c, cmd, "", name, [client[c] EXCEPT !.shown = {}, !.opened = @ + 1])

BackToMenu(c) ==
  /\ MayType(c)
  /\ client[c].state \in InChat
  /\ client' = [client EXCEPT ![c].state = "InMainMenu", ![c].shown = {}]
  /\ Typed(c)

\* F12: the updater and the receiver are cancelled, then cmd_logout is called
\* unless nobody is logged in.
Exit(c) ==
  /\ Exits
  /\ client[c].life = "on"
  /\ client[c].input = NoRequest
  /\ client' = [client EXCEPT
       ![c].updater = NoRequest,
       ![c].life = IF client[c].state = "NotLogin" THEN "off" ELSE "leaving",
       ![c].input = IF client[c].state = "NotLogin" THEN NoRequest
                    ELSE Request(c, "input", "logout", "", "", 0)]

\* The request of a thread is in the pipe; cmd_logout then changes the state.
Sent(c, t) ==
  LET loggedOut == t = "input" /\ client[c].input.cmd = "logout"
  IN  client' = [client EXCEPT
        ![c][t] = NoRequest,
        ![c].state = IF loggedOut THEN "NotLogin" ELSE @,
        ![c].life = IF loggedOut /\ @ = "leaving" THEN "off" ELSE @]

-----------------------------------------------------------------------------
(* The updater.                                                            *)

UpdateChat(c) ==
  /\ client[c].life = "on"
  /\ client[c].updater = NoRequest
  /\ client[c].state \in InChat
  /\ client' = [client EXCEPT
       ![c].updater = Request(c, "updater", "get_msg", ChatMode(c), client[c].chat,
                              client[c].last)]

-----------------------------------------------------------------------------
(* The receiver.                                                           *)

\* Variant: the status of an answer is not looked at.
AcceptedAny(a) == TRUE

Accepted(a) == a.ok

\* answer_handler.  An error, and the answer to push_msg, changes nothing.
AnswerHandler(c, a) ==
  LET answered == [client[c] EXCEPT !.waiting = IF a.by = "input" THEN FALSE ELSE @]
      becomes(new) == client' = [client EXCEPT ![c] = new]
  IN  \/ /\ Accepted(a) /\ a.cmd = "login"
         /\ becomes([answered EXCEPT !.state = "InMainMenu"])
      \/ /\ Accepted(a) /\ a.cmd \in {"join", "create", "private"}
         /\ becomes([answered EXCEPT
              !.state = IF a.cmd = "private" THEN "InPrivateChat" ELSE "InGroupChat",
              !.chat = a.name,
              !.last = 0,
              !.opened = @ + 1])
      \/ /\ Accepted(a) /\ a.cmd = "get_msg"
         /\ becomes([answered EXCEPT !.last = a.last, !.shown = @ \cup a.ids])
      \/ /\ ~Accepted(a) \/ a.cmd = "push_msg"
         /\ becomes(answered)
=============================================================================
