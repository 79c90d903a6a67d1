-------------------------------- MODULE ChatList --------------------------------
(***************************************************************************)
(* The list of chats of KP on its way from the server, which sorts it by   *)
(* the last message of each chat (server.cpp, cmd_chats), to the screen    *)
(* (tui.cpp, chat_buffer.cpp), where the user moves a mark over it and     *)
(* opens the chat that is marked.                                          *)
(*                                                                         *)
(* Two threads of the client use the list: the receiver, which replaces    *)
(* it, and the one that reads the keys.  Nothing keeps them apart.  An     *)
(* update has a beginning and an end; what follows a key that uses the     *)
(* list between them is undefined, and the model stops there.              *)
(*                                                                         *)
(* There is one client, and its users log in and out in turn.  Requests    *)
(* and answers take their time and may be lost: an answer can come when    *)
(* the user it was meant for has logged out.                               *)
(*                                                                         *)
(* Names of chats are taken to be distinct, though a group may have the    *)
(* name of a user; a private chat counts as two, one for each of its       *)
(* users.  The texts of messages matter, their authors are part of them;   *)
(* colours, windows' sizes and the other two windows are left out.         *)
(***************************************************************************)
EXTENDS Integers, Sequences, FiniteSets

CONSTANTS
  Users,        \* who log in to the client
  NoUser,       \* in place of one while nobody is logged in
  Chats,        \* names
  MessageTexts, \* of messages
  MaxMessages,  \* bound: messages sent, of which one may repeat another
  MaxAnswers,   \* bound: answers under way
  MaxDowns      \* bound: how far the mark goes down on an empty list

NoName == ""

ASSUME ChatListAssumption ==
  /\ NoName \notin Chats /\ NoUser \notin Users
  /\ {MaxMessages, MaxAnswers, MaxDowns} \subseteq Nat

VARIABLES
  rows,         \* of the server: name and last message of each chat of a user,
                \* newest first
  said,         \* history: the messages sent
  repeated,     \* history: has one of them been sent twice?
  user,         \* of the client
  asked,        \* users with one or more requests for their lists on their way
  coming,       \* answers with rows on their way, and the user they are for
  now_window,   \* "input" or "chats"
  chat_list,    \* rows the client has
  now_choice,   \* index into it, from 0
  screen,       \* rows and the marked name in the window of the chats
  leaving,      \* is the request of a logout not put yet?
  answer,       \* history: the last answer of the server that update_chats has
                \* had, since the last logout
  late,         \* history: has one of them been for the user who was logging out,
                \* or for one who had?
  updating,     \* is the receiver between the beginning and the end of it?
  undefined     \* has a key been handled meanwhile?

serverVars == <<rows, said, repeated>>
chatListVars == <<serverVars, user, asked, coming, now_window, chat_list, now_choice,
                  screen, leaving, answer, late, updating, undefined>>

Blank == [rows |-> <<>>, mark |-> NoName]

ChatListInit ==
  /\ rows = [u \in Users |-> <<>>] /\ said = {} /\ repeated = FALSE
  /\ user = NoUser /\ asked = {} /\ coming = <<>>
  /\ now_window = "input"
  /\ chat_list = <<>> /\ now_choice = 0
  /\ screen = Blank /\ leaving = FALSE
  /\ answer = <<>> /\ late = FALSE
  /\ updating = FALSE /\ undefined = FALSE

\* now_choice_get()->chat_name.  Outside the list `at' throws and the program
\* ends: NoName stands for that, and is never met (ScreenShowsAnswer).
NameAt(list, choice) == IF choice < Len(list) THEN list[choice + 1].chat_name ELSE NoName

Chosen == NameAt(chat_list, now_choice)

\* print_chats, of a list that is not empty.
Drawn(list, choice) == [rows |-> list, mark |-> NameAt(list, choice)]

\* What is in the window, though perhaps not on the screen yet.
InWindow == IF chat_list = <<>> THEN Blank ELSE Drawn(chat_list, now_choice)

-----------------------------------------------------------------------------
(* The server.                                                             *)

\* The row of a chat in the list, or where it would be appended.
RowOf(list, c) ==
  IF \E k \in 1..Len(list) : list[k].chat_name = c
  THEN CHOOSE k \in 1..Len(list) : list[k].chat_name = c
  ELSE Len(list) + 1

\* Variant: a chat stays where it is in the list.
WithLastInPlace(list, row) ==
  [i \in 1..Len(list) \cup {RowOf(list, row.chat_name)} |->
     IF i = RowOf(list, row.chat_name) THEN row ELSE list[i]]

\* The list with a new message, sorted by their numbers: its chat comes to the
\* front, and those before it move back.
WithLast(list, row) ==
  LET old == RowOf(list, row.chat_name)
  IN  [i \in 1..Len(list) \cup {old} |->
         IF i = 1 THEN row ELSE IF i <= old THEN list[i - 1] ELSE list[i]]

\* A message to the users who have its chat in their lists, and to those who
\* come to the chat with it.
NewMessage(c, text, readers) ==
  LET row == [chat_name |-> c, last_message |-> text]
  IN  /\ ~undefined
      /\ Cardinality(said) + (IF repeated THEN 1 ELSE 0) < MaxMessages
      /\ row \in said => ~repeated
      /\ \A u \in Users : RowOf(rows[u], c) <= Len(rows[u]) => u \in readers
      /\ said' = said \cup {row} /\ repeated' = (repeated \/ row \in said)
      /\ rows' = [u \in Users |-> IF u \in readers THEN WithLast(rows[u], row) ELSE rows[u]]
      /\ UNCHANGED <<user, asked, coming, now_window, chat_list, now_choice, screen,
                     leaving, answer, late, updating, undefined>>

\* cmd_chats answers for the user the request names, logged in or not.  The
\* client drops an answer without rows.
Serve(u) ==
  /\ ~undefined
  /\ u \in asked
  /\ asked' \in {asked, asked \ {u}}
  /\ IF rows[u] = <<>> THEN UNCHANGED coming
     ELSE /\ Len(coming) < MaxAnswers
          /\ coming' = Append(coming, [for |-> u, rows |-> rows[u]])
  /\ UNCHANGED <<serverVars, user, now_window, chat_list, now_choice, screen, leaving,
                 answer, late, updating, undefined>>

-----------------------------------------------------------------------------
(* The updater, or the command chats.                                      *)

Ask ==
  /\ ~undefined
  /\ user # NoUser
  /\ asked' = asked \cup {user}
  /\ UNCHANGED <<serverVars, user, coming, now_window, chat_list, now_choice, screen,
                 leaving, answer, late, updating, undefined>>

-----------------------------------------------------------------------------
(* The receiver: update_chats with an answer.                              *)

\* The first rows are the same.
SameFirst(new, list) == new[1] = list[1]

\* Those before the answer have been lost.
UpdateBegin ==
  /\ ~undefined /\ ~updating
  /\ \E k \in 1..Len(coming) :
       /\ coming' = SubSeq(coming, k + 1, Len(coming))
       /\ answer' = coming[k].rows
       /\ updating' = ~(chat_list # <<>> /\ SameFirst(coming[k].rows, chat_list))
       /\ late' = (late \/ leaving \/ coming[k].for # user)
  /\ UNCHANGED <<serverVars, user, asked, now_window, chat_list, now_choice, screen,
                 leaving, undefined>>

\* Variant: the mark stays on its line.
ChoiceInNewLine(new) == IF now_choice < Len(new) THEN now_choice ELSE 0

\* The line of the chat that was marked; clear has set it to 0.
ChoiceInNew(new) ==
  IF chat_list # <<>> /\ RowOf(new, Chosen) <= Len(new) THEN RowOf(new, Chosen) - 1 ELSE 0

UpdateEnd ==
  /\ ~undefined /\ updating
  /\ updating' = FALSE
  /\ now_choice' = ChoiceInNew(answer)
  /\ chat_list' = answer
  /\ screen' = Drawn(chat_list', now_choice')
  /\ UNCHANGED <<serverVars, user, asked, coming, now_window, leaving, answer, late,
                 undefined>>

-----------------------------------------------------------------------------
(* The thread that reads the keys, none while a logout is being put.       *)

\* A key whose handler uses the list while the receiver does.
KeyMeanwhile ==
  /\ updating /\ ~undefined /\ ~leaving
  /\ undefined' = TRUE
  /\ UNCHANGED <<serverVars, user, asked, coming, now_window, chat_list, now_choice,
                 screen, leaving, answer, late, updating>>

ListFree == ~updating /\ ~undefined

\* TAB.  fix_cursor brings the window it goes to to the screen.
ToggleWindow ==
  /\ ~undefined /\ ~leaving
  /\ now_window' = IF now_window = "input" THEN "chats" ELSE "input"
  /\ screen' = IF now_window' = "chats" THEN InWindow ELSE screen
  /\ UNCHANGED <<serverVars, user, asked, coming, chat_list, now_choice, leaving, answer,
                 late, updating, undefined>>

\* size()-1 of an empty list is the largest unsigned number.
MayGoDown(size) == size = 0 \/ now_choice < size - 1

\* print_chats draws nothing of an empty list, and leaves the screen alone.
Down ==
  /\ ListFree /\ now_window = "chats"
  /\ chat_list = <<>> => now_choice < MaxDowns
  /\ MayGoDown(Len(chat_list))
  /\ now_choice' = now_choice + 1
  /\ screen' = IF chat_list = <<>> THEN screen ELSE Drawn(chat_list, now_choice')
  /\ UNCHANGED <<serverVars, user, asked, coming, now_window, chat_list, leaving, answer,
                 late, updating, undefined>>

Up ==
  /\ ListFree /\ now_window = "chats"
  /\ now_choice > 0
  /\ now_choice' = now_choice - 1
  /\ screen' = IF chat_list = <<>> THEN screen ELSE Drawn(chat_list, now_choice')
  /\ UNCHANGED <<serverVars, user, asked, coming, now_window, chat_list, leaving, answer,
                 late, updating, undefined>>

\* The command logout clears the list, not the screen, before its request is
\* put, also if nobody is logged in.
LogoutClear ==
  /\ ListFree /\ now_window = "input" /\ ~leaving
  /\ chat_list' = <<>> /\ now_choice' = 0
  /\ leaving' = (user # NoUser)
  /\ answer' = <<>> /\ late' = FALSE
  /\ UNCHANGED <<serverVars, user, asked, coming, now_window, screen, updating, undefined>>

LogoutPut ==
  /\ ~undefined /\ leaving
  /\ user' = NoUser /\ leaving' = FALSE
  /\ UNCHANGED <<serverVars, asked, coming, now_window, chat_list, now_choice, screen,
                 answer, late, updating, undefined>>

\* The answer of a login comes in.
Login(u) ==
  /\ ~undefined /\ user = NoUser
  /\ user' = u
  /\ UNCHANGED <<serverVars, asked, coming, now_window, chat_list, now_choice, screen,
                 leaving, answer, late, updating, undefined>>

Key == KeyMeanwhile \/ ToggleWindow \/ Down \/ Up \/ LogoutClear

ChatListNext ==
  \/ \E c \in Chats, text \in MessageTexts, readers \in SUBSET Users :
       NewMessage(c, text, readers)
  \/ \E u \in Users : Serve(u) \/ Login(u)
  \/ Ask \/ UpdateBegin \/ UpdateEnd \/ Key \/ LogoutPut

ChatListSpec == ChatListInit /\ [][ChatListNext]_chatListVars

-----------------------------------------------------------------------------
Row == [chat_name : Chats, last_message : MessageTexts]

Answers == [for : Users, rows : Seq(Row)]

ChatListTypeOK ==
  /\ rows \in [Users -> Seq(Row)] /\ said \subseteq Row
  /\ user \in Users \cup {NoUser} /\ asked \subseteq Users /\ coming \in Seq(Answers)
  /\ {chat_list, answer} \subseteq Seq(Row)
  /\ now_window \in {"input", "chats"}
  /\ now_choice \in Nat
  /\ screen \in [rows : Seq(Row), mark : Chats \cup {NoName}]
  /\ {repeated, leaving, late, updating, undefined} \subseteq BOOLEAN

\* Whatever the user has pressed before, also on an empty list, the mark is on
\* a row, and it and the rows are what the screen shows: Enter opens the chat
\* that is marked (tui.cpp:98-100).  An empty list is shown as such when its
\* window is chosen, not before: logout leaves the old rows on the screen.
\* The rows are what the server has answered, although the list is left alone
\* when the first row has not changed, if no text is repeated in a chat
\* (tui.cpp:246, server.cpp:314) and if, since the list was cleared, no answer
\* has come that was meant for a user who was leaving or had left (messenger
\* .cpp:143-146): after such an answer the rows of one user may stay for the
\* next.
ScreenShowsAnswer ==
  ListFree =>
    /\ IF chat_list = <<>> THEN now_window = "chats" => screen = Blank
       ELSE now_choice \in 0..(Len(chat_list) - 1) /\ screen = Drawn(chat_list, now_choice)
    /\ ~repeated /\ ~late => chat_list = answer

\* An update leaves the mark on its chat, as long as there is that chat.
ChoiceStays ==
  [][UpdateEnd /\ chat_list # <<>> /\ (\E k \in 1..Len(answer) : answer[k].chat_name = Chosen)
       => screen'.mark = screen.mark]_chatListVars
=============================================================================
