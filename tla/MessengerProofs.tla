------------------------------ MODULE MessengerProofs ------------------------------
(***************************************************************************)
(* The messenger does what its invariants say, with any number of clients, *)
(* logins and groups, pipes of any length that may lose messages, and      *)
(* users who type what they like.                                          *)
(*                                                                         *)
(* The argument has two halves.  That no message is skipped, and that the  *)
(* server's lists are consistent, needs nothing of the users: the requests *)
(* and answers under way are followed, with the numbers they carry.  That  *)
(* two clients never share a login, and that only members are heard in a   *)
(* group, rests on users who wait for the answer to each command: then a   *)
(* client has one command under way at most, which is still of the user    *)
(* who is logged in when the answer comes.                                 *)
(***************************************************************************)
EXTENDS Messenger, FiniteSetTheorems, SequenceTheorems, TLAPS

-----------------------------------------------------------------------------
(* What the variables range over.                                          *)

\* The text of a message, of its author or of a system message.
Texts == Names \cup {NoneUser} \cup ({"", "GROUP", "PRIVATE"} \X Names)
Message == [id : Nat, from : Names \cup {NoneUser, System}, text : Texts]
Group == [members : SUBSET (Names \cup {NoneUser}), messages : Seq(Message)]
Chat == [user1 : Names \cup {NoneUser}, user2 : Names, messages : Seq(Message)]
States == {"NotLogin", "InMainMenu", "InGroupChat", "InPrivateChat"}
ClientType ==
  [state : States,
   login : Logins \cup {NoneUser}, chat : Names, last : Nat,
   input : RequestType \cup {NoRequest}, updater : RequestType \cup {NoRequest},
   life : {"on", "leaving", "off"}, shown : SUBSET Nat, waiting : BOOLEAN, opened : Nat]

ClientOK == client \in [Clients -> ClientType]

\* The step is one of client c.
Others(c) == \A d \in Clients \ {c} : client'[d] = client[d]

\* What the user of c does by typing a command: a request is made up, and the
\* state and chat stay (CmdLogin .. Choose).
Asks(c) ==
  LET o == client[c]
      n == client'[c]
      q == client'[c].input
  IN  /\ o.life = "on" /\ o.input = NoRequest
      /\ q \in RequestType /\ q.client = c /\ q.by = "input" /\ q.last = 0
      /\ n.state = o.state /\ n.chat = o.chat /\ n.last = o.last
      /\ n.updater = o.updater /\ n.life = o.life
      /\ n.waiting <=> q.cmd # "logout"
      /\ patient' => patient /\ ~o.waiting
      /\ \/ /\ q.cmd = "login" /\ o.state = "NotLogin" /\ n.login = q.name
            /\ n.opened = o.opened /\ n.shown = o.shown
         \/ /\ q.cmd \notin {"login", "get_msg"} /\ o.state # "NotLogin"
            /\ n.login = o.login /\ q.login = o.login
            /\ q.cmd = "push_msg" /\ q.mode = "GROUP" => o.state = "InGroupChat" /\ q.name = o.chat
            /\ \/ n.opened = o.opened /\ (n.shown = o.shown \/ o.state = "InMainMenu")
               \/ n.opened = o.opened + 1

\* What Ask leaves of the client it is given.
LEMMA AskFields ==
  ASSUME ClientOK, NEW c \in Clients, NEW cmd \in Commands, NEW mode \in {"", "GROUP", "PRIVATE"},
         NEW name \in Names, NEW new \in ClientType,
         Ask(c, cmd, mode, name, new), MayType(c)
  PROVE  LET q == Request(c, "input", cmd, mode, name, 0)
         IN  /\ client' \in [Clients -> ClientType] /\ Others(c)
             /\ q \in RequestType
             /\ client'[c].input = q
             /\ client'[c].waiting <=> cmd # "logout"
             /\ client'[c].state = new.state /\ client'[c].login = new.login
             /\ client'[c].chat = new.chat /\ client'[c].last = new.last
             /\ client'[c].updater = new.updater /\ client'[c].life = new.life
             /\ client'[c].shown = new.shown /\ client'[c].opened = new.opened
<1> DEFINE q == Request(c, "input", cmd, mode, name, 0)
           n == [new EXCEPT !.input = q, !.waiting = cmd # "logout"]
<1>1. q \in RequestType
  BY DEF Request, RequestType, Sender, ClientOK, ClientType, Threads
<1>2. client' = [client EXCEPT ![c] = n]
  BY DEF Ask
<1> HIDE DEF q
<1>3. n \in ClientType /\ n.input = q /\ (n.waiting <=> cmd # "logout")
  BY <1>1 DEF ClientType
<1>4. /\ n.state = new.state /\ n.login = new.login
      /\ n.chat = new.chat /\ n.last = new.last
      /\ n.updater = new.updater /\ n.life = new.life
      /\ n.shown = new.shown /\ n.opened = new.opened
  BY DEF ClientType
<1> HIDE DEF n
<1>5. client' \in [Clients -> ClientType] /\ client'[c] = n /\ Others(c)
  BY <1>2, <1>3 DEF ClientOK, Others
<1> QED BY <1>1, <1>3, <1>4, <1>5 DEF q

\* The types of the server's variables.
Served == /\ users \subseteq Names /\ authorized \subseteq Names
          /\ groups \in [DOMAIN groups -> Group]
          /\ privates \in Seq(Chat)
          /\ counter \in Nat
          /\ pending \in AnswerType \cup {NoAnswer}

\* A set of numbers that is not empty has a least one, and a bounded one a
\* largest: Min and Max of the community modules are what their names say.
LEMMA LeastExists ==
  ASSUME NEW S \in SUBSET Nat, S # {}
  PROVE  \E x \in S : \A y \in S : x <= y
<1> DEFINE R == OpToRel(<, Nat)
<1>1. PICK x \in S : \A y \in S : ~ (<<y, x>> \in R)
  <2>1. IsWellFoundedOn(R, Nat)
    BY NatLessThanWellFounded
  <2> HIDE DEF R
  <2> QED BY <2>1, WFMin
<1>2. ASSUME NEW y \in S PROVE x <= y
  <2>1. ~ (<<y, x>> \in R)
    BY <1>1
  <2>2. <<y, x>> \in Nat \X Nat
    OBVIOUS
  <2>3. ~(y < x)
    BY <2>1, <2>2 DEF OpToRel
  <2> QED BY <2>3
<1> QED BY <1>2

LEMMA MinIsLeast ==
  ASSUME NEW S \in SUBSET Nat, S # {}
  PROVE  Sets!Min(S) \in S /\ \A y \in S : Sets!Min(S) <= y
BY LeastExists DEF Sets!Min

LEMMA MaxIsLargest ==
  ASSUME NEW S \in SUBSET Nat, S # {}, NEW b \in Nat, \A y \in S : y <= b
  PROVE  Sets!Max(S) \in S /\ \A y \in S : y <= Sets!Max(S)
<1> DEFINE B == {k \in Nat : \A y \in S : y <= k}
<1>1. B \in SUBSET Nat /\ B # {}
  OBVIOUS
<1>2. PICK k \in B : \A l \in B : k <= l
  BY <1>1, LeastExists
<1>3. k \in S
  <2>1. CASE k = 0
    <3>1. \A y \in S : y \in Nat /\ y <= 0
      BY <1>2, <2>1
    <3>2. \A y \in S : y = 0
      BY <3>1
    <3> QED BY <2>1, <3>2
  <2>2. CASE k # 0
    <3>1. k - 1 \in Nat /\ ~(k <= k - 1)
      BY <1>2, <2>2
    <3>2. k - 1 \notin B
      BY <1>2, <3>1
    <3>3. PICK y \in S : ~(y <= k - 1)
      BY <3>1, <3>2
    <3>4. y = k
      BY <1>2, <3>3
    <3> QED BY <3>4
  <2> QED BY <2>1, <2>2
<1>4. \E x \in S : \A y \in S : x >= y
  BY <1>2, <1>3
<1> QED BY <1>4 DEF Sets!Max

\* FirstPrivate is the least of the places, or 0.
LEMMA FirstOfPlaces ==
  ASSUME NEW places \in SUBSET (Nat \ {0})
  PROVE  IF places = {} THEN FirstPrivate(places) = 0
         ELSE /\ FirstPrivate(places) \in places
              /\ \A i \in places : FirstPrivate(places) <= i
BY MinIsLeast DEF FirstPrivate

\* What Append and Tail do to the elements and places of a sequence.
LEMMA RangeOfAppend ==
  ASSUME NEW S, NEW s \in Seq(S), NEW e \in S
  PROVE  /\ Append(s, e) \in Seq(S)
         /\ Range(Append(s, e)) = Range(s) \cup {e}
         /\ DOMAIN Append(s, e) = DOMAIN s \cup {Len(s) + 1}
         /\ Len(s) + 1 \notin DOMAIN s
         /\ \A i \in DOMAIN s : Append(s, e)[i] = s[i]
         /\ Append(s, e)[Len(s) + 1] = e
<1>1. Append(s, e) \in Seq(S) /\ DOMAIN Append(s, e) = DOMAIN s \cup {Len(s) + 1}
      /\ Len(s) + 1 \notin DOMAIN s
  OBVIOUS
<1>2. \A i \in DOMAIN s : Append(s, e)[i] = s[i]
  OBVIOUS
<1>3. Append(s, e)[Len(s) + 1] = e
  OBVIOUS
<1>4. Range(Append(s, e)) = Range(s) \cup {e}
  BY <1>1, <1>2, <1>3 DEF Range
<1> QED BY <1>1, <1>2, <1>3, <1>4

LEMMA RangeOfTail ==
  ASSUME NEW S, NEW s \in Seq(S), s # <<>>
  PROVE  /\ Head(s) \in Range(s) /\ Head(s) \in S /\ Tail(s) \in Seq(S)
         /\ Head(s) = s[1] /\ 1 \in DOMAIN s
         /\ Range(Tail(s)) \subseteq Range(s)
         /\ \A i \in DOMAIN Tail(s) : i + 1 \in DOMAIN s /\ Tail(s)[i] = s[i + 1]
<1>1. Head(s) \in S /\ Tail(s) \in Seq(S) /\ Head(s) = s[1] /\ 1 \in DOMAIN s
  OBVIOUS
<1>2. \A i \in DOMAIN Tail(s) : i + 1 \in DOMAIN s /\ Tail(s)[i] = s[i + 1]
  OBVIOUS
<1> QED BY <1>1, <1>2 DEF Range

LEMMA RangeInSet ==
  ASSUME NEW S, NEW s \in Seq(S)
  PROVE  Range(s) \subseteq S
BY DEF Range

\* The answer that Response makes up.
LEMMA ResponseType ==
  ASSUME NEW r \in RequestType, NEW cmd \in Commands, NEW ok \in BOOLEAN,
         NEW last \in Nat, NEW ids \in SUBSET Nat, Response(r, cmd, ok, last, ids)
  PROVE  /\ pending' \in AnswerType /\ pending' # NoAnswer
         /\ pending'.to = r.client /\ pending'.by = r.by /\ pending'.cmd = cmd
         /\ pending'.ok <=> ok
         /\ pending'.name = r.name /\ pending'.last = last /\ pending'.ids = ids
<1>1. r.client \in Clients /\ r.by \in Threads /\ r.name \in Names
  BY DEF RequestType
<1> DEFINE a == [to |-> r.client, by |-> r.by, cmd |-> cmd, ok |-> ok,
                 name |-> r.name, last |-> last, ids |-> ids]
<1>2. a \in AnswerType
  BY <1>1 DEF AnswerType
<1>3. pending' = a
  BY DEF Response
<1>4. /\ a.to = r.client /\ a.by = r.by /\ a.cmd = cmd
      /\ a.name = r.name /\ a.last = last /\ a.ids = ids
  OBVIOUS
<1>5. a.ok <=> ok
  BY Zenon
<1> HIDE DEF a
<1> QED BY <1>2, <1>3, <1>4, <1>5, AnswerAssumption

-----------------------------------------------------------------------------
(* What a request may change on the server, told apart by the messages and *)
(* chats that change.                                                      *)

\* Messages and members of a group, of one that is not there too.
MessagesOf(g) == IF g \in DOMAIN groups THEN groups[g].messages ELSE <<>>
MembersOf(g) == IF g \in DOMAIN groups THEN groups[g].members ELSE {}

\* The group name, new or not, gets the message m, and the members joined.
GroupGrows(name, joined, m) ==
  /\ groups' \in [DOMAIN groups \cup {name} -> Group]
  /\ m \in Message
  /\ \A g \in DOMAIN groups \ {name} : groups'[g] = groups[g]
  /\ groups'[name].members = MembersOf(name) \cup joined
  /\ groups'[name].messages = Append(MessagesOf(name), m)

\* The k-th private chat gets the message m.
PrivateGrows(k, m) ==
  /\ k \in DOMAIN privates
  /\ privates' \in Seq(Chat) /\ Len(privates') = Len(privates)
  /\ m \in Message
  /\ \A i \in DOMAIN privates \ {k} : privates'[i] = privates[i]
  /\ privates'[k].user1 = privates[k].user1 /\ privates'[k].user2 = privates[k].user2
  /\ privates'[k].messages = Append(privates[k].messages, m)

\* What a request may do to the lists of the server: nothing, or one of these.
Same == UNCHANGED <<users, authorized, groups, privates, counter>>

Announces(r) ==
  /\ r.cmd \in {"create", "join"} /\ r.login \notin MembersOf(r.name)
  /\ r.login \in users
  /\ GroupGrows(r.name, {r.login}, NewMessage(System, r.login))
  /\ counter' = counter + 1
  /\ Done(r)
  /\ UNCHANGED <<users, authorized, privates>>

WritesGroup(r) ==
  /\ r.cmd = "push_msg" /\ r.mode = "GROUP" /\ r.name \in DOMAIN groups
  /\ r.login \in users
  /\ GroupGrows(r.name, {}, NewMessage(r.login, <<r.mode, r.name>>))
  /\ counter' = counter + 1
  /\ Done(r)
  /\ UNCHANGED <<users, authorized, privates>>

WritesPrivate(r) ==
  /\ r.cmd = "push_msg"
  /\ PrivateGrows(PrivateTarget(r), NewMessage(r.login, <<r.mode, r.name>>))
  /\ counter' = counter + 1
  /\ Done(r)
  /\ UNCHANGED <<users, authorized, groups>>

AddsPrivate(r) ==
  /\ r.cmd = "private" /\ r.name # r.login /\ r.name \in users /\ ChatOf(r.login, r.name) = 0
  /\ LET new == [user1 |-> r.login, user2 |-> r.name, messages |-> <<>>]
     IN  new \in Chat /\ privates' = Append(privates, new)
  /\ Done(r)
  /\ UNCHANGED <<users, authorized, groups, counter>>

LogsIn(r) ==
  /\ r.cmd = "login" /\ MayLogIn(r.name)
  /\ users' = users \cup {r.name} /\ authorized' = authorized \cup {r.name}
  /\ Done(r)
  /\ UNCHANGED <<groups, privates, counter>>

LogsOut(r) ==
  /\ r.cmd = "logout"
  /\ authorized' = authorized \ {r.login}
  /\ UNCHANGED <<users, groups, privates, counter, pending>>

ServedCases(r) == \/ Same \/ LogsIn(r) \/ LogsOut(r) \/ AddsPrivate(r) \/ Announces(r)
                  \/ WritesGroup(r) \/ WritesPrivate(r)

LEMMA GroupFields ==
  ASSUME NEW g \in Group
  PROVE  g.members \in SUBSET (Names \cup {NoneUser}) /\ g.messages \in Seq(Message)
BY DEF Group

LEMMA ChatFields ==
  ASSUME NEW c \in Chat
  PROVE  c.user1 \in Names \cup {NoneUser} /\ c.user2 \in Names /\ c.messages \in Seq(Message)
BY DEF Chat

LEMMA RequestFields ==
  ASSUME NEW r \in RequestType
  PROVE  /\ r.client \in Clients /\ r.by \in Threads /\ r.cmd \in Commands
         /\ r.login \in Names \cup {NoneUser} /\ r.mode \in {"", "GROUP", "PRIVATE"}
         /\ r.name \in Names /\ r.last \in Nat
BY DEF RequestType, Names

LEMMA SystemMessage ==
  ASSUME Served, NEW r \in RequestType
  PROVE  NewMessage(System, r.login) \in Message
<1>1. r.login \in Texts
  BY RequestFields DEF Texts
<1> QED BY <1>1 DEF NewMessage, Message, Served

LEMMA UserMessage ==
  ASSUME Served, NEW r \in RequestType
  PROVE  NewMessage(r.login, <<r.mode, r.name>>) \in Message
<1>1. <<r.mode, r.name>> \in Texts /\ r.login \in Names \cup {NoneUser}
  BY RequestFields DEF Texts
<1> QED BY <1>1 DEF NewMessage, Message, Served

\* Each command comes down to one of these cases.
LEMMA CreateCases ==
  ASSUME Served, NEW r \in RequestType, Create(r), r.cmd = "create", r.login \in users
  PROVE  Same \/ Announces(r)
<1>1. CASE r.name \in DOMAIN groups
  BY <1>1 DEF Create, Same
<1>2. CASE r.name \notin DOMAIN groups
  <2> DEFINE m == NewMessage(System, r.login)
             new == [members |-> {r.login}, messages |-> <<m>>]
  <2>1. m \in Message
    BY SystemMessage
  <2> HIDE DEF m
  <2>2. <<m>> \in Seq(Message) /\ <<m>> = Append(<<>>, m)
    BY <2>1
  <2>3. new \in Group /\ new.members = {r.login} /\ new.messages = <<m>>
    BY <2>2, RequestFields DEF Group
  <2> HIDE DEF new
  <2>4. groups' = [g \in DOMAIN groups \cup {r.name} |-> IF g \in DOMAIN groups THEN groups[g] ELSE new]
    BY <1>2 DEF Create, new, m
  <2>5. /\ groups' \in [DOMAIN groups \cup {r.name} -> Group]
        /\ \A g \in DOMAIN groups \ {r.name} : groups'[g] = groups[g]
        /\ groups'[r.name] = new
    BY <1>2, <2>3, <2>4 DEF Served
  <2>6. GroupGrows(r.name, {r.login}, m)
    BY <1>2, <2>1, <2>2, <2>3, <2>5 DEF GroupGrows, MembersOf, MessagesOf
  <2> QED BY <1>2, <2>6 DEF Create, Announces, MembersOf, m
<1> QED BY <1>1, <1>2

LEMMA GroupExcept ==
  ASSUME Served, NEW name \in DOMAIN groups, NEW m \in Message,
         NEW joined \in SUBSET (Names \cup {NoneUser}),
         \/ groups' = [groups EXCEPT ![name] = [members |-> @.members \cup joined,
                                                messages |-> Append(@.messages, m)]]
         \/ joined = {} /\ groups' = [groups EXCEPT ![name].messages = Append(@, m)]
  PROVE  GroupGrows(name, joined, m)
<1> DEFINE g == groups[name]
           n == [members |-> g.members \cup joined, messages |-> Append(g.messages, m)]
<1>1. g \in Group
  BY DEF Served
<1>2. g.members \in SUBSET (Names \cup {NoneUser}) /\ g.messages \in Seq(Message)
  BY <1>1, GroupFields
<1>3. n \in Group /\ n.members = g.members \cup joined /\ n.messages = Append(g.messages, m)
  <2>1. Append(g.messages, m) \in Seq(Message)
    BY <1>2
  <2> QED BY <1>2, <2>1 DEF Group
<1>4. groups' = [groups EXCEPT ![name] = n]
  <2>1. CASE groups' = [groups EXCEPT ![name] = [members |-> @.members \cup joined,
                                                messages |-> Append(@.messages, m)]]
    BY <2>1
  <2>2. CASE joined = {} /\ groups' = [groups EXCEPT ![name].messages = Append(@, m)]
    <3>1. groups' = [groups EXCEPT ![name] = [g EXCEPT !.messages = Append(@, m)]]
      BY <2>2, <1>1 DEF Served
    <3>2. [g EXCEPT !.messages = Append(@, m)] = n
      BY <1>1, <2>2, SMTT(60) DEF Group
    <3> QED BY <3>1, <3>2
  <2> QED BY <2>1, <2>2
<1> HIDE DEF n
<1>5. /\ groups' \in [DOMAIN groups \cup {name} -> Group]
      /\ \A h \in DOMAIN groups \ {name} : groups'[h] = groups[h]
      /\ groups'[name] = n
  BY <1>3, <1>4, ZenonT(60) DEF Served
<1> QED BY <1>3, <1>5 DEF GroupGrows, MembersOf, MessagesOf

LEMMA JoinCases ==
  ASSUME Served, NEW r \in RequestType, Join(r), r.cmd = "join", r.login \in users
  PROVE  Same \/ Announces(r)
<1>1. CASE r.name \notin DOMAIN groups \/ ~IsNew(r.name, r.login)
  BY <1>1 DEF Join, Same
<1>2. CASE r.name \in DOMAIN groups /\ IsNew(r.name, r.login)
  <2> DEFINE m == NewMessage(System, r.login)
  <2>1. m \in Message /\ {r.login} \in SUBSET (Names \cup {NoneUser})
    BY SystemMessage, RequestFields
  <2> HIDE DEF m
  <2>2. groups' = [groups EXCEPT ![r.name] = [members |-> @.members \cup {r.login},
                                              messages |-> Append(@.messages, m)]]
    BY <1>2 DEF Join, m
  <2>3. GroupGrows(r.name, {r.login}, m)
    BY <1>2, <2>1, <2>2, GroupExcept
  <2> QED BY <1>2, <2>3 DEF Join, Announces, MembersOf, IsNew, m
<1> QED BY <1>1, <1>2

LEMMA TargetFound ==
  ASSUME Served, NEW r, PrivateTarget(r) # 0
  PROVE  PrivateTarget(r) \in DOMAIN privates
BY FirstOfPlaces DEF PrivateTarget, Served

LEMMA PutMsgCases ==
  ASSUME Served, NEW r \in RequestType, PutMsg(r), r.cmd = "push_msg", r.login \in users
  PROVE  Same \/ WritesGroup(r) \/ WritesPrivate(r)
<1> DEFINE m == NewMessage(r.login, <<r.mode, r.name>>)
<1>1. m \in Message
  BY UserMessage
<1> HIDE DEF m
<1>2. CASE r.mode = "GROUP" /\ r.name \in DOMAIN groups
  <2>1. groups' = [groups EXCEPT ![r.name].messages = Append(@, m)]
    BY <1>2 DEF PutMsg, m
  <2>2. GroupGrows(r.name, {}, m)
    BY <1>1, <1>2, <2>1, GroupExcept
  <2> QED BY <1>2, <2>2 DEF PutMsg, WritesGroup, m
<1>3. CASE r.mode = "PRIVATE" /\ PrivateTarget(r) # 0
  <2> DEFINE k == PrivateTarget(r)
             p == privates[k]
             n == [p EXCEPT !.messages = Append(@, m)]
  <2>1. k \in DOMAIN privates
    BY <1>3, TargetFound
  <2> HIDE DEF k
  <2>2. privates' = [privates EXCEPT ![k].messages = Append(@, m)]
    BY <1>3 DEF PutMsg, m, k
  <2>3. p \in Chat
    BY <2>1 DEF Served
  <2>4. Append(p.messages, m) \in Seq(Message)
    BY <1>1, <2>3, ChatFields
  <2>5. n \in Chat /\ n.user1 = p.user1 /\ n.user2 = p.user2 /\ n.messages = Append(p.messages, m)
    BY <2>3, <2>4 DEF Chat
  <2>6. privates' = [privates EXCEPT ![k] = n]
    BY <2>1, <2>2, <2>3
  <2> HIDE DEF n
  <2>7. /\ privates' \in Seq(Chat) /\ Len(privates') = Len(privates)
        /\ \A i \in DOMAIN privates \ {k} : privates'[i] = privates[i]
        /\ privates'[k] = n
    BY <2>1, <2>5, <2>6, ExceptSeq DEF Served
  <2>8. PrivateGrows(k, m)
    BY <1>1, <2>1, <2>5, <2>7 DEF PrivateGrows
  <2> QED BY <1>3, <2>8 DEF PutMsg, WritesPrivate, m, k
<1>4. CASE IF r.mode = "GROUP" THEN r.name \notin DOMAIN groups ELSE PrivateTarget(r) = 0
  BY <1>4 DEF PutMsg, Same
<1> QED BY <1>2, <1>3, <1>4 DEF PutMsg

LEMMA PrivateCases ==
  ASSUME Served, NEW r \in RequestType, Private(r), r.cmd = "private", r.login \in users
  PROVE  Same \/ AddsPrivate(r)
<1> DEFINE new == [user1 |-> r.login, user2 |-> r.name, messages |-> <<>>]
<1>1. <<>> \in Seq(Message)
  OBVIOUS
<1>2. new \in Chat
  BY <1>1, RequestFields DEF Chat
<1> QED BY <1>2 DEF Private, Same, AddsPrivate

LEMMA HandlerCases ==
  ASSUME Served, NEW r \in RequestType, RequestHandler(r)
  PROVE  ServedCases(r)
<1>1. CASE r.cmd = "login" /\ Login(r)
  BY <1>1 DEF Login, LogsIn, Same, ServedCases
<1>2. CASE UNCHANGED serverVars
  BY <1>2 DEF serverVars, Same, ServedCases
<1>3. CASE r.cmd = "logout" /\ Logout(r)
  BY <1>3 DEF Logout, LogsOut, ServedCases
<1>4. CASE r.cmd = "private" /\ Private(r) /\ r.login \in users
  BY <1>4, PrivateCases DEF ServedCases
<1>5. CASE r.cmd = "create" /\ Create(r) /\ r.login \in users
  BY <1>5, CreateCases DEF ServedCases
<1>6. CASE r.cmd = "join" /\ Join(r) /\ r.login \in users
  BY <1>6, JoinCases DEF ServedCases
<1>7. CASE r.cmd = "push_msg" /\ PutMsg(r) /\ r.login \in users
  BY <1>7, PutMsgCases DEF ServedCases
<1>8. CASE r.cmd = "get_msg" /\ GetMsg(r)
  BY <1>8 DEF GetMsg, Same, ServedCases
<1> QED BY <1>1, <1>2, <1>3, <1>4, <1>5, <1>6, <1>7, <1>8 DEF RequestHandler

Member(name, u) == name \in DOMAIN groups /\ u \in groups[name].members

\* The numbers of all messages have been given out.
IdsBounded ==
  /\ \A g \in DOMAIN groups : Ids(groups[g].messages) \subseteq 1..counter
  /\ \A i \in DOMAIN privates : Ids(privates[i].messages) \subseteq 1..counter

\* The numbers of the messages in the chat that a get_msg reads; and what its
\* answer carries of them.
Read(r) == IF r.mode = "GROUP" THEN Ids(groups[r.name].messages)
           ELSE Ids(privates[ChatOf(r.login, r.name)].messages)

ReadIs(r) ==
  /\ \/ r.mode = "GROUP" /\ r.name \in DOMAIN groups
     \/ r.mode = "PRIVATE" /\ ChatOf(r.login, r.name) # 0
  /\ pending'.ids = {i \in Read(r) : i > r.last}
  /\ pending'.last = r.last \/ pending'.last \in Read(r)

\* The answers of the commands.
LEMMA DoneType ==
  ASSUME NEW r \in RequestType, Done(r)
  PROVE  /\ pending' \in AnswerType /\ pending' # NoAnswer
         /\ pending'.to = r.client /\ pending'.by = r.by /\ pending'.cmd = r.cmd
         /\ pending'.ok
         /\ pending'.name = r.name /\ pending'.last = 0 /\ pending'.ids = {}
<1>1. r.cmd \in Commands /\ TRUE \in BOOLEAN /\ 0 \in Nat /\ {} \in SUBSET Nat
  BY RequestFields
<1> QED BY <1>1, ResponseType, ZenonT(60) DEF Done

LEMMA FailedType ==
  ASSUME NEW r \in RequestType, NEW cmd \in Commands, Failed(r, cmd)
  PROVE  /\ pending' \in AnswerType /\ pending' # NoAnswer
         /\ pending'.to = r.client /\ pending'.by = r.by /\ pending'.cmd = cmd
         /\ ~pending'.ok
         /\ pending'.name = r.name /\ pending'.last = 0 /\ pending'.ids = {}
<1>1. FALSE \in BOOLEAN /\ 0 \in Nat /\ {} \in SUBSET Nat
  OBVIOUS
<1> QED BY <1>1, ResponseType, ZenonT(60) DEF Failed

\* A chat that ChatOf finds is one of the two users.
LEMMA ChatPlace ==
  ASSUME Served, NEW u, NEW v, ChatOf(u, v) # 0
  PROVE  /\ ChatOf(u, v) \in DOMAIN privates
         /\ {privates[ChatOf(u, v)].user1, privates[ChatOf(u, v)].user2} = {u, v}
<1> DEFINE places == {i \in DOMAIN privates : {privates[i].user1, privates[i].user2} = {u, v}}
<1>1. places \in SUBSET (Nat \ {0})
  BY DEF Served
<1>2. ChatOf(u, v) = FirstPrivate(places)
  BY DEF ChatOf
<1>3. ChatOf(u, v) \in places
  <2> HIDE DEF places
  <2> QED BY <1>1, <1>2, FirstOfPlaces
<1> QED BY <1>3

LEMMA GetMsgAnswer ==
  ASSUME Served, IdsBounded, NEW r \in RequestType, r.cmd = "get_msg", GetMsg(r)
  PROVE  /\ pending' \in AnswerType /\ pending' # NoAnswer
         /\ pending'.to = r.client /\ pending'.by = r.by /\ pending'.cmd = "get_msg"
         /\ pending'.name = r.name
         /\ pending'.ok => ReadIs(r)
         /\ ~pending'.ok => pending'.last = 0
<1>1. CASE Failed(r, "get_msg")
  <2>1. "get_msg" \in Commands
    BY DEF Commands
  <2> QED BY <1>1, <2>1, FailedType
<1>2. ASSUME NEW messages, Ids(messages) \subseteq 1..counter, Ids(messages) = Read(r),
             LET new == {i \in Ids(messages) : i > r.last}
             IN  Response(r, r.cmd, TRUE, Sets!Max(new \cup {r.last}), new),
             \/ r.mode = "GROUP" /\ r.name \in DOMAIN groups
             \/ r.mode = "PRIVATE" /\ ChatOf(r.login, r.name) # 0
      PROVE  /\ pending' \in AnswerType /\ pending' # NoAnswer
             /\ pending'.to = r.client /\ pending'.by = r.by /\ pending'.cmd = "get_msg"
             /\ pending'.name = r.name
             /\ pending'.ok /\ ReadIs(r)
  <2> DEFINE new == {i \in Ids(messages) : i > r.last}
             all == new \cup {r.last}
  <2>1. r.last \in Nat /\ counter \in Nat /\ r.cmd \in Commands
    BY RequestFields DEF Served
  <2>2. new \in SUBSET Nat /\ all \in SUBSET Nat /\ all # {}
    BY <1>2, <2>1
  <2>3. r.last + counter \in Nat /\ \A y \in all : y <= r.last + counter
    BY <1>2, <2>1
  <2>4. Sets!Max(all) \in all
    <3> HIDE DEF all
    <3> QED BY <2>2, <2>3, MaxIsLargest
  <2>5. Sets!Max(all) \in Nat
    BY <2>2, <2>4
  <2>6. Response(r, r.cmd, TRUE, Sets!Max(all), new)
    BY <1>2
  <2>7. /\ pending' \in AnswerType /\ pending' # NoAnswer
        /\ pending'.to = r.client /\ pending'.by = r.by /\ pending'.cmd = "get_msg"
        /\ pending'.name = r.name
        /\ pending'.ok /\ pending'.last = Sets!Max(all) /\ pending'.ids = new
    <3> HIDE DEF all, new
    <3>1. TRUE \in BOOLEAN
      OBVIOUS
    <3> QED BY <2>1, <2>2, <2>5, <2>6, <3>1, ResponseType, ZenonT(60)
  <2>8. ReadIs(r)
    BY <1>2, <2>4, <2>7 DEF ReadIs
  <2> QED BY <2>7, <2>8
<1>3. CASE /\ r.mode = "GROUP" /\ r.name \in DOMAIN groups
           /\ LET new == {i \in Ids(groups[r.name].messages) : i > r.last}
              IN  Response(r, r.cmd, TRUE, Sets!Max(new \cup {r.last}), new)
  <2>1. Ids(groups[r.name].messages) \subseteq 1..counter /\ Ids(groups[r.name].messages) = Read(r)
    BY <1>3 DEF IdsBounded, Read
  <2> QED BY <1>2, <1>3, <2>1
<1>4. CASE /\ r.mode = "PRIVATE" /\ ChatOf(r.login, r.name) # 0
           /\ LET new == {i \in Ids(privates[ChatOf(r.login, r.name)].messages) : i > r.last}
              IN  Response(r, r.cmd, TRUE, Sets!Max(new \cup {r.last}), new)
  <2> DEFINE k == ChatOf(r.login, r.name)
  <2>1. k \in DOMAIN privates
    BY <1>4, ChatPlace
  <2>2. Ids(privates[k].messages) \subseteq 1..counter /\ Ids(privates[k].messages) = Read(r)
    BY <1>4, <2>1 DEF IdsBounded, Read
  <2> QED BY <1>2, <1>4, <2>2
<1> QED BY <1>1, <1>3, <1>4 DEF GetMsg

\* All that is used of the answer to a request.
Reply(r) ==
  /\ pending' \in AnswerType /\ pending' # NoAnswer
  /\ pending'.to = r.client /\ pending'.by = r.by /\ pending'.name = r.name
  /\ r.cmd # "logout"
  /\ pending'.ok => pending'.cmd = r.cmd
  /\ pending'.cmd = "login" <=> r.cmd = "login"
  /\ pending'.ok /\ r.cmd = "login" => LogsIn(r)
  /\ pending'.ok /\ r.cmd \in {"create", "join"} =>
       r.name \in DOMAIN groups' /\ r.login \in groups'[r.name].members
  /\ pending'.ok /\ r.cmd = "get_msg" => ReadIs(r)
  /\ (pending'.ok /\ r.cmd = "get_msg") \/ pending'.last = 0

LEMMA Replies ==
  ASSUME Served, IdsBounded, pending = NoAnswer, NEW r \in RequestType, RequestHandler(r)
  PROVE  pending' = NoAnswer \/ Reply(r)
<1>1. CASE r.cmd = "login" /\ Login(r)
  <2>1. "login" \in Commands
    BY DEF Commands
  <2>2. CASE Done(r) /\ LogsIn(r)
    BY <1>1, <2>2, DoneType DEF Reply, Member
  <2>3. CASE Failed(r, "login")
    BY <1>1, <2>1, <2>3, FailedType DEF Reply
  <2> QED BY <1>1, <2>2, <2>3 DEF Login, LogsIn
<1>2. CASE UNCHANGED serverVars
  BY <1>2 DEF serverVars
<1>3. CASE r.cmd = "logout" /\ Logout(r)
  BY <1>3 DEF Logout
<1>4. CASE r.cmd = "private" /\ Private(r)
  <2>1. "private" \in Commands
    BY DEF Commands
  <2>2. Done(r) \/ Failed(r, "private")
    BY <1>4 DEF Private
  <2> QED BY <1>4, <2>1, <2>2, DoneType, FailedType DEF Reply
<1>5. CASE r.cmd = "create" /\ Create(r) /\ r.login \in users
  <2>1. "create" \in Commands
    BY DEF Commands
  <2>2. CASE Failed(r, "create")
    BY <1>5, <2>1, <2>2, FailedType DEF Reply
  <2>3. CASE Done(r) /\ r.name \notin DOMAIN groups
    <3>1. Announces(r)
      <4>1. Same \/ Announces(r)
        BY <1>5, CreateCases
      <4>2. counter' # counter
        BY <1>5, <2>3 DEF Create, Served
      <4> QED BY <4>1, <4>2 DEF Same
    <3>2. Member(r.name, r.login)'
      BY <3>1 DEF Announces, GroupGrows, Member
    <3> QED BY <1>5, <2>3, <3>2, DoneType DEF Reply, Member
  <2> QED BY <1>5, <2>2, <2>3 DEF Create
<1>6. CASE r.cmd = "join" /\ Join(r) /\ r.login \in users
  <2>1. "join" \in Commands
    BY DEF Commands
  <2>2. CASE Failed(r, "join")
    BY <1>6, <2>1, <2>2, FailedType DEF Reply
  <2>3. CASE Done(r) /\ r.name \in DOMAIN groups
    <3>1. Member(r.name, r.login)'
      <4>1. CASE Announces(r)
        BY <4>1 DEF Announces, GroupGrows, Member
      <4>2. CASE Same
        <5>1. ~IsNew(r.name, r.login)
          BY <1>6, <2>3, <4>2 DEF Join, Same, Served
        <5> QED BY <2>3, <4>2, <5>1 DEF Same, IsNew, Member
      <4> QED BY <1>6, <4>1, <4>2, JoinCases
    <3> QED BY <1>6, <2>3, <3>1, DoneType DEF Reply, Member
  <2> QED BY <1>6, <2>2, <2>3 DEF Join
<1>7. CASE r.cmd = "push_msg" /\ PutMsg(r)
  <2>1. "get_msg" \in Commands
    BY DEF Commands
  <2>2. Done(r) \/ Failed(r, "get_msg")
    BY <1>7 DEF PutMsg
  <2> QED BY <1>7, <2>1, <2>2, DoneType, FailedType DEF Reply
<1>8. CASE r.cmd = "get_msg" /\ GetMsg(r)
  BY <1>8, GetMsgAnswer DEF Reply
<1> QED BY <1>1, <1>2, <1>3, <1>4, <1>5, <1>6, <1>7, <1>8 DEF RequestHandler

\* A request keeps the server's variables in their types.
LEMMA ServedStep ==
  ASSUME Served, IdsBounded, pending = NoAnswer, NEW r \in RequestType, RequestHandler(r)
  PROVE  Served'
<1>1. pending' \in AnswerType \cup {NoAnswer}
  BY Replies DEF Reply
<1> USE <1>1 DEF Served
<1>2. CASE Same
  BY <1>2 DEF Same
<1>3. CASE LogsIn(r)
  BY <1>3, RequestFields DEF LogsIn
<1>4. CASE LogsOut(r)
  BY <1>4 DEF LogsOut
<1>5. CASE AddsPrivate(r)
  BY <1>5, RangeOfAppend DEF AddsPrivate
<1>6. CASE Announces(r)
  BY <1>6 DEF Announces, GroupGrows
<1>7. CASE WritesGroup(r)
  BY <1>7, SMTT(60) DEF WritesGroup, GroupGrows
<1>8. CASE WritesPrivate(r)
  BY <1>8, SMTT(60) DEF WritesPrivate, PrivateGrows
<1> QED BY HandlerCases, <1>2, <1>3, <1>4, <1>5, <1>6, <1>7, <1>8 DEF ServedCases

-----------------------------------------------------------------------------
(* The server: members and announcements, private chats, message numbers.  *)

\* The places of the messages that say that u joined.
Announced(s, u) == {i \in DOMAIN s : s[i].from = System /\ s[i].text = u}

IsSingle(S) == \E i \in S : S = {i}

\* The users of a private chat.
Pair(i) == {privates[i].user1, privates[i].user2}

\* ServerConsistent, with no count in it; and neither System nor the login of
\* nobody is ever a user, so that only Create and Join announce.
ServerInv ==
  /\ {System, NoneUser} \cap users = {}
  /\ authorized \subseteq users
  /\ \A g \in DOMAIN groups : groups[g].members \subseteq users
  /\ \A g \in DOMAIN groups : \A u \in Logins :
       IF u \in groups[g].members THEN IsSingle(Announced(groups[g].messages, u))
       ELSE Announced(groups[g].messages, u) = {}
  /\ \A i, j \in DOMAIN privates : Pair(i) = Pair(j) => i = j

LEMMA AnnouncedAppend ==
  ASSUME NEW s \in Seq(Message), NEW m \in Message, NEW u
  PROVE  Announced(Append(s, m), u)
           = Announced(s, u) \cup (IF m.from = System /\ m.text = u THEN {Len(s) + 1} ELSE {})
BY RangeOfAppend DEF Announced

LEMMA IdsAppend ==
  ASSUME NEW s \in Seq(Message), NEW m \in Message
  PROVE  Ids(Append(s, m)) = Ids(s) \cup {m.id}
<1> DEFINE t == Append(s, m)
<1>1. /\ DOMAIN t = DOMAIN s \cup {Len(s) + 1} /\ t[Len(s) + 1] = m
      /\ \A i \in DOMAIN s : t[i] = s[i]
  BY RangeOfAppend
<1> HIDE DEF t
<1> QED BY <1>1 DEF Ids

LEMMA OldMessages ==
  ASSUME Served, NEW g
  PROVE  /\ MessagesOf(g) \in Seq(Message)
         /\ MembersOf(g) \in SUBSET (Names \cup {NoneUser})
<1>1. <<>> \in Seq(Message)
  OBVIOUS
<1> QED BY <1>1, GroupFields DEF Served, MessagesOf, MembersOf

\* A request keeps ServerInv.
LEMMA ServerInvStep ==
  ASSUME Served, ServerInv, NEW r \in RequestType, RequestHandler(r)
  PROVE  ServerInv'
<1>1. CASE Same
  BY <1>1 DEF Same, ServerInv, Pair
<1>2. CASE LogsIn(r)
  BY <1>2 DEF LogsIn, MayLogIn, ServerInv, Pair
<1>3. CASE LogsOut(r)
  BY <1>3, SMTT(60) DEF LogsOut, ServerInv, Pair
<1>4. CASE AddsPrivate(r)
  <2> DEFINE new == [user1 |-> r.login, user2 |-> r.name, messages |-> <<>>]
             places == {i \in DOMAIN privates : Pair(i) = {r.login, r.name}}
  <2>1. /\ new \in Chat /\ privates' = Append(privates, new)
        /\ new.user1 = r.login /\ new.user2 = r.name
    BY <1>4 DEF AddsPrivate
  <2> HIDE DEF new
  <2>2. /\ DOMAIN privates' = DOMAIN privates \cup {Len(privates) + 1}
        /\ privates'[Len(privates) + 1] = new
        /\ \A i \in DOMAIN privates : privates'[i] = privates[i]
    BY <2>1, RangeOfAppend DEF Served
  <2>3. places = {}
    <3>1. places \in SUBSET (Nat \ {0})
      BY DEF Served
    <3>2. FirstPrivate(places) = 0
      BY <1>4 DEF AddsPrivate, ChatOf, Pair
    <3> HIDE DEF places
    <3> QED BY <3>1, <3>2, FirstOfPlaces
  <2>4. ASSUME NEW i \in DOMAIN privates', NEW j \in DOMAIN privates', Pair(i)' = Pair(j)'
        PROVE  i = j
    <3>0. PICK n : n = Len(privates) + 1
      OBVIOUS
    <3>1. \A k \in DOMAIN privates : Pair(k)' = Pair(k)
      BY <2>2 DEF Pair
    <3>2. Pair(n)' = {r.login, r.name}
      BY <2>1, <2>2, <3>0 DEF Pair
    <3>3. \A k \in DOMAIN privates : Pair(k) # {r.login, r.name}
      BY <2>3
    <3>4. DOMAIN privates' = DOMAIN privates \cup {n}
      BY <2>2, <3>0
    <3> QED BY <2>4, <3>1, <3>2, <3>3, <3>4 DEF ServerInv
  <2> QED BY <1>4, <2>4 DEF AddsPrivate, ServerInv
<1>5. ASSUME NEW name, NEW joined \in SUBSET users, NEW m, GroupGrows(name, joined, m),
             UNCHANGED <<users, authorized, privates>>,
             \/ joined = {} /\ m.from # System /\ name \in DOMAIN groups
             \/ /\ m.from = System /\ joined = {m.text}
                /\ m.text \notin MembersOf(name)
      PROVE  ServerInv'
  <2>1. ASSUME NEW g \in DOMAIN groups' PROVE groups'[g].members \subseteq users'
    BY <1>5, <2>1 DEF GroupGrows, MembersOf, ServerInv
  <2>2. ASSUME NEW g \in DOMAIN groups', NEW u \in Logins
        PROVE  IF u \in groups'[g].members THEN IsSingle(Announced(groups'[g].messages, u))
               ELSE Announced(groups'[g].messages, u) = {}
    <3>1. CASE g # name
      BY <1>5, <2>2, <3>1, ZenonT(60) DEF GroupGrows, ServerInv
    <3>2. CASE g = name
      <4> DEFINE s == MessagesOf(name)
      <4>1. s \in Seq(Message) /\ m \in Message
        BY <1>5, OldMessages DEF GroupGrows
      <4>2. IF u \in MembersOf(name) THEN IsSingle(Announced(s, u)) ELSE Announced(s, u) = {}
        <5>1. CASE name \in DOMAIN groups
          BY <5>1 DEF ServerInv, MembersOf, MessagesOf
        <5>2. CASE name \notin DOMAIN groups
          <6>1. s = <<>> /\ MembersOf(name) = {}
            BY <5>2 DEF MembersOf, MessagesOf
          <6>2. Announced(<<>>, u) = {}
            BY DEF Announced
          <6> QED BY <6>1, <6>2
        <5> QED BY <5>1, <5>2
      <4>3. /\ groups'[g].messages = Append(s, m)
            /\ groups'[g].members = MembersOf(name) \cup joined
        BY <1>5, <3>2 DEF GroupGrows
      <4> HIDE DEF s
      <4>4. Announced(groups'[g].messages, u)
              = Announced(s, u) \cup (IF m.from = System /\ m.text = u THEN {Len(s) + 1} ELSE {})
        BY <4>1, <4>3, AnnouncedAppend
      <4>5. CASE m.from = System /\ m.text = u
        <5>1. u \notin MembersOf(name) /\ u \in groups'[g].members
          BY <1>5, <4>3, <4>5
        <5>2. Announced(groups'[g].messages, u) = {Len(s) + 1}
          BY <4>2, <4>4, <4>5, <5>1
        <5> QED BY <5>1, <5>2 DEF IsSingle
      <4>6. CASE ~(m.from = System /\ m.text = u)
        <5>1. u \in MembersOf(name) <=> u \in groups'[g].members
          BY <1>5, <4>3, <4>6
        <5>2. Announced(groups'[g].messages, u) = Announced(s, u)
          BY <4>4, <4>6
        <5> QED BY <4>2, <5>1, <5>2
      <4> QED BY <4>5, <4>6
    <3> QED BY <3>1, <3>2
  <2> QED BY <1>5, <2>1, <2>2 DEF ServerInv, Pair
<1>6. CASE Announces(r)
  <2> DEFINE m == NewMessage(System, r.login)
  <2>1. m.from = System /\ m.text = r.login
    BY DEF NewMessage
  <2> HIDE DEF m
  <2>2. GroupGrows(r.name, {r.login}, m) /\ r.login \in users /\ r.login \notin MembersOf(r.name)
        /\ UNCHANGED <<users, authorized, privates>>
    BY <1>6 DEF Announces, m
  <2> QED BY <1>5, <2>1, <2>2
<1>7. CASE WritesGroup(r)
  <2> DEFINE m == NewMessage(r.login, <<r.mode, r.name>>)
  <2>1. m.from = r.login
    BY DEF NewMessage
  <2> HIDE DEF m
  <2>2. GroupGrows(r.name, {}, m) /\ r.login \in users /\ r.name \in DOMAIN groups
        /\ UNCHANGED <<users, authorized, privates>>
    BY <1>7 DEF WritesGroup, m
  <2>3. m.from # System
    BY <2>1, <2>2 DEF ServerInv
  <2> QED BY <1>5, <2>2, <2>3
<1>8. CASE WritesPrivate(r)
  <2>1. \A i \in DOMAIN privates' : i \in DOMAIN privates /\ Pair(i)' = Pair(i)
    BY <1>8, SMTT(60) DEF WritesPrivate, PrivateGrows, Served, Pair
  <2> QED BY <1>8, <2>1 DEF WritesPrivate, ServerInv
<1> QED BY HandlerCases, <1>1, <1>2, <1>3, <1>4, <1>6, <1>7, <1>8 DEF ServedCases

LEMMA ServerInvSuffices == ServerInv => ServerConsistent
<1> SUFFICES ASSUME ServerInv PROVE ServerConsistent
  OBVIOUS
<1>1. ASSUME NEW g \in DOMAIN groups, NEW u \in Logins
      PROVE  Cardinality(Announced(groups[g].messages, u)) = IF u \in groups[g].members THEN 1 ELSE 0
  BY FS_EmptySet, FS_Singleton DEF ServerInv, IsSingle
<1> QED BY <1>1 DEF ServerInv, ServerConsistent, Announced, Pair

\* A request gives out numbers in order.
LEMMA IdsBoundedStep ==
  ASSUME Served, IdsBounded, NEW r \in RequestType, RequestHandler(r)
  PROVE  IdsBounded' /\ counter' \in Nat /\ counter <= counter'
<1>0. counter \in Nat
  BY DEF Served
<1>1. CASE Same
  BY <1>0, <1>1 DEF Same, IdsBounded
<1>2. CASE LogsIn(r)
  BY <1>0, <1>2 DEF LogsIn, IdsBounded
<1>3. CASE LogsOut(r)
  BY <1>0, <1>3 DEF LogsOut, IdsBounded
<1>4. CASE AddsPrivate(r)
  <2> DEFINE new == [user1 |-> r.login, user2 |-> r.name, messages |-> <<>>]
  <2>1. new \in Chat /\ privates' = Append(privates, new) /\ Ids(new.messages) = {}
    BY <1>4 DEF AddsPrivate, Ids
  <2> HIDE DEF new
  <2>2. /\ DOMAIN privates' = DOMAIN privates \cup {Len(privates) + 1}
        /\ privates'[Len(privates) + 1] = new
        /\ \A i \in DOMAIN privates : privates'[i] = privates[i]
    BY <2>1, RangeOfAppend DEF Served
  <2>3. \A i \in DOMAIN privates' : Ids(privates'[i].messages) \subseteq 1..counter
    BY <2>1, <2>2 DEF IdsBounded
  <2> QED BY <1>0, <1>4, <2>3 DEF AddsPrivate, IdsBounded
<1>5. ASSUME NEW from, NEW text, counter' = counter + 1
      PROVE  NewMessage(from, text).id \in 1..counter' /\ 1..counter \subseteq 1..counter'
  BY <1>0, <1>5 DEF NewMessage
<1>6. ASSUME NEW name, NEW joined, NEW m, GroupGrows(name, joined, m), UNCHANGED privates,
             m.id \in 1..counter', 1..counter \subseteq 1..counter'
      PROVE  IdsBounded'
  <2>1. ASSUME NEW g \in DOMAIN groups' PROVE Ids(groups'[g].messages) \subseteq 1..counter'
    <3>1. CASE g # name
      BY <1>6, <2>1, <3>1 DEF GroupGrows, IdsBounded
    <3>2. CASE g = name
      <4>1. Ids(MessagesOf(name)) \subseteq 1..counter
        <5>1. Ids(<<>>) = {}
          BY DEF Ids
        <5> QED BY <5>1 DEF IdsBounded, MessagesOf
      <4>2. /\ MessagesOf(name) \in Seq(Message) /\ m \in Message
            /\ groups'[g].messages = Append(MessagesOf(name), m)
        BY <1>6, <3>2, OldMessages DEF GroupGrows
      <4>3. Ids(groups'[g].messages) = Ids(MessagesOf(name)) \cup {m.id}
        BY <4>2, IdsAppend
      <4> QED BY <1>6, <4>1, <4>3
    <3> QED BY <3>1, <3>2
  <2> QED BY <1>6, <2>1 DEF IdsBounded
<1>7. CASE Announces(r)
  <2>1. counter' = counter + 1 /\ UNCHANGED privates
        /\ GroupGrows(r.name, {r.login}, NewMessage(System, r.login))
    BY <1>7 DEF Announces
  <2> QED BY <1>0, <1>5, <1>6, <2>1
<1>8. CASE WritesGroup(r)
  <2>1. counter' = counter + 1 /\ UNCHANGED privates
        /\ GroupGrows(r.name, {}, NewMessage(r.login, <<r.mode, r.name>>))
    BY <1>8 DEF WritesGroup
  <2> QED BY <1>0, <1>5, <1>6, <2>1
<1>9. CASE WritesPrivate(r)
  <2> DEFINE m == NewMessage(r.login, <<r.mode, r.name>>)
             k == PrivateTarget(r)
  <2>1. /\ counter' = counter + 1 /\ UNCHANGED groups /\ PrivateGrows(k, m)
        /\ m.id \in 1..counter' /\ 1..counter \subseteq 1..counter'
    BY <1>5, <1>9 DEF WritesPrivate
  <2> HIDE DEF m, k
  <2>2. /\ k \in DOMAIN privates /\ m \in Message
        /\ DOMAIN privates' = DOMAIN privates
        /\ \A i \in DOMAIN privates \ {k} : privates'[i] = privates[i]
        /\ privates'[k].messages = Append(privates[k].messages, m)
        /\ privates[k].messages \in Seq(Message)
    BY <2>1, ChatFields DEF PrivateGrows, Served
  <2>3. Ids(privates'[k].messages) = Ids(privates[k].messages) \cup {m.id}
    BY <2>2, IdsAppend
  <2>4. ASSUME NEW i \in DOMAIN privates' PROVE Ids(privates'[i].messages) \subseteq 1..counter'
    <3>1. Ids(privates[i].messages) \subseteq 1..counter
      BY <2>2, <2>4 DEF IdsBounded
    <3> QED BY <2>1, <2>2, <2>3, <2>4, <3>1
  <2>5. \A g \in DOMAIN groups' : Ids(groups'[g].messages) \subseteq 1..counter'
    BY <2>1 DEF IdsBounded
  <2> QED BY <1>0, <2>1, <2>4, <2>5 DEF IdsBounded
<1> QED BY HandlerCases, <1>1, <1>2, <1>3, <1>4, <1>7, <1>8, <1>9 DEF ServedCases

-----------------------------------------------------------------------------
(* Types, and what each thread of a client does.                           *)

\* The type invariant.
TypeOK ==
  /\ Served
  /\ ClientOK
  /\ inputs \in Nat /\ patient \in BOOLEAN
  /\ requests \in Seq(RequestType)
  /\ answers \in [Clients -> Seq(AnswerType)]

LEMMA ClientFields ==
  ASSUME NEW o \in ClientType
  PROVE  /\ o.state \in States /\ o.login \in Logins \cup {NoneUser} /\ o.chat \in Names
         /\ o.last \in Nat
         /\ o.input \in RequestType \cup {NoRequest} /\ o.updater \in RequestType \cup {NoRequest}
         /\ o.life \in {"on", "leaving", "off"} /\ o.shown \in SUBSET Nat
         /\ o.waiting \in BOOLEAN /\ o.opened \in Nat
BY DEF ClientType

\* BackToMenu.
Leaves(c) ==
  LET o == client[c]
      n == client'[c]
  IN  /\ o.state \in InChat /\ n.state = "InMainMenu"
      /\ n.login = o.login /\ n.chat = o.chat /\ n.last = o.last
      /\ n.input = o.input /\ n.updater = o.updater /\ n.life = o.life
      /\ n.waiting = o.waiting /\ n.opened = o.opened
      /\ patient' => patient

\* Exit: unless nobody is logged in, the logout is the last request.
Quits(c) ==
  LET o == client[c]
      n == client'[c]
  IN  /\ o.input = NoRequest /\ o.life = "on" /\ n.updater = NoRequest
      /\ n.state = o.state /\ n.login = o.login /\ n.chat = o.chat /\ n.last = o.last
      /\ n.waiting = o.waiting /\ n.opened = o.opened /\ n.shown = o.shown
      /\ IF o.state = "NotLogin" THEN n.life = "off" /\ n.input = NoRequest
         ELSE /\ n.life = "leaving"
              /\ n.input \in RequestType /\ n.input.client = c /\ n.input.by = "input"
              /\ n.input.cmd = "logout" /\ n.input.login = o.login /\ n.input.last = 0

\* UpdateChat: the chat and the last number are those of now.
Updates(c) ==
  LET o == client[c]
      n == client'[c]
      q == client'[c].updater
  IN  /\ o.state \in InChat /\ n.input = o.input /\ n.life = o.life
      /\ n.state = o.state /\ n.login = o.login /\ n.chat = o.chat /\ n.last = o.last
      /\ n.waiting = o.waiting /\ n.opened = o.opened /\ n.shown = o.shown
      /\ q \in RequestType /\ q.client = c /\ q.by = "updater" /\ q.cmd = "get_msg"
      /\ q.login = o.login /\ q.mode = ChatMode(c) /\ q.name = o.chat /\ q.last = o.last

LoggingOut(c, t) == t = "input" /\ client[c].input.cmd = "logout"

\* Sent: the request of a thread is put, or lost; a logout changes the state.
Puts(c, t) ==
  LET o == client[c]
      n == client'[c]
  IN  /\ n[t] = NoRequest /\ \A u \in Threads \ {t} : n[u] = o[u]
      /\ n.login = o.login /\ n.chat = o.chat /\ n.last = o.last
      /\ n.waiting = o.waiting /\ n.opened = o.opened /\ n.shown = o.shown
      /\ IF LoggingOut(c, t)
         THEN n.state = "NotLogin" /\ (o.life = "on" <=> n.life = "on")
         ELSE n.state = o.state /\ n.life = o.life

\* AnswerHandler with the answer a.
Takes(c, a) ==
  LET o == client[c]
      n == client'[c]
  IN  /\ o.life = "on"
      /\ n.login = o.login /\ n.input = o.input /\ n.updater = o.updater /\ n.life = o.life
      /\ n.waiting <=> (o.waiting /\ a.by # "input")
      /\ \/ /\ a.ok /\ a.cmd = "login" /\ n.state = "InMainMenu"
            /\ n.chat = o.chat /\ n.last = o.last /\ n.shown = o.shown /\ n.opened = o.opened
         \/ /\ a.ok /\ a.cmd \in {"join", "create", "private"}
            /\ n.state = IF a.cmd = "private" THEN "InPrivateChat" ELSE "InGroupChat"
            /\ n.chat = a.name /\ n.last = 0 /\ n.shown = o.shown /\ n.opened = o.opened + 1
         \/ /\ a.ok /\ a.cmd = "get_msg"
            /\ n.state = o.state /\ n.chat = o.chat /\ n.opened = o.opened
            /\ n.last = a.last /\ n.shown = o.shown \cup a.ids
         \/ /\ n.state = o.state /\ n.chat = o.chat /\ n.last = o.last
            /\ n.shown = o.shown /\ n.opened = o.opened

Moved(c) == client' \in [Clients -> ClientType] /\ Others(c)

LEMMA Replaced ==
  ASSUME ClientOK, NEW c \in Clients, NEW n \in ClientType, client' = [client EXCEPT ![c] = n]
  PROVE  Moved(c) /\ client'[c] = n
BY DEF ClientOK, Moved, Others

LEMMA CmdNames ==
  /\ Commands = {"login", "logout", "private", "create", "join", "push_msg", "get_msg"}
  /\ "" \in Names /\ Logins \subseteq Names /\ GroupNames \subseteq Names
BY DEF Commands, Names

\* The steps of a client, one lemma for each action.
LEMMA AskCase ==
  ASSUME ClientOK, NEW c \in Clients, NEW cmd \in Commands, NEW mode \in {"", "GROUP", "PRIVATE"},
         NEW name \in Names, NEW new \in ClientType,
         Ask(c, cmd, mode, name, new), MayType(c),
         new.state = client[c].state, new.chat = client[c].chat, new.last = client[c].last,
         new.updater = client[c].updater, new.life = client[c].life,
         \/ /\ cmd = "login" /\ client[c].state = "NotLogin" /\ new.login = name
            /\ new.opened = client[c].opened /\ new.shown = client[c].shown
         \/ /\ cmd \notin {"login", "get_msg"} /\ client[c].state # "NotLogin"
            /\ new.login = client[c].login
            /\ cmd = "push_msg" /\ mode = "GROUP" => client[c].state = "InGroupChat" /\ name = client[c].chat
            /\ \/ new.opened = client[c].opened /\ (new.shown = client[c].shown \/ client[c].state = "InMainMenu")
               \/ new.opened = client[c].opened + 1
  PROVE  Moved(c) /\ Asks(c)
<1> DEFINE q == Request(c, "input", cmd, mode, name, 0)
<1>1. /\ client' \in [Clients -> ClientType] /\ Others(c)
      /\ q \in RequestType
      /\ client'[c].input = q
      /\ client'[c].waiting <=> cmd # "logout"
      /\ client'[c].state = new.state /\ client'[c].login = new.login
      /\ client'[c].chat = new.chat /\ client'[c].last = new.last
      /\ client'[c].updater = new.updater /\ client'[c].life = new.life
      /\ client'[c].shown = new.shown /\ client'[c].opened = new.opened
  BY AskFields, ZenonT(60)
<1>2. /\ q.client = c /\ q.by = "input" /\ q.cmd = cmd /\ q.mode = mode /\ q.name = name /\ q.last = 0
      /\ client[c].state # "NotLogin" => q.login = client[c].login
  BY DEF Request, Sender
<1>3. client[c].life = "on" /\ client[c].input = NoRequest /\ (patient' => patient /\ ~client[c].waiting)
  BY DEF MayType, Ask, Typed
<1> HIDE DEF q
<1> QED BY <1>1, <1>2, <1>3, ZenonT(60) DEF Asks, Moved

LEMMA UserCases ==
  ASSUME TypeOK, NEW c \in Clients, User(c)
  PROVE  Moved(c) /\ (Asks(c) \/ Leaves(c)) /\ inputs' \in Nat /\ patient' \in BOOLEAN
<1> DEFINE o == client[c]
<1>0. o \in ClientType /\ ClientOK /\ inputs \in Nat /\ patient \in BOOLEAN
  BY DEF TypeOK, ClientOK
<1>1. ASSUME NEW l \in Logins, CmdLogin(c, l) PROVE Moved(c) /\ Asks(c)
  <2> DEFINE new == [o EXCEPT !.login = l]
  <2>1. /\ new \in ClientType /\ new.login = l
        /\ new.state = o.state /\ new.chat = o.chat /\ new.last = o.last
        /\ new.updater = o.updater /\ new.life = o.life
        /\ new.opened = o.opened /\ new.shown = o.shown
    BY <1>0 DEF ClientType
  <2>2. Ask(c, "login", "", l, new) /\ MayType(c) /\ o.state = "NotLogin"
    BY <1>1 DEF CmdLogin
  <2> HIDE DEF new
  <2>3. l \in Names /\ "login" \in Commands
    BY CmdNames
  <2> QED BY <1>0, <2>1, <2>2, <2>3, AskCase
<1>2. ASSUME CmdLogout(c) PROVE Moved(c) /\ Asks(c)
  <2> DEFINE new == [o EXCEPT !.shown = {}]
  <2>1. /\ new \in ClientType /\ new.login = o.login
        /\ new.state = o.state /\ new.chat = o.chat /\ new.last = o.last
        /\ new.updater = o.updater /\ new.life = o.life
        /\ new.opened = o.opened
    BY <1>0 DEF ClientType
  <2>2. Ask(c, "logout", "", "", new) /\ MayType(c) /\ o.state = "InMainMenu"
    BY <1>2 DEF CmdLogout
  <2> HIDE DEF new
  <2>3. "" \in Names /\ "logout" \in Commands
    BY CmdNames
  <2> QED BY <1>0, <2>1, <2>2, <2>3, AskCase
<1>3. ASSUME NEW cmd \in {"join", "create", "private"}, NEW name \in Names, CmdOpen(c, cmd, name)
      PROVE  Moved(c) /\ Asks(c)
  <2>1. Ask(c, cmd, "", name, o) /\ MayType(c) /\ o.state = "InMainMenu"
    BY <1>3 DEF CmdOpen
  <2>2. cmd \in Commands
    BY CmdNames
  <2> QED BY <1>0, <2>1, <2>2, AskCase
<1>4. ASSUME CmdPush(c) PROVE Moved(c) /\ Asks(c)
  <2>1. Ask(c, "push_msg", ChatMode(c), o.chat, o) /\ MayType(c) /\ o.state \in InChat
    BY <1>4 DEF CmdPush
  <2>2. "push_msg" \in Commands /\ o.chat \in Names /\ ChatMode(c) \in {"", "GROUP", "PRIVATE"}
    BY <1>0, CmdNames, ClientFields DEF ChatMode
  <2>3. o.state # "NotLogin" /\ (ChatMode(c) = "GROUP" => o.state = "InGroupChat")
    BY <2>1 DEF ChatMode, InChat
  <2> QED BY <1>0, <2>1, <2>2, <2>3, AskCase
<1>5. ASSUME NEW cmd \in {"join", "private"}, NEW name \in Names, Choose(c, cmd, name)
      PROVE  Moved(c) /\ Asks(c)
  <2>0. PICK k \in Nat : k = o.opened + 1
    BY <1>0, ClientFields
  <2> DEFINE new == [o EXCEPT !.shown = {}, !.opened = k]
  <2>1. /\ new \in ClientType /\ new.login = o.login
        /\ new.state = o.state /\ new.chat = o.chat /\ new.last = o.last
        /\ new.updater = o.updater /\ new.life = o.life
        /\ new.opened = o.opened + 1
    BY <1>0, <2>0 DEF ClientType
  <2>2. Ask(c, cmd, "", name, new) /\ MayType(c) /\ o.state # "NotLogin"
    BY <1>0, <1>5, <2>0 DEF Choose, ClientType
  <2> HIDE DEF new
  <2>3. cmd \in Commands
    BY CmdNames
  <2> QED BY <1>0, <2>1, <2>2, <2>3, AskCase
<1>6. ASSUME BackToMenu(c) PROVE Moved(c) /\ Leaves(c)
  <2> DEFINE n == [o EXCEPT !.state = "InMainMenu", !.shown = {}]
  <2>1. /\ n \in ClientType /\ n.state = "InMainMenu"
        /\ n.login = o.login /\ n.chat = o.chat /\ n.last = o.last
        /\ n.input = o.input /\ n.updater = o.updater /\ n.life = o.life
        /\ n.waiting = o.waiting /\ n.opened = o.opened
    BY <1>0 DEF ClientType, States
  <2>2. client' = [client EXCEPT ![c] = n] /\ o.state \in InChat /\ (patient' => patient)
    BY <1>0, <1>6 DEF BackToMenu, Typed, ClientOK
  <2> HIDE DEF n
  <2> QED BY <1>0, <2>1, <2>2, Replaced DEF Leaves
<1>7. Moved(c) /\ (Asks(c) \/ Leaves(c))
  BY <1>1, <1>2, <1>3, <1>4, <1>5, <1>6, CmdNames DEF User
<1>8. Typed(c) /\ MayType(c)
  BY Zenon DEF User, CmdLogin, CmdLogout, CmdOpen, CmdPush, Choose, BackToMenu, Ask
<1>9. inputs' \in Nat
  BY <1>0, <1>8 DEF Typed, MayType
<1>10. patient' \in BOOLEAN
  BY <1>8, Zenon DEF Typed
<1> QED BY <1>7, <1>9, <1>10

LEMMA ExitCase ==
  ASSUME ClientOK, NEW c \in Clients, Exit(c)
  PROVE  Moved(c) /\ Quits(c)
<1> DEFINE o == client[c]
           q == Request(c, "input", "logout", "", "", 0)
           n == [o EXCEPT !.updater = NoRequest,
                          !.life = IF o.state = "NotLogin" THEN "off" ELSE "leaving",
                          !.input = IF o.state = "NotLogin" THEN NoRequest ELSE q]
<1>1. o \in ClientType
  BY DEF ClientOK
<1>2. q \in RequestType
  BY <1>1, CmdNames, ClientFields DEF Request, RequestType, Sender, Threads
<1>3. q.client = c /\ q.by = "input" /\ q.cmd = "logout" /\ q.last = 0
      /\ (o.state # "NotLogin" => q.login = o.login)
  BY DEF Request, Sender
<1>4. client' = [client EXCEPT ![c] = n]
  BY <1>1 DEF Exit, ClientOK
<1>5. o.life = "on" /\ o.input = NoRequest
  BY DEF Exit
<1> HIDE DEF q
<1>6. n \in ClientType
  BY <1>1, <1>2, ZenonT(60) DEF ClientType
<1>7. /\ n.updater = NoRequest
      /\ n.state = o.state /\ n.login = o.login /\ n.chat = o.chat /\ n.last = o.last
      /\ n.waiting = o.waiting /\ n.opened = o.opened /\ n.shown = o.shown
      /\ n.life = IF o.state = "NotLogin" THEN "off" ELSE "leaving"
      /\ n.input = IF o.state = "NotLogin" THEN NoRequest ELSE q
  BY <1>1 DEF ClientType
<1> HIDE DEF n
<1>8. Moved(c) /\ client'[c] = n
  BY <1>4, <1>6, Replaced
<1> QED BY <1>2, <1>3, <1>5, <1>7, <1>8 DEF Quits

LEMMA UpdateCase ==
  ASSUME ClientOK, NEW c \in Clients, UpdateChat(c)
  PROVE  Moved(c) /\ Updates(c)
<1> DEFINE o == client[c]
           q == Request(c, "updater", "get_msg", ChatMode(c), o.chat, o.last)
           n == [o EXCEPT !.updater = q]
<1>1. o \in ClientType
  BY DEF ClientOK
<1>2. q \in RequestType
  BY <1>1, CmdNames, ClientFields DEF Request, RequestType, Sender, Threads, ChatMode
<1>3. q.client = c /\ q.by = "updater" /\ q.cmd = "get_msg" /\ q.last = o.last
      /\ q.mode = ChatMode(c) /\ q.name = o.chat
      /\ (o.state # "NotLogin" => q.login = o.login)
  BY DEF Request, Sender
<1>4. client' = [client EXCEPT ![c] = n]
  BY <1>1 DEF UpdateChat, ClientOK
<1>5. o.state \in InChat /\ o.state # "NotLogin"
  BY DEF UpdateChat, InChat
<1> HIDE DEF q
<1>6. n \in ClientType
  BY <1>1, <1>2 DEF ClientType
<1>7. /\ n.updater = q /\ n.input = o.input /\ n.life = o.life
      /\ n.state = o.state /\ n.login = o.login /\ n.chat = o.chat /\ n.last = o.last
      /\ n.waiting = o.waiting /\ n.opened = o.opened /\ n.shown = o.shown
  BY <1>1 DEF ClientType
<1> HIDE DEF n
<1>8. Moved(c) /\ client'[c] = n
  BY <1>4, <1>6, Replaced
<1> QED BY <1>2, <1>3, <1>5, <1>7, <1>8 DEF Updates

LEMMA SentCase ==
  ASSUME ClientOK, NEW c \in Clients, NEW t \in Threads, Sent(c, t)
  PROVE  Moved(c) /\ Puts(c, t)
<1> DEFINE o == client[c]
           out == LoggingOut(c, t)
           st == IF out THEN "NotLogin" ELSE o.state
           li == IF out /\ o.life = "leaving" THEN "off" ELSE o.life
           n == [o EXCEPT ![t] = NoRequest, !.state = st, !.life = li]
<1>1. o \in ClientType
  BY DEF ClientOK
<1>2. t = "input" \/ t = "updater"
  BY DEF Threads
<1>3. o[t] \in RequestType \cup {NoRequest} /\ st \in States /\ li \in {"on", "leaving", "off"}
  BY <1>1, <1>2, ClientFields DEF States
<1>4. client' = [client EXCEPT ![c] = n]
  <2>1. CASE t = "input"
    BY <1>1, <2>1 DEF Sent, ClientOK, LoggingOut, ClientType
  <2>2. CASE t = "updater"
    BY <1>1, <2>2 DEF Sent, ClientOK, LoggingOut, ClientType
  <2> QED BY <1>2, <2>1, <2>2
<1> HIDE DEF st, li
<1>5. n \in ClientType /\ n[t] = NoRequest /\ \A u \in Threads \ {t} : n[u] = o[u]
  BY <1>1, <1>2, <1>3, ZenonT(60) DEF ClientType, Threads
<1>6. /\ n.state = st /\ n.life = li
      /\ n.login = o.login /\ n.chat = o.chat /\ n.last = o.last
      /\ n.waiting = o.waiting /\ n.opened = o.opened /\ n.shown = o.shown
  BY <1>1, <1>2 DEF ClientType
<1> HIDE DEF n
<1>7. Moved(c) /\ client'[c] = n
  BY <1>4, <1>5, Replaced
<1> QED BY <1>5, <1>6, <1>7 DEF Puts, st, li

LEMMA TakeCase ==
  ASSUME ClientOK, NEW c \in Clients, client[c].life = "on",
         NEW a \in AnswerType, AnswerHandler(c, a)
  PROVE  Moved(c) /\ Takes(c, a)
<1> DEFINE o == client[c]
           w == IF a.by = "input" THEN FALSE ELSE o.waiting
           answered == [o EXCEPT !.waiting = w]
<1>1. o \in ClientType
  BY DEF ClientOK
<1>2. w \in BOOLEAN /\ (w <=> (o.waiting /\ a.by # "input"))
  BY <1>1, ClientFields, Zenon
<1>3. a.name \in Names /\ a.last \in Nat /\ a.ids \in SUBSET Nat
  BY DEF AnswerType
<1> HIDE DEF w
<1>4. /\ answered \in ClientType /\ answered.waiting = w
      /\ answered.state = o.state /\ answered.login = o.login /\ answered.chat = o.chat
      /\ answered.last = o.last /\ answered.input = o.input /\ answered.updater = o.updater
      /\ answered.life = o.life /\ answered.shown = o.shown /\ answered.opened = o.opened
  BY <1>1, <1>2 DEF ClientType
<1>5. CASE Accepted(a) /\ a.cmd = "login"
           /\ client' = [client EXCEPT ![c] = [answered EXCEPT !.state = "InMainMenu"]]
  <2> DEFINE n == [answered EXCEPT !.state = "InMainMenu"]
  <2>1. /\ n \in ClientType /\ n.waiting = w
        /\ n.state = "InMainMenu" /\ n.login = o.login /\ n.chat = o.chat
        /\ n.last = o.last /\ n.input = o.input /\ n.updater = o.updater
        /\ n.life = o.life /\ n.shown = o.shown /\ n.opened = o.opened
    <3> HIDE DEF answered
    <3> QED BY <1>4 DEF ClientType, States
  <2>2. client' = [client EXCEPT ![c] = n]
    BY <1>5
  <2> HIDE DEF n, answered
  <2>3. Moved(c) /\ client'[c] = n
    BY <2>1, <2>2, Replaced
  <2> QED BY <1>2, <1>5, <2>1, <2>3 DEF Takes, Accepted
<1>6. CASE /\ Accepted(a) /\ a.cmd \in {"join", "create", "private"}
           /\ client' = [client EXCEPT ![c] = [answered EXCEPT
                !.state = IF a.cmd = "private" THEN "InPrivateChat" ELSE "InGroupChat",
                !.chat = a.name, !.last = 0, !.opened = @ + 1]]
  <2>0. PICK k \in Nat : k = answered.opened + 1
    <3> HIDE DEF answered
    <3> QED BY <1>4, ClientFields
  <2> DEFINE st == IF a.cmd = "private" THEN "InPrivateChat" ELSE "InGroupChat"
             n == [answered EXCEPT !.state = st, !.chat = a.name, !.last = 0, !.opened = k]
  <2>1. st \in States
    BY DEF States
  <2>2. client' = [client EXCEPT ![c] = n]
    <3> HIDE DEF answered
    <3> QED BY <1>4, <1>6, <2>0 DEF ClientType
  <2> HIDE DEF st
  <2>3. /\ n \in ClientType /\ n.waiting = w
        /\ n.state = st /\ n.login = o.login /\ n.chat = a.name
        /\ n.last = 0 /\ n.input = o.input /\ n.updater = o.updater
        /\ n.life = o.life /\ n.shown = o.shown /\ n.opened = k
    <3> HIDE DEF answered
    <3> QED BY <1>3, <1>4, <2>1 DEF ClientType
  <2>4. k = o.opened + 1
    BY <1>4, <2>0
  <2> HIDE DEF n, answered
  <2>5. Moved(c) /\ client'[c] = n
    BY <2>2, <2>3, Replaced
  <2> QED BY <1>2, <1>6, <2>3, <2>4, <2>5, ZenonT(60) DEF Takes, Accepted, st
<1>7. CASE /\ Accepted(a) /\ a.cmd = "get_msg"
           /\ client' = [client EXCEPT ![c] = [answered EXCEPT !.last = a.last, !.shown = @ \cup a.ids]]
  <2> DEFINE sh == o.shown \cup a.ids
             n == [answered EXCEPT !.last = a.last, !.shown = sh]
  <2>1. sh \in SUBSET Nat
    BY <1>1, <1>3, ClientFields
  <2>2. client' = [client EXCEPT ![c] = n]
    <3> HIDE DEF answered
    <3> QED BY <1>4, <1>7 DEF ClientType
  <2> HIDE DEF sh
  <2>3. /\ n \in ClientType /\ n.waiting = w
        /\ n.state = o.state /\ n.login = o.login /\ n.chat = o.chat
        /\ n.last = a.last /\ n.input = o.input /\ n.updater = o.updater
        /\ n.life = o.life /\ n.shown = sh /\ n.opened = o.opened
    <3> HIDE DEF answered
    <3> QED BY <1>3, <1>4, <2>1 DEF ClientType
  <2> HIDE DEF n, answered
  <2>4. Moved(c) /\ client'[c] = n
    BY <2>2, <2>3, Replaced
  <2> QED BY <1>2, <1>7, <2>3, <2>4 DEF Takes, Accepted, sh
<1>8. CASE client' = [client EXCEPT ![c] = answered]
  <2> HIDE DEF answered
  <2>1. Moved(c) /\ client'[c] = answered
    BY <1>4, <1>8, Replaced
  <2> QED BY <1>2, <1>4, <2>1 DEF Takes
<1> QED BY <1>5, <1>6, <1>7, <1>8 DEF AnswerHandler, w

LEMMA InitType == Init => TypeOK
<1> SUFFICES ASSUME Init PROVE TypeOK
  OBVIOUS
<1>1. <<>> \in Seq(Chat) /\ <<>> \in Seq(RequestType) /\ <<>> \in Seq(AnswerType)
  OBVIOUS
<1>2. groups \in [DOMAIN groups -> Group]
  <2>1. groups = <<>>
    BY DEF Init, InitServer
  <2>2. DOMAIN <<>> = {}
    OBVIOUS
  <2>3. <<>> \in [{} -> Group]
    OBVIOUS
  <2> QED BY <2>1, <2>2, <2>3
<1>3. Served
  BY <1>1, <1>2 DEF Init, InitServer, Served
<1>4. ClientOK
  <2> DEFINE n == [state |-> "NotLogin", login |-> NoneUser, chat |-> "", last |-> 0,
               input |-> NoRequest, updater |-> NoRequest, life |-> "on", shown |-> {},
               waiting |-> FALSE, opened |-> 0]
  <2>1. n \in ClientType
    BY CmdNames DEF ClientType, States
  <2>2. client = [c \in Clients |-> n]
    BY DEF Init, InitClient
  <2> HIDE DEF n
  <2> QED BY <2>1, <2>2 DEF ClientOK
<1>5. inputs \in Nat /\ patient \in BOOLEAN
  <2>1. inputs = MaxInputs /\ patient = TRUE
    BY DEF Init, InitClient
  <2> QED BY <2>1, ClientAssumption
<1>6. requests \in Seq(RequestType) /\ answers \in [Clients -> Seq(AnswerType)]
  BY <1>1 DEF Init
<1> QED BY <1>3, <1>4, <1>5, <1>6 DEF TypeOK

LEMMA PipeCase ==
  ASSUME TypeOK, NEW c \in Clients, NEW t \in Threads, Send(c, t)
  PROVE  /\ Moved(c) /\ Puts(c, t) /\ pending = NoAnswer
         /\ client[c][t] # NoRequest /\ client[c][t] \in RequestType
         /\ requests' = requests \/ requests' = Append(requests, client[c][t])
         /\ requests' \in Seq(RequestType)
<1>1. client[c] \in ClientType
  BY DEF TypeOK, ClientOK
<1>2. client[c][t] # NoRequest /\ client[c][t] \in RequestType
  <2>1. t = "input" \/ t = "updater"
    BY DEF Threads
  <2> QED BY <1>1, <2>1, ClientFields DEF Send
<1>3. requests' = requests \/ requests' = Append(requests, client[c][t])
  BY DEF Send, Put
<1>4. requests' \in Seq(RequestType)
  BY <1>2, <1>3, RangeOfAppend, SMTT(60) DEF TypeOK
<1> QED BY <1>2, <1>3, <1>4, SentCase DEF Send, TypeOK

LEMMA RespondCase ==
  ASSUME TypeOK, Respond
  PROVE  /\ pending \in AnswerType /\ pending # NoAnswer /\ pending.to \in Clients
         /\ pending' = NoAnswer /\ client[pending.to].life = "on"
         /\ answers' \in [Clients -> Seq(AnswerType)]
         /\ \A d \in Clients \ {pending.to} : answers'[d] = answers[d]
         /\ \/ answers'[pending.to] = answers[pending.to]
            \/ answers'[pending.to] = Append(answers[pending.to], pending)
<1>1. pending \in AnswerType /\ pending # NoAnswer /\ pending.to \in Clients
  BY DEF Respond, TypeOK, Served, AnswerType
<1>2. PICK q \in Put(answers[pending.to], pending) : answers' = [answers EXCEPT ![pending.to] = q]
  BY DEF Respond
<1>3. q = answers[pending.to] \/ q = Append(answers[pending.to], pending)
  BY DEF Put
<1>4. answers \in [Clients -> Seq(AnswerType)]
  BY DEF TypeOK
<1>5. q \in Seq(AnswerType)
  <2>1. answers[pending.to] \in Seq(AnswerType)
    BY <1>1, <1>4
  <2> QED BY <1>1, <1>3, <2>1, RangeOfAppend, SMTT(60)
<1>6. /\ answers' \in [Clients -> Seq(AnswerType)] /\ answers'[pending.to] = q
      /\ \A d \in Clients \ {pending.to} : answers'[d] = answers[d]
  BY <1>1, <1>2, <1>4, <1>5
<1> QED BY <1>1, <1>3, <1>6 DEF Respond

LEMMA ReceiveCase ==
  ASSUME TypeOK, NEW c \in Clients, Receive(c)
  PROVE  /\ Moved(c) /\ Takes(c, Head(answers[c]))
         /\ answers[c] # <<>> /\ answers[c] \in Seq(AnswerType) /\ Head(answers[c]) \in AnswerType
         /\ answers' \in [Clients -> Seq(AnswerType)]
         /\ answers'[c] = Tail(answers[c])
         /\ \A d \in Clients \ {c} : answers'[d] = answers[d]
<1>1. answers[c] \in Seq(AnswerType) /\ answers[c] # <<>> /\ answers \in [Clients -> Seq(AnswerType)]
  BY DEF TypeOK, Receive
<1>2. Head(answers[c]) \in AnswerType /\ Tail(answers[c]) \in Seq(AnswerType)
  BY <1>1, RangeOfTail
<1>3. Moved(c) /\ Takes(c, Head(answers[c]))
  BY <1>2, TakeCase DEF Receive, TypeOK
<1>4. answers' = [answers EXCEPT ![c] = Tail(answers[c])]
  BY DEF Receive
<1> QED BY <1>1, <1>2, <1>3, <1>4

\* Every step keeps the types.
LEMMA TypeStep ==
  ASSUME TypeOK, IdsBounded, Next
  PROVE  TypeOK'
<1>1. CASE Handle
  <2>1. Head(requests) \in RequestType /\ Tail(requests) \in Seq(RequestType)
    BY <1>1, RangeOfTail DEF Handle, TypeOK
  <2>2. Served'
    BY <1>1, <2>1, ServedStep DEF Handle, TypeOK
  <2> QED BY <1>1, <2>1, <2>2 DEF Handle, TypeOK, ClientOK, clientVars
<1>2. CASE Respond
  BY <1>2, RespondCase DEF Respond, TypeOK, Served, ClientOK, clientVars
<1>3. ASSUME NEW c \in Clients, User(c) PROVE TypeOK'
  BY <1>3, UserCases DEF User, TypeOK, Served, ClientOK, serverVars, pipeVars, Moved
<1>4. ASSUME NEW c \in Clients, UserExit(c) PROVE TypeOK'
  BY <1>4, ExitCase DEF UserExit, TypeOK, Served, ClientOK, serverVars, pipeVars, Moved
<1>5. ASSUME NEW c \in Clients, Update(c) PROVE TypeOK'
  BY <1>5, UpdateCase DEF Update, TypeOK, Served, ClientOK, serverVars, pipeVars, Moved
<1>6. ASSUME NEW c \in Clients, Receive(c) PROVE TypeOK'
  BY <1>6, ReceiveCase DEF Receive, TypeOK, Served, ClientOK, serverVars, pipeVars, Moved
<1>7. ASSUME NEW c \in Clients, NEW t \in Threads, Send(c, t) PROVE TypeOK'
  BY <1>7, PipeCase DEF Send, TypeOK, Served, ClientOK, serverVars, pipeVars, Moved
<1> QED BY <1>1, <1>2, <1>3, <1>4, <1>5, <1>6, <1>7 DEF Next

-----------------------------------------------------------------------------
(* The messages under way: where they come from.                           *)

\* The requests of a client that the server has not taken, and the answers to it
\* that it has not taken.
Outgoing(c) == {r \in Range(requests) : r.client = c}
                 \cup ({client[c].input, client[c].updater} \ {NoRequest})
Incoming(c) == Range(answers[c])
                 \cup (IF pending # NoAnswer /\ pending.to = c THEN {pending} ELSE {})

\* A request says truly whose it is, and which thread's: only the updater asks
\* for messages, and only it asks for nothing else.
Origins ==
  /\ \A c \in Clients :
       /\ client[c].input # NoRequest =>
            client[c].input.client = c /\ client[c].input.by = "input" /\ client[c].input.cmd # "get_msg"
       /\ client[c].updater # NoRequest =>
            client[c].updater.client = c /\ client[c].updater.by = "updater" /\ client[c].updater.cmd = "get_msg"
       /\ \A a \in Incoming(c) : a.ok /\ a.by = "updater" => a.cmd = "get_msg"
  /\ \A r \in Range(requests) : r.by = "updater" <=> r.cmd = "get_msg"

\* Requests under way are at most the old ones and, of client c, new; answers
\* the old ones and, to c, given.  Losses make them fewer.
Flows(c, new, given) ==
  \A d \in Clients :
    /\ Outgoing(d)' \subseteq Outgoing(d) \cup (IF d = c THEN new ELSE {})
    /\ Incoming(d)' \subseteq Incoming(d) \cup (IF d = c THEN given ELSE {})

\* What each action adds to the messages under way.
LEMMA HandleFlows ==
  ASSUME TypeOK, IdsBounded, Handle
  PROVE  LET r == Head(requests)
         IN  /\ r \in RequestType /\ r.client \in Clients /\ r \in Outgoing(r.client) /\ r \in Range(requests)
             /\ RequestHandler(r) /\ pending = NoAnswer
             /\ pending' = NoAnswer \/ Reply(r)
             /\ client' = client /\ answers' = answers /\ patient' = patient
             /\ requests' = Tail(requests) /\ Range(requests') \subseteq Range(requests)
             /\ Flows(r.client, {}, {pending'} \ {NoAnswer})
<1> DEFINE r == Head(requests)
<1>1. /\ RequestHandler(r) /\ pending = NoAnswer /\ requests' = Tail(requests)
      /\ client' = client /\ answers' = answers /\ patient' = patient
      /\ requests \in Seq(RequestType) /\ requests # <<>>
  BY DEF Handle, clientVars, TypeOK
<1>2. r \in RequestType /\ r \in Range(requests) /\ Range(requests') \subseteq Range(requests)
  BY <1>1, RangeOfTail
<1>3. r.client \in Clients /\ r \in Outgoing(r.client)
  BY <1>2, RequestFields DEF Outgoing
<1>4. pending' = NoAnswer \/ Reply(r)
  BY <1>1, <1>2, Replies DEF TypeOK
<1>5. Flows(r.client, {}, {pending'} \ {NoAnswer})
  <2>1. pending' # NoAnswer => pending'.to = r.client
    BY <1>4 DEF Reply
  <2> QED BY <1>1, <1>2, <2>1 DEF Flows, Outgoing, Incoming
<1> QED BY <1>1, <1>2, <1>3, <1>4, <1>5

LEMMA RespondFlows ==
  ASSUME TypeOK, Respond, NEW c
  PROVE  Flows(c, {}, {})
<1>1. \A d \in Clients : Outgoing(d)' = Outgoing(d)
  BY DEF Respond, Outgoing, clientVars
<1>2. ASSUME NEW d \in Clients PROVE Incoming(d)' \subseteq Incoming(d)
  <2>1. answers[d] \in Seq(AnswerType) /\ pending \in AnswerType /\ pending # NoAnswer /\ pending' = NoAnswer
    BY RespondCase DEF TypeOK
  <2>2. CASE pending.to = d
    <3>1. Range(answers'[d]) \subseteq Range(answers[d]) \cup {pending}
      <4>1. Range(Append(answers[d], pending)) = Range(answers[d]) \cup {pending}
        BY <2>1, RangeOfAppend
      <4>2. answers'[d] = answers[d] \/ answers'[d] = Append(answers[d], pending)
        BY <2>2, RespondCase
      <4> QED BY <4>1, <4>2
    <3> QED BY <2>1, <2>2, <3>1 DEF Incoming
  <2>3. CASE pending.to # d
    BY <2>1, <2>3, RespondCase DEF Incoming
  <2> QED BY <2>2, <2>3
<1> QED BY <1>1, <1>2 DEF Flows

LEMMA ClientFlows ==
  ASSUME TypeOK, NEW c \in Clients, Moved(c), UNCHANGED <<serverVars, pipeVars>>
  PROVE  Flows(c, {client'[c].input, client'[c].updater} \ {NoRequest, client[c].input, client[c].updater}, {})
BY DEF Flows, Outgoing, Incoming, Moved, Others, serverVars, pipeVars

LEMMA AsksFlows ==
  ASSUME TypeOK, NEW c \in Clients, Moved(c), Asks(c), UNCHANGED <<serverVars, pipeVars>>
  PROVE  Flows(c, {client'[c].input}, {})
BY ClientFlows DEF Flows, Asks

LEMMA LeavesFlows ==
  ASSUME TypeOK, NEW c \in Clients, Moved(c), Leaves(c), UNCHANGED <<serverVars, pipeVars>>
  PROVE  Flows(c, {}, {})
BY ClientFlows DEF Flows, Leaves

LEMMA QuitsFlows ==
  ASSUME TypeOK, NEW c \in Clients, Moved(c), Quits(c), UNCHANGED <<serverVars, pipeVars>>
  PROVE  Flows(c, {client'[c].input} \ {NoRequest}, {})
BY ClientFlows DEF Flows, Quits

LEMMA UpdatesFlows ==
  ASSUME TypeOK, NEW c \in Clients, Moved(c), Updates(c), UNCHANGED <<serverVars, pipeVars>>
  PROVE  Flows(c, {client'[c].updater}, {})
BY ClientFlows DEF Flows, Updates

LEMMA SendFlows ==
  ASSUME TypeOK, Origins, NEW c \in Clients, NEW t \in Threads, Send(c, t)
  PROVE  /\ Flows(c, {}, {})
         /\ client[c][t] \in Outgoing(c)
         /\ Range(requests') \subseteq Range(requests) \cup {client[c][t]}
<1> DEFINE q == client[c][t]
<1>1. t = "input" \/ t = "updater"
  BY DEF Threads
<1>2. q # NoRequest /\ q \in RequestType /\ (requests' = requests \/ requests' = Append(requests, q))
      /\ requests \in Seq(RequestType)
  BY PipeCase DEF TypeOK
<1>3. Range(requests') \subseteq Range(requests) \cup {q}
  <2> HIDE DEF q
  <2>1. Range(Append(requests, q)) = Range(requests) \cup {q}
    BY <1>2, RangeOfAppend
  <2> QED BY <1>2, <2>1
<1>4. q \in Outgoing(c)
  BY <1>1, <1>2 DEF Outgoing
<1>5. Moved(c) /\ Puts(c, t) /\ UNCHANGED <<serverVars, answers>> /\ q.client = c
  BY <1>1, <1>2, PipeCase DEF Send, Origins
<1>6. ASSUME NEW d \in Clients PROVE Outgoing(d)' \subseteq Outgoing(d)
  <2>1. CASE d = c
    <3>1. {client'[c].input, client'[c].updater} \subseteq {client[c].input, client[c].updater, NoRequest}
      BY <1>1, <1>5 DEF Puts, Threads
    <3> QED BY <1>3, <1>4, <2>1, <3>1 DEF Outgoing
  <2>2. CASE d # c
    BY <1>3, <1>5, <2>2 DEF Outgoing, Moved, Others
  <2> QED BY <2>1, <2>2
<1>7. \A d \in Clients : Incoming(d)' = Incoming(d)
  BY <1>5 DEF Incoming, serverVars
<1> QED BY <1>3, <1>4, <1>6, <1>7 DEF Flows

LEMMA ReceiveFlows ==
  ASSUME TypeOK, NEW c \in Clients, Receive(c)
  PROVE  Flows(c, {}, {}) /\ Head(answers[c]) \in Incoming(c)
<1>1. Head(answers[c]) \in Range(answers[c]) /\ Range(answers'[c]) \subseteq Range(answers[c])
  BY ReceiveCase, RangeOfTail
<1>2. \A d \in Clients : Incoming(d)' \subseteq Incoming(d)
  BY <1>1, ReceiveCase DEF Incoming, Receive, serverVars
<1>3. \A d \in Clients : Outgoing(d)' = Outgoing(d)
  BY ReceiveCase, ZenonT(60) DEF Outgoing, Receive, Moved, Others, Takes
<1> QED BY <1>1, <1>2, <1>3 DEF Flows, Incoming

LEMMA OriginsStep ==
  ASSUME TypeOK, IdsBounded, Origins, Next
  PROVE  Origins'
<1>1. CASE Handle
  <2> DEFINE r == Head(requests)
  <2>1. r \in Range(requests) /\ (pending' = NoAnswer \/ Reply(r)) /\ Range(requests') \subseteq Range(requests)
        /\ client' = client /\ Flows(r.client, {}, {pending'} \ {NoAnswer})
    BY <1>1, HandleFlows
  <2>2. pending' # NoAnswer => (pending'.ok /\ pending'.by = "updater" => pending'.cmd = "get_msg")
    BY <2>1 DEF Reply, Origins
  <2> QED BY <2>1, <2>2 DEF Origins, Flows
<1>2. CASE Respond
  <2>1. \A d \in Clients : Incoming(d)' \subseteq Incoming(d)
    BY <1>2, RespondFlows DEF Flows
  <2> QED BY <1>2, <2>1 DEF Respond, Origins, clientVars
<1>3. ASSUME NEW c \in Clients, User(c) PROVE Origins'
  <2>1. Moved(c) /\ (Asks(c) \/ Leaves(c)) /\ UNCHANGED <<serverVars, pipeVars>>
    BY <1>3, UserCases DEF User
  <2> QED BY <2>1, AsksFlows, LeavesFlows DEF Asks, Leaves, Origins, Flows, Moved, Others, pipeVars
<1>4. ASSUME NEW c \in Clients, UserExit(c) PROVE Origins'
  <2>1. Moved(c) /\ Quits(c) /\ UNCHANGED <<serverVars, pipeVars>>
    BY <1>4, ExitCase DEF UserExit, TypeOK
  <2> QED BY <2>1, QuitsFlows DEF Quits, Origins, Flows, Moved, Others, pipeVars
<1>5. ASSUME NEW c \in Clients, Update(c) PROVE Origins'
  <2>1. Moved(c) /\ Updates(c) /\ UNCHANGED <<serverVars, pipeVars>>
    BY <1>5, UpdateCase DEF Update, TypeOK
  <2> QED BY <2>1, UpdatesFlows DEF Updates, Origins, Flows, Moved, Others, pipeVars
<1>6. ASSUME NEW c \in Clients, Receive(c) PROVE Origins'
  <2>1. Moved(c) /\ Flows(c, {}, {}) /\ client'[c].input = client[c].input
        /\ client'[c].updater = client[c].updater /\ requests' = requests
    BY <1>6, ReceiveCase, ReceiveFlows DEF Receive, Takes
  <2> QED BY <2>1 DEF Origins, Flows, Moved, Others
<1>7. ASSUME NEW c \in Clients, NEW t \in Threads, Send(c, t) PROVE Origins'
  <2>1. Moved(c) /\ Flows(c, {}, {}) /\ Puts(c, t)
        /\ Range(requests') \subseteq Range(requests) \cup {client[c][t]} /\ client[c][t] # NoRequest
    BY <1>7, PipeCase, SendFlows
  <2>2. t = "input" \/ t = "updater"
    BY DEF Threads
  <2>3. client'[c].input \in {client[c].input, NoRequest} /\ client'[c].updater \in {client[c].updater, NoRequest}
    BY <2>1, <2>2 DEF Puts, Threads
  <2>4. client[c][t].by = "updater" <=> client[c][t].cmd = "get_msg"
    BY <2>1, <2>2 DEF Origins
  <2> QED BY <2>1, <2>3, <2>4 DEF Origins, Flows, Moved, Others
<1> QED BY <1>1, <1>2, <1>3, <1>4, <1>5, <1>6, <1>7 DEF Next

-----------------------------------------------------------------------------
(* Numbers of messages, and what a reader has seen.                        *)

\* Nobody asks for messages after a number that has not been given out.
Numbered ==
  \A c \in Clients : /\ client[c].last <= counter
                     /\ \A r \in Outgoing(c) : r.last <= counter
                     /\ \A a \in Incoming(c) : a.last <= counter

\* All the messages of the open chat up to the k-th are on the screen, or among
\* ids.
SeenUpTo(c, k, ids) == \A n \in OpenMessages(c) : n <= k => n \in client[c].shown \cup ids

\* Of the first chat a client opens: every get_msg under way asks for that chat,
\* after a number up to which everything has been shown; every answer fills the
\* gap up to its own last number.
Reader(c) ==
  /\ client[c].opened = 0 =>
       /\ client[c].state \notin InChat
       /\ \A r \in Outgoing(c) : r.cmd # "get_msg"
       /\ \A a \in Incoming(c) : ~(a.ok /\ a.cmd = "get_msg")
  /\ client[c].opened = 1 /\ client[c].state \in InChat =>
       /\ SeenUpTo(c, client[c].last, {})
       /\ \A r \in Outgoing(c) : r.cmd = "get_msg" =>
            /\ r.login = client[c].login /\ r.mode = ChatMode(c) /\ r.name = client[c].chat
            /\ SeenUpTo(c, r.last, {})
       /\ \A a \in Incoming(c) : a.ok /\ a.cmd = "get_msg" => SeenUpTo(c, a.last, a.ids)

ReadersServed == \A c \in Clients : Reader(c)

LEMMA FlowTypes ==
  ASSUME TypeOK, NEW c \in Clients
  PROVE  /\ Outgoing(c) \subseteq RequestType /\ Incoming(c) \subseteq AnswerType
         /\ client[c] \in ClientType
<1>1. client[c] \in ClientType
  BY DEF TypeOK, ClientOK
<1>2. Range(requests) \subseteq RequestType
  BY RangeInSet DEF TypeOK
<1>3. Range(answers[c]) \subseteq AnswerType
  <2>1. answers[c] \in Seq(AnswerType)
    BY DEF TypeOK
  <2> QED BY <2>1, RangeInSet
<1>4. Outgoing(c) \subseteq RequestType
  BY <1>1, <1>2, ClientFields DEF Outgoing
<1>5. Incoming(c) \subseteq AnswerType
  BY <1>3 DEF Incoming, TypeOK, Served
<1> QED BY <1>1, <1>4, <1>5

LEMMA LastTypes ==
  ASSUME TypeOK, NEW c \in Clients
  PROVE  /\ client[c].last \in Nat /\ counter \in Nat /\ client[c].opened \in Nat
         /\ \A r \in Outgoing(c) : r.last \in Nat
         /\ \A a \in Incoming(c) : a.last \in Nat /\ a.ids \in SUBSET Nat
BY FlowTypes, ClientFields DEF RequestType, AnswerType, TypeOK, Served

LEMMA ReadBounded ==
  ASSUME Served, IdsBounded, NEW r, ReadIs(r)
  PROVE  Read(r) \subseteq 1..counter
BY ChatPlace DEF ReadIs, Read, IdsBounded

LEMMA NumberedStep ==
  ASSUME TypeOK, IdsBounded, Origins, Numbered, Next
  PROVE  Numbered'
<1>1. CASE Handle
  <2> DEFINE r == Head(requests)
  <2>1. /\ r \in RequestType /\ r.client \in Clients /\ r \in Outgoing(r.client)
        /\ RequestHandler(r) /\ client' = client
        /\ pending' = NoAnswer \/ Reply(r)
        /\ Flows(r.client, {}, {pending'} \ {NoAnswer})
    BY <1>1, HandleFlows
  <2>2. counter' \in Nat /\ counter <= counter' /\ counter \in Nat
    BY <2>1, IdsBoundedStep DEF TypeOK, Served
  <2>3. pending' # NoAnswer => pending'.last <= counter
    <3>1. r.last <= counter
      BY <2>1 DEF Numbered
    <3>2. ReadIs(r) => pending'.last <= counter
      BY <2>2, <3>1, ReadBounded DEF ReadIs, TypeOK
    <3> QED BY <2>1, <2>2, <3>2 DEF Reply
  <2>4. ASSUME NEW c \in Clients, NEW k \in Nat, k <= counter PROVE k <= counter'
    BY <2>2, <2>4
  <2>5. pending' # NoAnswer => pending'.last \in Nat
    BY <2>1 DEF Reply, AnswerType
  <2>6. ASSUME NEW c \in Clients
        PROVE  /\ client'[c].last <= counter'
               /\ \A q \in Outgoing(c)' : q.last <= counter'
               /\ \A a \in Incoming(c)' : a.last <= counter'
    <3>1. client'[c].last <= counter'
      BY <2>1, <2>4, LastTypes DEF Numbered
    <3>2. \A q \in Outgoing(c)' : q.last <= counter'
      BY <2>1, <2>4, LastTypes DEF Numbered, Flows
    <3>3. \A a \in Incoming(c)' : a.last <= counter'
      BY <2>1, <2>3, <2>4, <2>5, LastTypes DEF Numbered, Flows
    <3> QED BY <3>1, <3>2, <3>3
  <2> QED BY <2>6 DEF Numbered
<1>2. CASE Respond
  BY <1>2, RespondFlows DEF Respond, Numbered, Flows, clientVars
<1>0. 0 <= counter
  BY DEF TypeOK, Served
<1>3. ASSUME NEW c \in Clients, User(c) PROVE Numbered'
  <2>1. Moved(c) /\ (Asks(c) \/ Leaves(c)) /\ UNCHANGED <<serverVars, pipeVars>>
    BY <1>3, UserCases DEF User
  <2> QED BY <2>1, <1>0, AsksFlows, LeavesFlows DEF Asks, Leaves, Numbered, Flows, Moved, Others, serverVars
<1>4. ASSUME NEW c \in Clients, UserExit(c) PROVE Numbered'
  <2>1. Moved(c) /\ Quits(c) /\ UNCHANGED <<serverVars, pipeVars>>
    BY <1>4, ExitCase DEF UserExit, TypeOK
  <2> QED BY <2>1, <1>0, QuitsFlows DEF Quits, Numbered, Flows, Moved, Others, serverVars
<1>5. ASSUME NEW c \in Clients, Update(c) PROVE Numbered'
  <2>1. Moved(c) /\ Updates(c) /\ UNCHANGED <<serverVars, pipeVars>>
    BY <1>5, UpdateCase DEF Update, TypeOK
  <2> QED BY <2>1, UpdatesFlows DEF Updates, Numbered, Flows, Moved, Others, serverVars
<1>6. ASSUME NEW c \in Clients, Receive(c) PROVE Numbered'
  <2>1. Moved(c) /\ Flows(c, {}, {}) /\ Takes(c, Head(answers[c])) /\ Head(answers[c]) \in Incoming(c)
        /\ counter' = counter
    BY <1>6, ReceiveCase, ReceiveFlows DEF Receive, serverVars
  <2>2. client'[c].last <= counter
    BY <2>1, <1>0 DEF Takes, Numbered
  <2> QED BY <2>1, <2>2 DEF Numbered, Flows, Moved, Others
<1>7. ASSUME NEW c \in Clients, NEW t \in Threads, Send(c, t) PROVE Numbered'
  <2>1. Moved(c) /\ Flows(c, {}, {}) /\ Puts(c, t) /\ counter' = counter
    BY <1>7, PipeCase, SendFlows DEF Send, serverVars
  <2> QED BY <2>1 DEF Numbered, Flows, Moved, Others, Puts
<1> QED BY <1>1, <1>2, <1>3, <1>4, <1>5, <1>6, <1>7 DEF Next

\* Two users have one chat, so ChatOf finds the one there is.
LEMMA ChatIs ==
  ASSUME Served, ServerInv, NEW k \in DOMAIN privates, NEW u, NEW v, Pair(k) = {u, v}
  PROVE  ChatOf(u, v) = k
<1> DEFINE places == {i \in DOMAIN privates : {privates[i].user1, privates[i].user2} = {u, v}}
<1>1. places \in SUBSET (Nat \ {0}) /\ k \in places
  BY SMTT(60) DEF Served, Pair
<1>2. ChatOf(u, v) = FirstPrivate(places)
  BY DEF ChatOf
<1>3. ChatOf(u, v) \in places
  <2> HIDE DEF places
  <2> QED BY <1>1, <1>2, FirstOfPlaces, ZenonT(60)
<1> QED BY <1>1, <1>3 DEF ServerInv, Pair

\* The numbers in the chat of u and v, and in a group.
PrivateIds(u, v) == IF ChatOf(u, v) # 0 THEN Ids(privates[ChatOf(u, v)].messages) ELSE {}
GroupIds(g) == IF g \in DOMAIN groups THEN Ids(groups[g].messages) ELSE {}

LEMMA OpenIds ==
  ASSUME NEW c \in Clients
  PROVE  OpenMessages(c) = IF client[c].state = "InGroupChat" THEN GroupIds(client[c].chat)
                           ELSE IF client[c].state = "InPrivateChat" THEN PrivateIds(client[c].login, client[c].chat)
                           ELSE {}
BY DEF OpenMessages, GroupIds, PrivateIds

\* A request adds at most the next number to a chat; to that of two users too,
\* because the server never makes them a second one.
LEMMA GroupIdsStep ==
  ASSUME Served, NEW r \in RequestType, RequestHandler(r), NEW g, NEW n \in GroupIds(g)'
  PROVE  n \in GroupIds(g) \/ n = counter + 1
<1>1. CASE groups' = groups
  BY <1>1 DEF GroupIds
<1>2. ASSUME NEW name, NEW joined, NEW m, GroupGrows(name, joined, m), m.id = counter + 1
      PROVE  n \in GroupIds(g) \/ n = counter + 1
  <2>1. CASE g # name
    BY <1>2, <2>1 DEF GroupGrows, GroupIds
  <2>2. CASE g = name
    <3>1. groups'[g].messages = Append(MessagesOf(g), m) /\ MessagesOf(g) \in Seq(Message) /\ m \in Message
      BY <1>2, <2>2, OldMessages DEF GroupGrows
    <3>2. Ids(groups'[g].messages) = Ids(MessagesOf(g)) \cup {m.id}
      BY <3>1, IdsAppend
    <3>3. Ids(MessagesOf(g)) = GroupIds(g)
      <4>1. Ids(<<>>) = {}
        BY DEF Ids
      <4> QED BY <4>1 DEF MessagesOf, GroupIds
    <3> QED BY <1>2, <3>2, <3>3 DEF GroupIds
  <2> QED BY <2>1, <2>2
<1>3. CASE Announces(r)
  <2>1. NewMessage(System, r.login).id = counter + 1
    BY DEF NewMessage
  <2> QED BY <1>2, <1>3, <2>1 DEF Announces
<1>4. CASE WritesGroup(r)
  <2>1. NewMessage(r.login, <<r.mode, r.name>>).id = counter + 1
    BY DEF NewMessage
  <2> QED BY <1>2, <1>4, <2>1 DEF WritesGroup
<1> QED BY <1>1, <1>3, <1>4, HandlerCases DEF ServedCases, Same, LogsIn, LogsOut, AddsPrivate, WritesPrivate

LEMMA PrivateIdsStep ==
  ASSUME Served, ServerInv, Served', NEW r \in RequestType, RequestHandler(r),
         NEW u, NEW v, NEW n \in PrivateIds(u, v)'
  PROVE  n \in PrivateIds(u, v) \/ n = counter + 1
<1>1. CASE privates' = privates
  BY <1>1 DEF PrivateIds, ChatOf, FirstPrivate
<1>2. PICK k : k = ChatOf(u, v)'
  OBVIOUS
<1>3. /\ k # 0 /\ n \in Ids(privates'[k].messages) /\ k \in DOMAIN privates'
      /\ {privates'[k].user1, privates'[k].user2} = {u, v}
  <2>1. ChatOf(u, v)' # 0
    BY DEF PrivateIds
  <2>2. k \in DOMAIN privates' /\ {privates'[k].user1, privates'[k].user2} = {u, v}
    <3> DEFINE places == {i \in DOMAIN privates' : {privates'[i].user1, privates'[i].user2} = {u, v}}
    <3>1. places \in SUBSET (Nat \ {0})
      BY DEF Served
    <3>2. k = FirstPrivate(places)
      BY <1>2 DEF ChatOf, FirstPrivate
    <3>3. k \in places
      <4> HIDE DEF places
      <4> QED BY <1>2, <2>1, <3>1, <3>2, FirstOfPlaces
    <3> QED BY <3>3
  <2> QED BY <1>2, <2>1, <2>2 DEF PrivateIds
<1>4. CASE AddsPrivate(r)
  <2> DEFINE new == [user1 |-> r.login, user2 |-> r.name, messages |-> <<>>]
  <2>1. new \in Chat /\ privates' = Append(privates, new) /\ new.messages = <<>>
    BY <1>4 DEF AddsPrivate
  <2> HIDE DEF new
  <2>2. /\ DOMAIN privates' = DOMAIN privates \cup {Len(privates) + 1}
        /\ privates'[Len(privates) + 1] = new
        /\ \A i \in DOMAIN privates : privates'[i] = privates[i]
    BY <2>1, RangeOfAppend DEF Served
  <2>3. CASE k \in DOMAIN privates
    <3>1. Pair(k) = {u, v} /\ n \in Ids(privates[k].messages)
      BY <1>3, <2>2, <2>3 DEF Pair
    <3> QED BY <1>3, <2>3, <3>1, ChatIs DEF PrivateIds
  <2>4. CASE k = Len(privates) + 1
    <3>1. n \in Ids(<<>>)
      BY <1>3, <2>1, <2>2, <2>4
    <3> QED BY <3>1 DEF Ids
  <2> QED BY <1>3, <2>2, <2>3, <2>4
<1>5. CASE WritesPrivate(r)
  <2> DEFINE m == NewMessage(r.login, <<r.mode, r.name>>)
             j == PrivateTarget(r)
  <2>1. PrivateGrows(j, m) /\ m.id = counter + 1
    BY <1>5 DEF WritesPrivate, NewMessage
  <2> HIDE DEF m, j
  <2>2. k \in DOMAIN privates /\ Pair(k) = {u, v}
    <3>1. DOMAIN privates' = DOMAIN privates
      BY <2>1 DEF PrivateGrows, Served
    <3>2. privates'[k].user1 = privates[k].user1 /\ privates'[k].user2 = privates[k].user2
      BY <1>3, <2>1, <3>1 DEF PrivateGrows
    <3> QED BY <1>3, <3>1, <3>2 DEF Pair
  <2>3. PrivateIds(u, v) = Ids(privates[k].messages)
    BY <1>3, <2>2, ChatIs DEF PrivateIds
  <2>4. CASE k # j
    BY <1>3, <2>1, <2>2, <2>3, <2>4 DEF PrivateGrows
  <2>5. CASE k = j
    <3>1. /\ privates[k].messages \in Seq(Message) /\ m \in Message
          /\ privates'[k].messages = Append(privates[k].messages, m)
      BY <2>1, <2>2, <2>5, ChatFields DEF PrivateGrows, Served
    <3>2. Ids(privates'[k].messages) = Ids(privates[k].messages) \cup {m.id}
      BY <3>1, IdsAppend
    <3> QED BY <1>3, <2>1, <2>3, <3>2
  <2> QED BY <2>4, <2>5
<1> QED BY <1>1, <1>4, <1>5, HandlerCases DEF ServedCases, Same, LogsIn, LogsOut, Announces, WritesGroup

\* A step that leaves the client and the messages alone.
LEMMA ReaderKept ==
  ASSUME NEW c \in Clients, Reader(c), client'[c] = client[c],
         groups' = groups, privates' = privates,
         Outgoing(c)' \subseteq Outgoing(c), Incoming(c)' \subseteq Incoming(c)
  PROVE  Reader(c)'
<1>1. OpenMessages(c)' = OpenMessages(c) /\ ChatMode(c)' = ChatMode(c)
  BY DEF OpenMessages, ChatOf, FirstPrivate, ChatMode
<1> QED BY <1>1 DEF Reader, SeenUpTo

\* The server takes a request: new messages have numbers above everything asked
\* for, and an answer has all the messages after the number asked for.
LEMMA ReaderHandles ==
  ASSUME TypeOK, TypeOK', IdsBounded, ServerInv, Numbered, Handle, NEW c \in Clients, Reader(c)
  PROVE  Reader(c)'
<1> DEFINE r == Head(requests)
<1>1. /\ r \in RequestType /\ r.client \in Clients /\ r \in Outgoing(r.client)
      /\ RequestHandler(r) /\ client' = client
      /\ pending' = NoAnswer \/ Reply(r)
      /\ Flows(r.client, {}, {pending'} \ {NoAnswer})
  BY HandleFlows
<1>2. Served /\ Served'
  BY DEF TypeOK
<1> HIDE DEF r
<1>3. ASSUME NEW n \in OpenMessages(c)' PROVE n \in OpenMessages(c) \/ n = counter + 1
  <2>1. \A g : \A m \in GroupIds(g)' : m \in GroupIds(g) \/ m = counter + 1
    BY <1>1, <1>2, GroupIdsStep
  <2>2. \A u, v : \A m \in PrivateIds(u, v)' : m \in PrivateIds(u, v) \/ m = counter + 1
    BY <1>1, <1>2, PrivateIdsStep
  <2>3. PICK u, v : u = client[c].login /\ v = client[c].chat
    OBVIOUS
  <2>4. CASE client[c].state = "InGroupChat"
    <3>1. n \in GroupIds(v)'
      BY <1>1, <1>3, <2>3, <2>4 DEF OpenMessages, GroupIds
    <3> QED BY <2>1, <2>3, <2>4, <3>1, OpenIds
  <2>5. CASE client[c].state = "InPrivateChat"
    <3>1. n \in PrivateIds(u, v)'
      BY <1>1, <1>3, <2>3, <2>5 DEF OpenMessages, PrivateIds, ChatOf, FirstPrivate
    <3> QED BY <2>2, <2>3, <2>5, <3>1, OpenIds
  <2> QED BY <1>1, <1>3, <2>4, <2>5 DEF OpenMessages
<1>4. ASSUME NEW k \in Nat, k <= counter, NEW ids, SeenUpTo(c, k, ids) PROVE SeenUpTo(c, k, ids)'
  <2>1. counter \in Nat /\ ~(counter + 1 <= k)
    BY <1>2, <1>4 DEF Served
  <2> QED BY <1>1, <1>3, <1>4, <2>1 DEF SeenUpTo
<1>5. Outgoing(c)' \subseteq Outgoing(c) /\ ChatMode(c)' = ChatMode(c)
  BY <1>1 DEF Flows, ChatMode
<1>6. CASE client[c].opened = 0
  <2>1. \A a \in Incoming(c)' : ~(a.ok /\ a.cmd = "get_msg")
    BY <1>1, <1>6 DEF Reader, Flows, Reply
  <2> QED BY <1>1, <1>5, <1>6, <2>1 DEF Reader
<1>7. CASE client[c].opened = 1 /\ client[c].state \in InChat
  <2>1. SeenUpTo(c, client[c].last, {})'
    BY <1>1, <1>4, <1>7, LastTypes DEF Reader, Numbered
  <2>2. ASSUME NEW q \in Outgoing(c)', q.cmd = "get_msg"
        PROVE  /\ q.login = client[c].login /\ q.mode = ChatMode(c) /\ q.name = client[c].chat
               /\ SeenUpTo(c, q.last, {})'
    BY <1>4, <1>5, <1>7, <2>2, LastTypes DEF Reader, Numbered
  <2>3. ASSUME NEW a \in Incoming(c)', a.ok, a.cmd = "get_msg"
        PROVE  SeenUpTo(c, a.last, a.ids)'
    <3>1. CASE a \in Incoming(c)
      BY <1>4, <1>7, <2>3, <3>1, LastTypes DEF Reader, Numbered
    <3>2. CASE a = pending' /\ a # NoAnswer /\ c = r.client
      <4>1. r.cmd = "get_msg" /\ ReadIs(r) /\ r \in Outgoing(c) /\ a \in AnswerType
        BY <1>1, <2>3, <3>2 DEF Reply
      <4>2. /\ r.login = client[c].login /\ r.mode = ChatMode(c) /\ r.name = client[c].chat
            /\ SeenUpTo(c, r.last, {}) /\ r.last \in Nat
        BY <1>7, <4>1, LastTypes DEF Reader
      <4>3. Read(r) = OpenMessages(c)
        BY <1>7, <4>1, <4>2, OpenIds DEF Read, ReadIs, ChatMode, InChat, GroupIds, PrivateIds
      <4>4. Read(r) \subseteq 1..counter
        BY <1>2, <4>1, ReadBounded
      <4>5. a.ids = {i \in Read(r) : i > r.last} /\ (a.last = r.last \/ a.last \in Read(r))
        BY <3>2, <4>1 DEF ReadIs
      <4>6. SeenUpTo(c, a.last, a.ids)
        <5>1. ASSUME NEW n \in OpenMessages(c), n <= a.last PROVE n \in client[c].shown \cup a.ids
          <6>1. n \in Nat
            BY <4>3, <4>4
          <6>2. CASE n <= r.last
            BY <4>2, <6>2 DEF SeenUpTo
          <6>3. CASE n > r.last
            BY <4>3, <4>5, <6>3
          <6> QED BY <4>2, <6>1, <6>2, <6>3
        <5> QED BY <5>1 DEF SeenUpTo
      <4>7. a.last \in Nat /\ a.last <= counter
        <5>1. r.last <= counter /\ counter \in Nat
          BY <4>1, <1>2 DEF Numbered, Served
        <5> QED BY <4>2, <4>4, <4>5, <5>1
      <4> QED BY <1>4, <4>6, <4>7
    <3> QED BY <1>1, <2>3, <3>1, <3>2 DEF Flows
  <2> QED BY <1>1, <1>7, <2>1, <2>2, <2>3, <1>5 DEF Reader
<1>8. CASE client[c].opened # 0 /\ ~(client[c].opened = 1 /\ client[c].state \in InChat)
  BY <1>1, <1>8 DEF Reader
<1> QED BY <1>6, <1>7, <1>8

\* The chat stays, and what is on the screen.
LEMMA ReaderStays ==
  ASSUME NEW c \in Clients, Reader(c), groups' = groups, privates' = privates,
         client'[c].state = client[c].state, client'[c].login = client[c].login,
         client'[c].chat = client[c].chat, client'[c].opened = client[c].opened,
         client'[c].last = client[c].last, client[c].shown \subseteq client'[c].shown
  PROVE  /\ OpenMessages(c)' = OpenMessages(c) /\ ChatMode(c)' = ChatMode(c)
         /\ \A k, ids : SeenUpTo(c, k, ids) => SeenUpTo(c, k, ids)'
BY ZenonT(60) DEF OpenMessages, ChatOf, FirstPrivate, ChatMode, SeenUpTo

\* The client's own steps but for the receiver's.
LEMMA ReaderMoves ==
  ASSUME TypeOK, IdsBounded, Origins, NEW c \in Clients, Reader(c), Moved(c),
         UNCHANGED <<users, authorized, groups, privates, counter>>,
         \/ Asks(c) /\ Flows(c, {client'[c].input}, {})
         \/ Leaves(c) /\ Flows(c, {}, {})
         \/ Quits(c) /\ Flows(c, {client'[c].input} \ {NoRequest}, {})
         \/ Updates(c) /\ Flows(c, {client'[c].updater}, {})
         \/ \E t \in Threads : Puts(c, t) /\ Flows(c, {}, {})
  PROVE  Reader(c)'
<1>1. client[c].opened \in Nat
  BY LastTypes
<1>2. CASE Asks(c) /\ Flows(c, {client'[c].input}, {})
  <2> DEFINE q == client'[c].input
  <2>1. q.cmd # "get_msg" /\ client'[c].state = client[c].state
    BY <1>2 DEF Asks
  <2>2. \A r \in Outgoing(c)' : r.cmd = "get_msg" => r \in Outgoing(c)
    BY <1>2, <2>1 DEF Flows
  <2>3. Incoming(c)' \subseteq Incoming(c)
    BY <1>2 DEF Flows
  <2>4. CASE client[c].state \notin InChat
    <3>1. client'[c].opened = client[c].opened \/ client'[c].opened # 0
      BY <1>1, <1>2 DEF Asks
    <3> QED BY <2>1, <2>2, <2>3, <2>4, <3>1 DEF Reader
  <2>5. CASE client[c].state \in InChat
    <3>1. client[c].opened # 0
      BY <2>5 DEF Reader
    <3>2. CASE client'[c].opened = client[c].opened
      <4>1. client'[c].shown = client[c].shown /\ client'[c].login = client[c].login
            /\ client'[c].chat = client[c].chat /\ client'[c].last = client[c].last
        BY <1>1, <1>2, <2>5, <3>2 DEF Asks, InChat
      <4>2. /\ ChatMode(c)' = ChatMode(c)
            /\ \A k, ids : SeenUpTo(c, k, ids) => SeenUpTo(c, k, ids)'
        BY <2>1, <3>2, <4>1, ReaderStays
      <4> QED BY <2>1, <2>2, <2>3, <3>1, <3>2, <4>1, <4>2 DEF Reader
    <3>3. CASE client'[c].opened = client[c].opened + 1
      <4>1. client'[c].opened # 0 /\ client'[c].opened # 1
        BY <1>1, <3>1, <3>3
      <4> QED BY <4>1 DEF Reader
    <3> QED BY <1>2, <3>2, <3>3 DEF Asks
  <2> QED BY <2>4, <2>5
<1>3. CASE Leaves(c) /\ Flows(c, {}, {})
  BY <1>3 DEF Leaves, Flows, Reader, InChat
<1>4. CASE Quits(c) /\ Flows(c, {client'[c].input} \ {NoRequest}, {})
  <2>1. /\ \A r \in Outgoing(c)' : r.cmd = "get_msg" => r \in Outgoing(c)
        /\ Incoming(c)' \subseteq Incoming(c)
    BY <1>4 DEF Quits, Flows
  <2>2. /\ ChatMode(c)' = ChatMode(c)
        /\ \A k, ids : SeenUpTo(c, k, ids) => SeenUpTo(c, k, ids)'
    BY <1>4, ReaderStays DEF Quits
  <2> QED BY <1>4, <2>1, <2>2 DEF Quits, Reader
<1>5. CASE Updates(c) /\ Flows(c, {client'[c].updater}, {})
  <2> DEFINE q == client'[c].updater
  <2>1. /\ q.login = client[c].login /\ q.mode = ChatMode(c) /\ q.name = client[c].chat
        /\ q.last = client[c].last
    BY <1>5 DEF Updates
  <2>2. /\ \A r \in Outgoing(c)' : r \in Outgoing(c) \/ r = q
        /\ Incoming(c)' \subseteq Incoming(c)
    BY <1>5 DEF Flows
  <2>3. /\ ChatMode(c)' = ChatMode(c)
        /\ \A k, ids : SeenUpTo(c, k, ids) => SeenUpTo(c, k, ids)'
    BY <1>5, ReaderStays DEF Updates
  <2>4. client[c].opened # 0 /\ client'[c].opened # 0
    BY <1>5 DEF Updates, Reader
  <2> HIDE DEF q
  <2> QED BY <1>5, <2>1, <2>2, <2>3, <2>4 DEF Updates, Reader
<1>6. CASE \E t \in Threads : Puts(c, t) /\ Flows(c, {}, {})
  <2>1. PICK t \in Threads : Puts(c, t) /\ Flows(c, {}, {})
    BY <1>6
  <2>2. Outgoing(c)' \subseteq Outgoing(c) /\ Incoming(c)' \subseteq Incoming(c)
    BY <2>1 DEF Flows
  <2>3. CASE LoggingOut(c, t)
    BY <2>1, <2>2, <2>3 DEF Puts, Reader, InChat
  <2>4. CASE ~LoggingOut(c, t)
    <3>1. /\ ChatMode(c)' = ChatMode(c)
          /\ \A k, ids : SeenUpTo(c, k, ids) => SeenUpTo(c, k, ids)'
      BY <2>1, <2>4, ReaderStays DEF Puts
    <3> QED BY <2>1, <2>2, <2>4, <3>1 DEF Puts, Reader
  <2> QED BY <2>3, <2>4
<1> QED BY <1>2, <1>3, <1>4, <1>5, <1>6

LEMMA IdsInBounds ==
  ASSUME TypeOK, IdsBounded
  PROVE  /\ \A g : GroupIds(g) \subseteq 1..counter
         /\ \A u, v : PrivateIds(u, v) \subseteq 1..counter
BY ChatPlace DEF TypeOK, IdsBounded, GroupIds, PrivateIds

\* The receiver takes an answer.
LEMMA ReaderTakes ==
  ASSUME TypeOK, IdsBounded, NEW c \in Clients, Reader(c), NEW a \in Incoming(c),
         Takes(c, a), Flows(c, {}, {}), UNCHANGED <<groups, privates>>
  PROVE  Reader(c)'
<1> DEFINE o == client[c]
           n == client'[c]
<1>1. groups' = groups /\ privates' = privates
  OBVIOUS
<1>2. Outgoing(c)' \subseteq Outgoing(c) /\ Incoming(c)' \subseteq Incoming(c)
  BY <1>1 DEF Flows
<1>3. o.opened \in Nat
  BY LastTypes
<1>4. CASE n.state \notin InChat /\ n.opened = o.opened
  BY <1>2, <1>4 DEF Reader
<1>5. CASE n.opened = o.opened + 1 /\ n.last = 0
  <2>1. n.opened # 0
    BY <1>3, <1>5
  <2>2. CASE n.opened = 1
    <3>1. o.opened = 0
      BY <1>3, <1>5, <2>2
    <3>2. SeenUpTo(c, 0, {})'
      <4>1. OpenMessages(c)' = IF n.state = "InGroupChat" THEN GroupIds(n.chat)
                               ELSE IF n.state = "InPrivateChat" THEN PrivateIds(n.login, n.chat)
                               ELSE {}
        BY <1>1 DEF OpenMessages, GroupIds, PrivateIds, ChatOf, FirstPrivate
      <4>2. ASSUME NEW i \in OpenMessages(c)' PROVE ~(i <= 0)
        <5>1. i \in 1..counter
          BY <4>1, <4>2, IdsInBounds
        <5> QED BY <5>1 DEF TypeOK, Served
      <4> QED BY <4>2 DEF SeenUpTo
    <3> QED BY <1>2, <1>5, <2>1, <3>1, <3>2 DEF Reader
  <2> QED BY <2>1, <2>2 DEF Reader
<1>6. CASE /\ a.ok /\ a.cmd = "get_msg"
           /\ n.state = o.state /\ n.chat = o.chat /\ n.opened = o.opened
           /\ n.last = a.last /\ n.shown = o.shown \cup a.ids
  <2>1. n.login = o.login
    BY <1>1 DEF Takes
  <2>2. OpenMessages(c)' = OpenMessages(c) /\ ChatMode(c)' = ChatMode(c)
    BY <1>1, <1>6, <2>1 DEF OpenMessages, ChatOf, FirstPrivate, ChatMode
  <2>3. \A k, ids : SeenUpTo(c, k, ids) => SeenUpTo(c, k, ids)'
    BY <1>6, <2>2 DEF SeenUpTo
  <2>4. PICK k, ids : k = a.last /\ ids = a.ids
    OBVIOUS
  <2>5. SeenUpTo(c, k, ids) => SeenUpTo(c, k, {})'
    BY <1>6, <2>2, <2>4 DEF SeenUpTo
  <2>6. n.opened = 1 /\ n.state \in InChat => SeenUpTo(c, client[c].last, {})'
    <3>1. n.opened = 1 /\ n.state \in InChat => SeenUpTo(c, k, {})'
      BY <1>1, <1>6, <2>4, <2>5 DEF Reader
    <3>2. k = client'[c].last
      BY <1>6, <2>4
    <3> QED BY <3>1, <3>2 DEF SeenUpTo
  <2> QED BY <1>1, <1>2, <1>6, <2>1, <2>2, <2>3, <2>6 DEF Reader
<1>7. CASE /\ n.state = o.state /\ n.chat = o.chat /\ n.last = o.last
           /\ n.shown = o.shown /\ n.opened = o.opened
  <2>1. n.login = o.login
    BY <1>1 DEF Takes
  <2>2. /\ ChatMode(c)' = ChatMode(c)
        /\ \A k, ids : SeenUpTo(c, k, ids) => SeenUpTo(c, k, ids)'
    BY <1>1, <1>7, <2>1, ReaderStays
  <2> QED BY <1>2, <1>7, <2>1, <2>2 DEF Reader
<1> QED BY <1>1, <1>4, <1>5, <1>6, <1>7 DEF Takes, InChat

-----------------------------------------------------------------------------
(* Users who wait for their answers: one command under way at a time.      *)

\* The places of the requests and answers of commands, in the three stations
\* between the typing and the answer.  Logouts are not answered.
IsInput(r, c) == r.client = c /\ r.by = "input" /\ r.cmd # "logout"
Asked(c) == client[c].input # NoRequest /\ client[c].input.cmd # "logout"
InPipe(c) == {i \in DOMAIN requests : IsInput(requests[i], c)}
Answering(c) == pending # NoAnswer /\ pending.to = c /\ pending.by = "input"
Answered(c) == {i \in DOMAIN answers[c] : answers[c][i].by = "input"}
AtMostOne(S) == \A i, j \in S : i = j

\* At most one command of the client is under way, and its user waits for it.
OneAsked(c) ==
  /\ AtMostOne(InPipe(c)) /\ AtMostOne(Answered(c))
  /\ Asked(c) => InPipe(c) = {} /\ ~Answering(c) /\ Answered(c) = {}
  /\ InPipe(c) # {} => ~Answering(c) /\ Answered(c) = {}
  /\ Answering(c) => Answered(c) = {}
  /\ Asked(c) \/ InPipe(c) # {} \/ Answering(c) \/ Answered(c) # {} => client[c].waiting

\* What taking from and putting into a pipe does to these places.
LEMMA PipeTail ==
  ASSUME TypeOK, requests # <<>>, requests' = Tail(requests), NEW c
  PROVE  /\ \A i \in InPipe(c)' : i \in Nat \ {0} /\ i + 1 \in InPipe(c)
         /\ IsInput(Head(requests), c) <=> 1 \in InPipe(c)
<1>1. /\ Head(requests) = requests[1] /\ 1 \in DOMAIN requests
      /\ \A i \in DOMAIN requests' : /\ i + 1 \in DOMAIN requests /\ requests'[i] = requests[i + 1]
                                     /\ i \in Nat \ {0}
  BY RangeOfTail DEF TypeOK
<1> QED BY <1>1 DEF InPipe

LEMMA PipeAppend ==
  ASSUME TypeOK, NEW q \in RequestType, requests' = Append(requests, q), NEW c
  PROVE  InPipe(c)' = InPipe(c) \cup (IF IsInput(q, c) THEN {Len(requests) + 1} ELSE {})
<1>1. /\ DOMAIN requests' = DOMAIN requests \cup {Len(requests) + 1}
      /\ requests'[Len(requests) + 1] = q
      /\ \A i \in DOMAIN requests : requests'[i] = requests[i]
  BY RangeOfAppend DEF TypeOK
<1> QED BY <1>1 DEF InPipe

LEMMA AnsweredTail ==
  ASSUME NEW s \in Seq(AnswerType), s # <<>>, NEW c, answers[c] = s, answers'[c] = Tail(s)
  PROVE  /\ \A i \in Answered(c)' : i \in Nat \ {0} /\ i + 1 \in Answered(c)
         /\ Head(s).by = "input" <=> 1 \in Answered(c)
<1>1. /\ Head(s) = s[1] /\ 1 \in DOMAIN s
      /\ \A i \in DOMAIN Tail(s) : /\ i + 1 \in DOMAIN s /\ Tail(s)[i] = s[i + 1]
                                   /\ i \in Nat \ {0}
  BY RangeOfTail
<1> QED BY <1>1 DEF Answered

LEMMA AnsweredAppend ==
  ASSUME NEW s \in Seq(AnswerType), NEW a \in AnswerType, NEW c, answers[c] = s, answers'[c] = Append(s, a)
  PROVE  Answered(c)' = Answered(c) \cup (IF a.by = "input" THEN {Len(s) + 1} ELSE {})
<1>1. /\ DOMAIN Append(s, a) = DOMAIN s \cup {Len(s) + 1}
      /\ Append(s, a)[Len(s) + 1] = a
      /\ \A i \in DOMAIN s : Append(s, a)[i] = s[i]
  BY RangeOfAppend
<1> QED BY <1>1 DEF Answered

LEMMA AtMostOneShifted ==
  ASSUME NEW S, NEW T, AtMostOne(S), \A i \in T : i \in Nat \ {0} /\ i + 1 \in S
  PROVE  /\ AtMostOne(T)
         /\ S = {} => T = {}
         /\ 1 \in S => T = {}
<1>1. ASSUME NEW i \in T, NEW j \in T PROVE i = j
  BY <1>1 DEF AtMostOne
<1>2. ASSUME 1 \in S, NEW i \in T PROVE FALSE
  BY <1>2 DEF AtMostOne
<1> QED BY <1>1, <1>2 DEF AtMostOne

\* A step that concerns neither the client nor its commands.
LEMMA AskedKept ==
  ASSUME NEW c, OneAsked(c), client'[c] = client[c], InPipe(c)' = InPipe(c),
         Answered(c)' = Answered(c), Answering(c)' => Answering(c)
  PROVE  OneAsked(c)'
BY DEF OneAsked, Asked

\* With users who wait, every step keeps one command under way.
LEMMA AskedStep ==
  ASSUME TypeOK, IdsBounded, Origins, Next, NEW c \in Clients, OneAsked(c), patient'
  PROVE  OneAsked(c)'
<1>1. CASE Handle
  <2> DEFINE r == Head(requests)
  <2>1. /\ r \in RequestType /\ pending = NoAnswer /\ (pending' = NoAnswer \/ Reply(r))
        /\ client' = client /\ answers' = answers /\ patient' = patient
        /\ requests' = Tail(requests) /\ requests # <<>>
    BY <1>1, HandleFlows DEF Handle
  <2>2. /\ \A i \in InPipe(c)' : i \in Nat \ {0} /\ i + 1 \in InPipe(c)
        /\ IsInput(r, c) <=> 1 \in InPipe(c)
    BY <2>1, PipeTail
  <2>3. Answering(c)' => IsInput(r, c)
    BY <2>1 DEF Answering, Reply, IsInput
  <2>4. Answered(c)' = Answered(c) /\ Asked(c)' = Asked(c) /\ ~Answering(c)
    BY <2>1 DEF Answered, Asked, Answering
  <2>5. AtMostOne(InPipe(c)') /\ (InPipe(c) = {} => InPipe(c)' = {}) /\ (1 \in InPipe(c) => InPipe(c)' = {})
    <3>1. AtMostOne(InPipe(c))
      BY DEF OneAsked
    <3> HIDE DEF r
    <3> QED BY <2>2, <3>1, AtMostOneShifted
  <2> HIDE DEF r
  <2> QED BY <2>1, <2>2, <2>3, <2>4, <2>5 DEF OneAsked
<1>2. CASE Respond
  <2>1. /\ pending \in AnswerType /\ pending # NoAnswer /\ pending' = NoAnswer
        /\ client' = client /\ requests' = requests /\ patient' = patient
        /\ answers[c] \in Seq(AnswerType)
    BY <1>2, RespondCase DEF Respond, clientVars, TypeOK
  <2>2. InPipe(c)' = InPipe(c) /\ ~Answering(c)'
    BY <2>1 DEF InPipe, Answering
  <2>3. CASE answers'[c] = answers[c]
    <3>1. Answered(c)' = Answered(c)
      BY <2>3 DEF Answered
    <3> QED BY <2>1, <2>2, <3>1, AskedKept
  <2>4. CASE pending.to = c /\ answers'[c] = Append(answers[c], pending)
    <3>1. Answered(c)' = Answered(c) \cup (IF pending.by = "input" THEN {Len(answers[c]) + 1} ELSE {})
      BY <2>1, <2>4, AnsweredAppend
    <3>2. CASE pending.by = "input"
      <4>1. Answering(c)
        BY <2>1, <2>4, <3>2 DEF Answering
      <4> QED BY <2>1, <2>2, <3>1, <3>2, <4>1 DEF OneAsked, Asked, AtMostOne
    <3>3. CASE pending.by # "input"
      BY <2>1, <2>2, <3>1, <3>3, AskedKept
    <3> QED BY <3>2, <3>3
  <2> QED BY <1>2, <2>1, <2>3, <2>4, RespondCase
<1>3. ASSUME NEW d \in Clients, Moved(d), d # c, requests' = requests \/ \E q \in RequestType :
               requests' = Append(requests, q) /\ ~IsInput(q, c),
             answers'[c] = answers[c], pending' = pending
      PROVE  OneAsked(c)'
  <2>1. client'[c] = client[c]
    BY <1>3 DEF Moved, Others
  <2>2. InPipe(c)' = InPipe(c)
    <3>1. CASE requests' = requests
      BY <3>1 DEF InPipe
    <3>2. ASSUME NEW q \in RequestType, requests' = Append(requests, q), ~IsInput(q, c)
          PROVE  InPipe(c)' = InPipe(c)
      BY <3>2, PipeAppend
    <3> QED BY <1>3, <3>1, <3>2
  <2>3. Answered(c)' = Answered(c) /\ Answering(c)' = Answering(c)
    BY <1>3 DEF Answered, Answering
  <2> QED BY <2>1, <2>2, <2>3, AskedKept
<1>4. ASSUME UNCHANGED <<serverVars, pipeVars>>
      PROVE  /\ InPipe(c)' = InPipe(c) /\ Answered(c)' = Answered(c) /\ Answering(c)' = Answering(c)
             /\ requests' = requests /\ answers'[c] = answers[c] /\ pending' = pending
  BY <1>4 DEF serverVars, pipeVars, InPipe, Answered, Answering
<1>5. ASSUME NEW d \in Clients, User(d) PROVE OneAsked(c)'
  <2>1. Moved(d) /\ (Asks(d) \/ Leaves(d)) /\ UNCHANGED <<serverVars, pipeVars>>
    BY <1>5, UserCases DEF User
  <2>3. CASE d # c
    BY <1>3, <1>4, <2>1, <2>3
  <2>4. CASE d = c /\ Asks(c)
    <3>1. ~client[c].waiting /\ (client'[c].waiting <=> client'[c].input.cmd # "logout")
      BY <2>4 DEF Asks
    <3> QED BY <1>4, <2>1, <3>1 DEF OneAsked, Asked
  <2>5. CASE d = c /\ Leaves(c)
    BY <1>4, <2>1, <2>5 DEF OneAsked, Asked, Leaves
  <2> QED BY <2>1, <2>3, <2>4, <2>5
<1>6. ASSUME NEW d \in Clients, UserExit(d) PROVE OneAsked(c)'
  <2>1. Moved(d) /\ Quits(d) /\ UNCHANGED <<serverVars, pipeVars>> /\ patient' = patient
    BY <1>6, ExitCase DEF UserExit, TypeOK
  <2>2. CASE d # c
    BY <1>3, <1>4, <2>1, <2>2
  <2>3. CASE d = c
    <3>1. ~Asked(c)' /\ client'[c].waiting = client[c].waiting
      BY <2>1, <2>3 DEF Asked, Quits
    <3> QED BY <1>4, <2>1, <3>1 DEF OneAsked
  <2> QED BY <2>2, <2>3
<1>7. ASSUME NEW d \in Clients, Update(d) PROVE OneAsked(c)'
  <2>1. Moved(d) /\ Updates(d) /\ UNCHANGED <<serverVars, pipeVars>> /\ patient' = patient
    BY <1>7, UpdateCase DEF Update, TypeOK
  <2>2. CASE d # c
    BY <1>3, <1>4, <2>1, <2>2
  <2>3. CASE d = c
    <3>1. Asked(c)' = Asked(c) /\ client'[c].waiting = client[c].waiting
      BY <2>1, <2>3 DEF Asked, Updates
    <3> QED BY <1>4, <2>1, <3>1 DEF OneAsked
  <2> QED BY <2>2, <2>3
<1>8. ASSUME NEW d \in Clients, Receive(d) PROVE OneAsked(c)'
  <2> DEFINE a == Head(answers[d])
  <2>1. /\ Moved(d) /\ Takes(d, a) /\ pending' = pending /\ requests' = requests /\ patient' = patient
        /\ answers[d] # <<>> /\ answers[d] \in Seq(AnswerType)
        /\ answers'[d] = Tail(answers[d]) /\ (d # c => answers'[c] = answers[c])
    BY <1>8, ReceiveCase DEF Receive, serverVars
  <2>2. CASE d # c
    BY <1>3, <2>1, <2>2
  <2>3. CASE d = c
    <3>1. InPipe(c)' = InPipe(c) /\ Answering(c)' = Answering(c) /\ Asked(c)' = Asked(c)
      BY <2>1, <2>3 DEF InPipe, Answering, Asked, Takes
    <3>2. /\ \A i \in Answered(c)' : i \in Nat \ {0} /\ i + 1 \in Answered(c)
          /\ a.by = "input" <=> 1 \in Answered(c)
      BY <2>1, <2>3, AnsweredTail
    <3>3. /\ AtMostOne(Answered(c)')
          /\ Answered(c) = {} => Answered(c)' = {}
          /\ 1 \in Answered(c) => Answered(c)' = {}
      <4>1. AtMostOne(Answered(c))
        BY DEF OneAsked
      <4> HIDE DEF a
      <4> QED BY <3>2, <4>1, AtMostOneShifted
    <3>4. client'[c].waiting <=> client[c].waiting /\ a.by # "input"
      BY <2>1, <2>3 DEF Takes
    <3> HIDE DEF a
    <3> QED BY <2>1, <3>1, <3>2, <3>3, <3>4 DEF OneAsked
  <2> QED BY <2>2, <2>3
<1>9. ASSUME NEW d \in Clients, NEW t \in Threads, Send(d, t) PROVE OneAsked(c)'
  <2> DEFINE q == client[d][t]
  <2>1. /\ Moved(d) /\ Puts(d, t) /\ q \in RequestType /\ q # NoRequest
        /\ requests' = requests \/ requests' = Append(requests, q)
        /\ answers' = answers /\ pending' = pending /\ patient' = patient
    BY <1>9, PipeCase DEF Send, serverVars
  <2>2. t = "input" \/ t = "updater"
    BY DEF Threads
  <2>3. q.client = d /\ (q.by = "input" <=> t = "input")
    BY <2>1, <2>2 DEF Origins
  <2>4. CASE d # c
    BY <1>3, <2>1, <2>3, <2>4 DEF IsInput
  <2>5. CASE d = c
    <3>1. Answered(c)' = Answered(c) /\ Answering(c)' = Answering(c) /\ client'[c].waiting = client[c].waiting
      BY <2>1, <2>5 DEF Answered, Answering, Puts
    <3>2. \/ InPipe(c)' = InPipe(c)
          \/ IsInput(q, c) /\ InPipe(c)' = InPipe(c) \cup {Len(requests) + 1}
      <4>1. CASE requests' = requests
        BY <4>1 DEF InPipe
      <4>2. CASE requests' = Append(requests, q)
        BY <2>1, <4>2, PipeAppend
      <4> QED BY <2>1, <4>1, <4>2
    <3>3. CASE t = "input"
      <4>1. ~Asked(c)'
        BY <2>1, <2>5, <3>3 DEF Asked, Puts
      <4>2. IsInput(q, c) => Asked(c)
        BY <2>1, <2>5, <3>3 DEF IsInput, Asked
      <4> QED BY <2>1, <3>1, <3>2, <4>1, <4>2 DEF OneAsked, AtMostOne
    <3>4. CASE t = "updater"
      <4>1. Asked(c)' = Asked(c)
        BY <2>1, <2>5, <3>4 DEF Asked, Puts, Threads
      <4>2. InPipe(c)' = InPipe(c)
        BY <2>3, <3>2, <3>4 DEF IsInput
      <4> QED BY <2>1, <3>1, <4>1, <4>2 DEF OneAsked
    <3> QED BY <2>2, <3>3, <3>4
  <2> QED BY <2>4, <2>5
<1> QED BY <1>1, <1>2, <1>5, <1>6, <1>7, <1>8, <1>9 DEF Next

\* A step of client d, with all that the rest of the proof uses of it.
ClientStep(d) ==
  /\ Moved(d) /\ UNCHANGED <<users, authorized, groups, privates, counter>>
  /\ \/ Asks(d) /\ Flows(d, {client'[d].input}, {}) /\ requests' = requests
     \/ Leaves(d) /\ Flows(d, {}, {}) /\ requests' = requests
     \/ Quits(d) /\ Flows(d, {client'[d].input} \ {NoRequest}, {}) /\ requests' = requests
     \/ Updates(d) /\ Flows(d, {client'[d].updater}, {}) /\ requests' = requests
     \/ \E t \in Threads : /\ Puts(d, t) /\ Flows(d, {}, {})
                           /\ client[d][t] \in RequestType /\ client[d][t] # NoRequest
                           /\ requests' \in {requests, Append(requests, client[d][t])}
     \/ \E a \in Incoming(d) : Takes(d, a) /\ Flows(d, {}, {}) /\ requests' = requests

LEMMA ClientSteps ==
  ASSUME TypeOK, Origins, Next
  PROVE  Handle \/ Respond \/ \E d \in Clients : ClientStep(d)
<1>1. ASSUME NEW d \in Clients, User(d) PROVE ClientStep(d)
  <2>1. Moved(d) /\ (Asks(d) \/ Leaves(d)) /\ UNCHANGED <<serverVars, pipeVars>>
    BY <1>1, UserCases DEF User
  <2> QED BY <2>1, AsksFlows, LeavesFlows DEF ClientStep, serverVars, pipeVars
<1>2. ASSUME NEW d \in Clients, UserExit(d) PROVE ClientStep(d)
  <2>1. Moved(d) /\ Quits(d) /\ UNCHANGED <<serverVars, pipeVars>>
    BY <1>2, ExitCase DEF UserExit, TypeOK
  <2> QED BY <2>1, QuitsFlows DEF ClientStep, serverVars, pipeVars
<1>3. ASSUME NEW d \in Clients, Update(d) PROVE ClientStep(d)
  <2>1. Moved(d) /\ Updates(d) /\ UNCHANGED <<serverVars, pipeVars>>
    BY <1>3, UpdateCase DEF Update, TypeOK
  <2> QED BY <2>1, UpdatesFlows DEF ClientStep, serverVars, pipeVars
<1>4. ASSUME NEW d \in Clients, Receive(d) PROVE ClientStep(d)
  <2>1. /\ Moved(d) /\ Flows(d, {}, {}) /\ Takes(d, Head(answers[d])) /\ Head(answers[d]) \in Incoming(d)
        /\ requests' = requests /\ UNCHANGED serverVars
    BY <1>4, ReceiveCase, ReceiveFlows DEF Receive
  <2> QED BY <2>1 DEF ClientStep, serverVars
<1>5. ASSUME NEW d \in Clients, NEW t \in Threads, Send(d, t) PROVE ClientStep(d)
  <2>1. /\ Moved(d) /\ Flows(d, {}, {}) /\ Puts(d, t) /\ UNCHANGED serverVars
        /\ client[d][t] \in RequestType /\ client[d][t] # NoRequest
        /\ requests' \in {requests, Append(requests, client[d][t])}
    BY <1>5, PipeCase, SendFlows DEF Send
  <2> QED BY <2>1 DEF ClientStep, serverVars
<1> QED BY <1>1, <1>2, <1>3, <1>4, <1>5 DEF Next

\* A command under way was given by the user who is logged in, and the answer
\* will find that user; a login by a client that is not logged in.
SameUser(c) ==
  /\ \A r \in Outgoing(c) : r.by = "input" /\ r.cmd # "logout" =>
       IF r.cmd = "login" THEN client[c].state = "NotLogin" /\ client[c].login = r.name
       ELSE client[c].life = "on" => client[c].state # "NotLogin" /\ r.login = client[c].login
  /\ \A a \in Incoming(c) : a.by = "input" =>
       IF a.cmd = "login" THEN client[c].state = "NotLogin" /\ client[c].login = a.name
       ELSE client[c].life = "on" => client[c].state # "NotLogin"
  /\ client[c].input # NoRequest /\ client[c].input.cmd = "logout" =>
       /\ client[c].state # "NotLogin" /\ client[c].input.login = client[c].login
       /\ client[c].life = "on" => ~client[c].waiting

LEMMA NothingAsked ==
  ASSUME TypeOK, Origins, NEW c \in Clients, OneAsked(c), ~client[c].waiting
  PROVE  /\ \A r \in Outgoing(c) : r.by = "input" => r.cmd = "logout"
         /\ \A a \in Incoming(c) : a.by # "input"
<1>1. ~Asked(c) /\ InPipe(c) = {} /\ ~Answering(c) /\ Answered(c) = {}
  BY DEF OneAsked
<1>2. ASSUME NEW r \in Outgoing(c), r.by = "input", r.cmd # "logout" PROVE FALSE
  <2>1. CASE r = client[c].input /\ r # NoRequest
    BY <1>1, <1>2, <2>1 DEF Asked
  <2>2. CASE r = client[c].updater /\ r # NoRequest
    BY <1>2, <2>2 DEF Origins
  <2>3. CASE r \in Range(requests) /\ r.client = c
    BY <1>1, <1>2, <2>3 DEF InPipe, IsInput, Range
  <2> QED BY <1>2, <2>1, <2>2, <2>3 DEF Outgoing
<1>3. ASSUME NEW a \in Incoming(c), a.by = "input" PROVE FALSE
  BY <1>1, <1>3 DEF Incoming, Answered, Answering, Range
<1> QED BY <1>2, <1>3

LEMMA SameUserStep ==
  ASSUME TypeOK, TypeOK', IdsBounded, Origins, Origins', Next, patient', NEW c \in Clients,
         OneAsked(c), OneAsked(c)', SameUser(c)
  PROVE  SameUser(c)'
<1>1. CASE Handle
  <2> DEFINE r == Head(requests)
  <2>1. /\ r \in RequestType /\ r \in Outgoing(r.client) /\ client' = client
        /\ pending' = NoAnswer \/ Reply(r)
        /\ Flows(r.client, {}, {pending'} \ {NoAnswer})
    BY <1>1, HandleFlows
  <2> HIDE DEF r
  <2>2. Outgoing(c)' \subseteq Outgoing(c)
    BY <2>1 DEF Flows
  <2>3. ASSUME NEW a \in Incoming(c)', a.by = "input"
        PROVE  IF a.cmd = "login" THEN client[c].state = "NotLogin" /\ client[c].login = a.name
               ELSE client[c].life = "on" => client[c].state # "NotLogin"
    <3>1. CASE a \in Incoming(c)
      BY <2>3, <3>1 DEF SameUser
    <3>2. CASE a = pending' /\ a # NoAnswer /\ c = r.client
      <4>1. r \in Outgoing(c) /\ r.by = "input" /\ r.cmd # "logout" /\ a.name = r.name
            /\ (a.cmd = "login" <=> r.cmd = "login")
        BY <2>1, <2>3, <3>2 DEF Reply
      <4> QED BY <4>1 DEF SameUser
    <3> QED BY <2>1, <2>3, <3>1, <3>2 DEF Flows
  <2> QED BY <2>1, <2>2, <2>3 DEF SameUser
<1>2. CASE Respond
  <2>1. client' = client /\ Flows(c, {}, {})
    BY <1>2, RespondFlows DEF Respond, clientVars
  <2> QED BY <2>1 DEF SameUser, Flows
<1>3. ASSUME NEW d \in Clients, ClientStep(d) PROVE SameUser(c)'
  <2>1. CASE d # c
    <3>1. client'[c] = client[c] /\ Outgoing(c)' \subseteq Outgoing(c) /\ Incoming(c)' \subseteq Incoming(c)
      BY <1>3, <2>1 DEF ClientStep, Moved, Others, Flows
    <3> QED BY <3>1 DEF SameUser
  <2>2. CASE d = c /\ Asks(c) /\ Flows(c, {client'[c].input}, {})
    <3>1. ~client[c].waiting
      BY <2>2 DEF Asks
    <3>2. /\ \A r \in Outgoing(c)' : r.by = "input" => r.cmd = "logout" \/ r = client'[c].input
          /\ \A a \in Incoming(c)' : a.by # "input"
      BY <2>2, <3>1, NothingAsked DEF Flows
    <3>3. client'[c].input.cmd = "logout" => ~client'[c].waiting
      BY <2>2 DEF Asks
    <3> QED BY <2>2, <3>2, <3>3 DEF Asks, SameUser
  <2>3. CASE d = c /\ Leaves(c) /\ Flows(c, {}, {})
    <3>1. Outgoing(c)' \subseteq Outgoing(c) /\ Incoming(c)' \subseteq Incoming(c)
      BY <2>3 DEF Flows
    <3>2. client[c].state # "NotLogin" /\ client'[c].state # "NotLogin"
      BY <2>3 DEF Leaves, InChat
    <3> QED BY <2>3, <3>1, <3>2 DEF Leaves, SameUser
  <2>4. CASE d = c /\ Quits(c) /\ Flows(c, {client'[c].input} \ {NoRequest}, {})
    <3>1. /\ \A r \in Outgoing(c)' : r.cmd = "logout" \/ r \in Outgoing(c)
          /\ Incoming(c)' \subseteq Incoming(c)
      BY <2>4 DEF Flows, Quits
    <3> QED BY <2>4, <3>1 DEF Quits, SameUser
  <2>5. CASE d = c /\ Updates(c) /\ Flows(c, {client'[c].updater}, {})
    <3>1. /\ \A r \in Outgoing(c)' : r.by = "updater" \/ r \in Outgoing(c)
          /\ Incoming(c)' \subseteq Incoming(c)
      BY <2>5 DEF Flows, Updates
    <3>2. client'[c].waiting <=> client[c].waiting
      BY <2>5 DEF Updates
    <3> QED BY <2>5, <3>1, <3>2 DEF Updates, SameUser
  <2>6. ASSUME d = c, NEW t \in Threads, Puts(c, t), Flows(c, {}, {}), client[c][t] # NoRequest
        PROVE  SameUser(c)'
    <3>1. Outgoing(c)' \subseteq Outgoing(c) /\ Incoming(c)' \subseteq Incoming(c)
      BY <2>6 DEF Flows
    <3>2. client'[c].waiting <=> client[c].waiting
      BY <2>6 DEF Puts
    <3>3. CASE LoggingOut(c, t)
      <4>1. client'[c].input = NoRequest /\ client'[c].state = "NotLogin" /\ client'[c].login = client[c].login
            /\ (client'[c].life = "on" <=> client[c].life = "on")
        BY <2>6, <3>3 DEF Puts, LoggingOut
      <4>2. client[c].life = "on" => ~client[c].waiting
        BY <2>6, <3>3 DEF LoggingOut, SameUser
      <4>3. CASE client[c].life = "on" /\ ~client[c].waiting
        <5>1. /\ \A r \in Outgoing(c)' : r.by = "input" => r.cmd = "logout"
              /\ \A a \in Incoming(c)' : a.by # "input"
          BY <3>1, <4>3, NothingAsked
        <5> QED BY <4>1, <5>1 DEF SameUser
      <4>4. CASE client[c].life # "on"
        BY <3>1, <4>1, <4>4 DEF SameUser
      <4> QED BY <4>2, <4>3, <4>4
    <3>4. CASE ~LoggingOut(c, t)
      <4>1. /\ client'[c].state = client[c].state /\ client'[c].login = client[c].login
            /\ client'[c].life = client[c].life
            /\ client'[c].input \in {NoRequest, client[c].input}
        BY <2>6, <3>4 DEF Puts, Threads
      <4> QED BY <3>1, <3>2, <4>1 DEF SameUser
    <3> QED BY <3>3, <3>4
  <2>7. ASSUME d = c, NEW a \in Incoming(c), Takes(c, a), Flows(c, {}, {}) PROVE SameUser(c)'
    <3>1. Outgoing(c)' \subseteq Outgoing(c) /\ Incoming(c)' \subseteq Incoming(c)
      BY <2>7 DEF Flows
    <3>2. CASE a.by = "input"
      <4>1. ~client'[c].waiting
        BY <2>7, <3>2 DEF Takes
      <4>2. /\ \A r \in Outgoing(c)' : r.by = "input" => r.cmd = "logout"
            /\ \A b \in Incoming(c)' : b.by # "input"
        <5>1. ~Asked(c)' /\ InPipe(c)' = {} /\ ~Answering(c)' /\ Answered(c)' = {}
          BY <4>1 DEF OneAsked
        <5>2. ASSUME NEW r \in Outgoing(c)', r.by = "input", r.cmd # "logout" PROVE FALSE
          <6>1. CASE r = client'[c].input /\ r # NoRequest
            BY <5>1, <5>2, <6>1 DEF Asked
          <6>2. CASE r = client'[c].updater /\ r # NoRequest
            BY <5>2, <6>2 DEF Origins
          <6>3. CASE r \in Range(requests') /\ r.client = c
            BY <5>1, <5>2, <6>3 DEF InPipe, IsInput, Range
          <6> QED BY <5>2, <6>1, <6>2, <6>3 DEF Outgoing
        <5>3. ASSUME NEW b \in Incoming(c)', b.by = "input" PROVE FALSE
          BY <5>1, <5>3 DEF Incoming, Answered, Answering, Range
        <5> QED BY <5>2, <5>3
      <4>3. client'[c].state \in {"InMainMenu", "InGroupChat", "InPrivateChat", client[c].state}
        BY <2>7 DEF Takes
      <4> QED BY <2>7, <4>1, <4>2, <4>3 DEF Takes, SameUser
    <3>3. CASE a.by # "input"
      <4>1. a \in AnswerType
        BY FlowTypes
      <4>2. a.ok => a.cmd = "get_msg"
        BY <3>3, <4>1 DEF Origins, AnswerType, Threads
      <4>3. /\ client'[c].state = client[c].state /\ client'[c].login = client[c].login
            /\ client'[c].life = client[c].life /\ client'[c].input = client[c].input
            /\ (client'[c].waiting <=> client[c].waiting)
        BY <2>7, <3>3, <4>2 DEF Takes
      <4> QED BY <3>1, <4>3 DEF SameUser
    <3> QED BY <3>2, <3>3
  <2> QED BY <1>3, <2>1, <2>2, <2>3, <2>4, <2>5, <2>6, <2>7 DEF ClientStep
<1> QED BY <1>1, <1>2, <1>3, ClientSteps

\* Client c is logged in as u, or will be once it takes an answer.
Holds(c, u) == \/ client[c].state # "NotLogin" /\ client[c].login = u
               \/ \E a \in Incoming(c) : a.by = "input" /\ a.cmd = "login" /\ a.ok /\ a.name = u

IsLogout(r, u) == r.cmd = "logout" /\ r.login = u
\* The logouts of u that the server has not carried out.
LogoutsOf(u) == {i \in DOMAIN requests : IsLogout(requests[i], u)}

\* At most one client holds a login; the server has it as authorized, and no
\* logout of it is under way.  A logout under way is the only one.
OneHolder(u) ==
  /\ \A c, d \in Clients : Holds(c, u) /\ Holds(d, u) => c = d
  /\ \A c \in Clients : Holds(c, u) => u \in authorized /\ LogoutsOf(u) = {}
  /\ AtMostOne(LogoutsOf(u))
  /\ LogoutsOf(u) # {} => u \in authorized

LEMMA LogoutsTail ==
  ASSUME TypeOK, requests # <<>>, requests' = Tail(requests), NEW u
  PROVE  /\ \A i \in LogoutsOf(u)' : i \in Nat \ {0} /\ i + 1 \in LogoutsOf(u)
         /\ IsLogout(Head(requests), u) <=> 1 \in LogoutsOf(u)
<1>1. /\ Head(requests) = requests[1] /\ 1 \in DOMAIN requests
      /\ \A i \in DOMAIN requests' : /\ i + 1 \in DOMAIN requests /\ requests'[i] = requests[i + 1]
                                     /\ i \in Nat \ {0}
  BY RangeOfTail DEF TypeOK
<1> QED BY <1>1 DEF LogoutsOf

LEMMA LogoutsAppend ==
  ASSUME TypeOK, NEW q \in RequestType, requests' = Append(requests, q), NEW u
  PROVE  LogoutsOf(u)' = LogoutsOf(u) \cup (IF IsLogout(q, u) THEN {Len(requests) + 1} ELSE {})
<1>1. /\ DOMAIN requests' = DOMAIN requests \cup {Len(requests) + 1}
      /\ requests'[Len(requests) + 1] = q
      /\ \A i \in DOMAIN requests : requests'[i] = requests[i]
  BY RangeOfAppend DEF TypeOK
<1> QED BY <1>1 DEF LogoutsOf

\* Only the server makes a client hold a login.
LEMMA HoldsByClient ==
  ASSUME TypeOK, Origins, NEW d \in Clients, ClientStep(d),
         NEW c \in Clients, SameUser(c), NEW u, Holds(c, u)'
  PROVE  Holds(c, u)
<1>1. CASE \E a \in Incoming(c)' : a.by = "input" /\ a.cmd = "login" /\ a.ok /\ a.name = u
  <2>1. Incoming(c)' \subseteq Incoming(c)
    BY DEF ClientStep, Flows
  <2> QED BY <1>1, <2>1 DEF Holds
<1>2. CASE client'[c].state # "NotLogin" /\ client'[c].login = u
  <2>1. CASE d # c
    <3>1. client'[c] = client[c]
      BY <2>1 DEF ClientStep, Moved, Others
    <3> QED BY <1>2, <3>1 DEF Holds
  <2>2. CASE d = c /\ (Asks(c) \/ Leaves(c) \/ Quits(c) \/ Updates(c))
    BY <1>2, <2>2 DEF Asks, Leaves, Quits, Updates, Holds, InChat
  <2>3. ASSUME NEW t \in Threads, d = c, Puts(c, t) PROVE Holds(c, u)
    BY <1>2, <2>3 DEF Puts, Holds
  <2>4. ASSUME NEW a \in Incoming(c), d = c, Takes(c, a) PROVE Holds(c, u)
    <3>1. a \in AnswerType
      BY FlowTypes
    <3>2. client'[c].login = client[c].login /\ client[c].life = "on"
      BY <2>4 DEF Takes
    <3>3. CASE client'[c].state = client[c].state
      BY <1>2, <3>2, <3>3 DEF Holds
    <3>4. CASE a.ok /\ a.cmd \in {"login", "join", "create", "private"}
      <4>1. a.by = "input"
        BY <3>1, <3>4 DEF Origins, AnswerType, Threads
      <4> QED BY <1>2, <3>2, <3>4, <4>1 DEF SameUser, Holds
    <3> QED BY <2>4, <3>3, <3>4 DEF Takes
  <2> QED BY <2>1, <2>2, <2>3, <2>4 DEF ClientStep
<1> QED BY <1>1, <1>2 DEF Holds

LEMMA HolderKept ==
  ASSUME NEW u, OneHolder(u), \A c \in Clients : Holds(c, u)' => Holds(c, u),
         authorized' = authorized, LogoutsOf(u)' = LogoutsOf(u)
  PROVE  OneHolder(u)'
BY DEF OneHolder, AtMostOne

\* A login that a client holds, or whose logout is under way, is authorized: the
\* server gives it to nobody else.
LEMMA HolderHandles ==
  ASSUME TypeOK, IdsBounded, Handle, NEW u, OneHolder(u)
  PROVE  OneHolder(u)'
<1> DEFINE r == Head(requests)
<1>1. /\ r \in RequestType /\ r.client \in Clients /\ client' = client
      /\ RequestHandler(r)
      /\ pending' = NoAnswer \/ Reply(r)
      /\ Flows(r.client, {}, {pending'} \ {NoAnswer})
      /\ requests' = Tail(requests) /\ requests # <<>>
  BY HandleFlows DEF Handle
<1>2. /\ \A i \in LogoutsOf(u)' : i \in Nat \ {0} /\ i + 1 \in LogoutsOf(u)
      /\ IsLogout(r, u) <=> 1 \in LogoutsOf(u)
  BY <1>1, LogoutsTail
<1> HIDE DEF r
<1>3. /\ AtMostOne(LogoutsOf(u)')
      /\ LogoutsOf(u) = {} => LogoutsOf(u)' = {}
      /\ IsLogout(r, u) => LogoutsOf(u)' = {}
  <2>1. AtMostOne(LogoutsOf(u))
    BY DEF OneHolder
  <2> QED BY <1>2, <2>1, AtMostOneShifted
<1>4. ASSUME NEW c \in Clients, Holds(c, u)', ~Holds(c, u)
      PROVE  c = r.client /\ LogsIn(r) /\ r.name = u
  <2>1. PICK a \in Incoming(c)' : a.by = "input" /\ a.cmd = "login" /\ a.ok /\ a.name = u
    BY <1>1, <1>4 DEF Holds
  <2>2. a \notin Incoming(c)
    BY <1>4, <2>1 DEF Holds
  <2>3. a = pending' /\ a # NoAnswer /\ c = r.client
    BY <1>1, <2>1, <2>2 DEF Flows
  <2> QED BY <1>1, <2>1, <2>3 DEF Reply
<1>5. CASE LogsIn(r)
  <2>1. ~IsLogout(r, u)
    BY <1>5 DEF LogsIn, IsLogout
  <2>2. CASE r.name = u
    <3>1. u \notin authorized /\ u \in authorized'
      BY <1>5, <2>2 DEF LogsIn, MayLogIn
    <3>2. LogoutsOf(u) = {} /\ \A c \in Clients : ~Holds(c, u)
      BY <3>1 DEF OneHolder
    <3> QED BY <1>3, <1>4, <3>1, <3>2 DEF OneHolder
  <2>3. CASE r.name # u
    <3>1. u \in authorized' <=> u \in authorized
      BY <1>5, <2>3 DEF LogsIn
    <3>2. \A c \in Clients : Holds(c, u)' => Holds(c, u)
      BY <1>4, <2>3
    <3> QED BY <1>3, <3>1, <3>2 DEF OneHolder
  <2> QED BY <2>2, <2>3
<1>6. CASE ~LogsIn(r)
  <2>1. \A c \in Clients : Holds(c, u)' => Holds(c, u)
    BY <1>4, <1>6
  <2>2. CASE IsLogout(r, u)
    <3>1. LogoutsOf(u) # {} /\ \A c \in Clients : ~Holds(c, u)
      BY <1>2, <2>2 DEF OneHolder
    <3> QED BY <1>3, <2>1, <2>2, <3>1 DEF OneHolder
  <2>3. CASE ~IsLogout(r, u)
    <3>1. u \in authorized' <=> u \in authorized
      BY <1>1, <1>6, <2>3, HandlerCases
         DEF TypeOK, ServedCases, Same, LogsOut, AddsPrivate, Announces, WritesGroup, WritesPrivate, IsLogout
    <3> QED BY <1>3, <2>1, <3>1 DEF OneHolder
  <2> QED BY <2>2, <2>3
<1> QED BY <1>5, <1>6

LEMMA HolderStep ==
  ASSUME TypeOK, IdsBounded, Origins, Next, \A c \in Clients : SameUser(c), NEW u, OneHolder(u)
  PROVE  OneHolder(u)'
<1>1. CASE Handle
  BY <1>1, HolderHandles
<1>2. CASE Respond
  <2>1. /\ client' = client /\ authorized' = authorized /\ requests' = requests
        /\ \A c \in Clients : Incoming(c)' \subseteq Incoming(c)
    BY <1>2, RespondFlows DEF Respond, clientVars, Flows
  <2>2. \A c \in Clients : Holds(c, u)' => Holds(c, u)
    BY <2>1 DEF Holds
  <2>3. LogoutsOf(u)' = LogoutsOf(u)
    BY <2>1 DEF LogoutsOf
  <2> QED BY <2>1, <2>2, <2>3, HolderKept
<1>3. ASSUME NEW d \in Clients, ClientStep(d) PROVE OneHolder(u)'
  <2>1. (\A c \in Clients : Holds(c, u)' => Holds(c, u)) /\ authorized' = authorized
    BY <1>3, HoldsByClient DEF ClientStep
  <2>2. CASE requests' = requests
    <3>1. LogoutsOf(u)' = LogoutsOf(u)
      BY <2>2 DEF LogoutsOf
    <3> QED BY <2>1, <3>1, HolderKept
  <2>3. ASSUME NEW t \in Threads, Puts(d, t), Flows(d, {}, {}), client[d][t] \in RequestType,
               client[d][t] # NoRequest, requests' = Append(requests, client[d][t])
        PROVE  OneHolder(u)'
    <3> DEFINE q == client[d][t]
    <3>1. LogoutsOf(u)' = LogoutsOf(u) \cup (IF IsLogout(q, u) THEN {Len(requests) + 1} ELSE {})
      BY <2>3, LogoutsAppend
    <3>2. CASE ~IsLogout(q, u)
      BY <2>1, <3>1, <3>2, HolderKept
    <3>3. CASE IsLogout(q, u)
      <4>1. t = "input" /\ q = client[d].input /\ q # NoRequest /\ q.cmd = "logout" /\ q.login = u
        BY <2>3, <3>3 DEF Threads, Origins, IsLogout
      <4>2. client[d].state # "NotLogin" /\ client[d].login = u
        BY <4>1 DEF SameUser
      <4>3. u \in authorized /\ LogoutsOf(u) = {} /\ \A c \in Clients : Holds(c, u) => c = d
        BY <4>2 DEF OneHolder, Holds
      <4>4. ~Holds(d, u)'
        <5>1. client'[d].state = "NotLogin"
          BY <2>3, <4>1 DEF Puts, LoggingOut
        <5>2. Incoming(d)' \subseteq Incoming(d)
          BY <2>3 DEF Flows
        <5>3. \A a \in Incoming(d) : a.by = "input" => a.cmd # "login"
          BY <4>2 DEF SameUser
        <5> QED BY <5>1, <5>2, <5>3 DEF Holds
      <4>5. \A c \in Clients : ~Holds(c, u)'
        BY <2>1, <4>3, <4>4
      <4> HIDE DEF q
      <4> QED BY <2>1, <3>1, <3>3, <4>3, <4>5 DEF OneHolder, AtMostOne
    <3> QED BY <3>2, <3>3
  <2> QED BY <1>3, <2>2, <2>3 DEF ClientStep
<1> QED BY <1>1, <1>2, <1>3, ClientSteps

\* The authors heard in a group belong to it.
Authors(s) == {s[i].from : i \in DOMAIN s}

HeardInGroups ==
  \A g \in DOMAIN groups : Authors(groups[g].messages) \subseteq groups[g].members \cup {System}

\* A client in a group, or about to be, or with a message to it under way, is of
\* a user who belongs to the group.
Belongs(c) ==
  /\ client[c].state = "InGroupChat" => Member(client[c].chat, client[c].login)
  /\ \A a \in Incoming(c) :
       a.by = "input" /\ a.ok /\ a.cmd \in {"join", "create"} /\ client[c].life = "on" =>
         Member(a.name, client[c].login)
  /\ \A r \in Outgoing(c) : r.cmd = "push_msg" /\ r.mode = "GROUP" => Member(r.name, r.login)

LEMMA AuthorsAppend ==
  ASSUME NEW s \in Seq(Message), NEW m \in Message
  PROVE  Authors(Append(s, m)) = Authors(s) \cup {m.from}
<1> DEFINE t == Append(s, m)
<1>1. /\ DOMAIN t = DOMAIN s \cup {Len(s) + 1} /\ t[Len(s) + 1] = m
      /\ \A i \in DOMAIN s : t[i] = s[i]
  BY RangeOfAppend
<1> HIDE DEF t
<1> QED BY <1>1 DEF Authors

\* Nobody leaves a group.
LEMMA MembersStay ==
  ASSUME Served, NEW r \in RequestType, RequestHandler(r), NEW name, NEW u, Member(name, u)
  PROVE  Member(name, u)'
<1>1. CASE groups' = groups
  BY <1>1 DEF Member
<1>2. ASSUME NEW g, NEW joined, NEW m, GroupGrows(g, joined, m) PROVE Member(name, u)'
  BY <1>2 DEF Member, GroupGrows, MembersOf
<1> QED BY <1>1, <1>2, HandlerCases
       DEF ServedCases, Same, LogsIn, LogsOut, AddsPrivate, Announces, WritesGroup, WritesPrivate

\* A request keeps HeardInGroups if its author is a member.
LEMMA HeardStep ==
  ASSUME Served, HeardInGroups, NEW r \in RequestType, RequestHandler(r),
         r.cmd = "push_msg" /\ r.mode = "GROUP" => Member(r.name, r.login)
  PROVE  HeardInGroups'
<1>1. CASE groups' = groups
  BY <1>1 DEF HeardInGroups
<1>2. ASSUME NEW name, NEW joined, NEW m, GroupGrows(name, joined, m),
             m.from \in MembersOf(name) \cup joined \cup {System}
      PROVE  HeardInGroups'
  <2>1. ASSUME NEW g \in DOMAIN groups'
        PROVE  Authors(groups'[g].messages) \subseteq groups'[g].members \cup {System}
    <3>1. CASE g # name
      BY <1>2, <2>1, <3>1 DEF GroupGrows, HeardInGroups
    <3>2. CASE g = name
      <4>1. Authors(MessagesOf(name)) \subseteq MembersOf(name) \cup {System}
        <5>1. Authors(<<>>) = {}
          BY DEF Authors
        <5> QED BY <5>1 DEF HeardInGroups, MessagesOf, MembersOf
      <4>2. /\ MessagesOf(name) \in Seq(Message) /\ m \in Message
            /\ groups'[g].messages = Append(MessagesOf(name), m)
            /\ groups'[g].members = MembersOf(name) \cup joined
        BY <1>2, <3>2, OldMessages DEF GroupGrows
      <4>3. Authors(groups'[g].messages) = Authors(MessagesOf(name)) \cup {m.from}
        BY <4>2, AuthorsAppend
      <4> QED BY <1>2, <4>1, <4>2, <4>3
    <3> QED BY <3>1, <3>2
  <2> QED BY <2>1 DEF HeardInGroups
<1>3. CASE Announces(r)
  <2>1. NewMessage(System, r.login).from = System
    BY DEF NewMessage
  <2> QED BY <1>2, <1>3, <2>1 DEF Announces
<1>4. CASE WritesGroup(r)
  <2>1. NewMessage(r.login, <<r.mode, r.name>>).from = r.login
    BY DEF NewMessage
  <2>2. r.login \in MembersOf(r.name)
    BY <1>4 DEF WritesGroup, Member, MembersOf
  <2> QED BY <1>2, <1>4, <2>1, <2>2 DEF WritesGroup
<1> QED BY <1>1, <1>3, <1>4, HandlerCases DEF ServedCases, Same, LogsIn, LogsOut, AddsPrivate, WritesPrivate

LEMMA BelongsStep ==
  ASSUME TypeOK, IdsBounded, Origins, Next, patient', NEW c \in Clients,
         OneAsked(c), SameUser(c), Belongs(c)
  PROVE  Belongs(c)'
<1>1. CASE Handle
  <2> DEFINE r == Head(requests)
  <2>1. /\ r \in RequestType /\ r \in Outgoing(r.client) /\ client' = client /\ RequestHandler(r)
        /\ pending' = NoAnswer \/ Reply(r)
        /\ Flows(r.client, {}, {pending'} \ {NoAnswer})
    BY <1>1, HandleFlows
  <2> HIDE DEF r
  <2>2. \A name, u : Member(name, u) => Member(name, u)'
    BY <2>1, MembersStay DEF TypeOK
  <2>3. ASSUME NEW a \in Incoming(c)', a.by = "input", a.ok, a.cmd \in {"join", "create"}, client[c].life = "on"
        PROVE  Member(a.name, client[c].login)'
    <3>1. CASE a \in Incoming(c)
      <4>1. Member(a.name, client[c].login)
        BY <2>3, <3>1 DEF Belongs
      <4> QED BY <2>1, <2>2, <4>1 DEF Member
    <3>2. CASE a = pending' /\ a # NoAnswer /\ c = r.client
      <4>1. /\ r \in Outgoing(c) /\ r.by = "input" /\ r.cmd \in {"join", "create"} /\ a.name = r.name
            /\ r.name \in DOMAIN groups' /\ r.login \in groups'[r.name].members
        BY <2>1, <2>3, <3>2 DEF Reply
      <4>2. r.login = client[c].login
        BY <2>3, <4>1 DEF SameUser
      <4> QED BY <2>1, <4>1, <4>2 DEF Member
    <3> QED BY <2>1, <2>3, <3>1, <3>2 DEF Flows
  <2>4. client[c].state = "InGroupChat" => Member(client[c].chat, client[c].login)'
    <3>1. client[c].state = "InGroupChat" => Member(client[c].chat, client[c].login)
      BY DEF Belongs
    <3> QED BY <2>1, <2>2, <3>1 DEF Member
  <2>5. \A q \in Outgoing(c)' : q.cmd = "push_msg" /\ q.mode = "GROUP" => Member(q.name, q.login)'
    BY <2>1, <2>2 DEF Belongs, Flows
  <2> QED BY <2>1, <2>3, <2>4, <2>5 DEF Belongs, Member
<1>2. CASE Respond
  <2>1. client' = client /\ groups' = groups /\ Flows(c, {}, {})
    BY <1>2, RespondFlows DEF Respond, clientVars
  <2> QED BY <2>1 DEF Belongs, Flows, Member
<1>3. ASSUME NEW d \in Clients, ClientStep(d) PROVE Belongs(c)'
  <2>1. groups' = groups
    BY <1>3 DEF ClientStep
  <2>2. CASE d # c
    <3>1. client'[c] = client[c] /\ Outgoing(c)' \subseteq Outgoing(c) /\ Incoming(c)' \subseteq Incoming(c)
      BY <1>3, <2>2 DEF ClientStep, Moved, Others, Flows
    <3> QED BY <2>1, <3>1 DEF Belongs, Member
  <2>3. CASE d = c /\ Asks(c) /\ Flows(c, {client'[c].input}, {})
    <3> DEFINE q == client'[c].input
    <3>1. ~client[c].waiting /\ client'[c].state = client[c].state /\ client'[c].chat = client[c].chat
      BY <2>3 DEF Asks
    <3>2. \A a \in Incoming(c)' : a.by # "input"
      BY <2>3, <3>1, NothingAsked DEF Flows
    <3>3. client[c].state # "NotLogin" => client'[c].login = client[c].login /\ q.login = client[c].login
      BY <2>3 DEF Asks
    <3>4. q.cmd = "push_msg" /\ q.mode = "GROUP" => client[c].state = "InGroupChat" /\ q.name = client[c].chat
      BY <2>3 DEF Asks
    <3>5. \A r \in Outgoing(c)' : r \in Outgoing(c) \/ r = q
      BY <2>3 DEF Flows
    <3> HIDE DEF q
    <3> QED BY <2>1, <3>1, <3>2, <3>3, <3>4, <3>5 DEF Belongs, Member
  <2>4. CASE d = c /\ Leaves(c) /\ Flows(c, {}, {})
    BY <2>1, <2>4 DEF Belongs, Member, Flows, Leaves
  <2>5. CASE d = c /\ Quits(c) /\ Flows(c, {client'[c].input} \ {NoRequest}, {})
    <3>1. \A r \in Outgoing(c)' : r \in Outgoing(c) \/ r.cmd = "logout"
      BY <2>5 DEF Flows, Quits
    <3> QED BY <2>1, <2>5, <3>1 DEF Belongs, Member, Flows, Quits
  <2>6. CASE d = c /\ Updates(c) /\ Flows(c, {client'[c].updater}, {})
    <3>1. \A r \in Outgoing(c)' : r \in Outgoing(c) \/ r.cmd = "get_msg"
      BY <2>6 DEF Flows, Updates
    <3> QED BY <2>1, <2>6, <3>1 DEF Belongs, Member, Flows, Updates
  <2>7. ASSUME d = c, NEW t \in Threads, Puts(c, t), Flows(c, {}, {}) PROVE Belongs(c)'
    <3>1. Outgoing(c)' \subseteq Outgoing(c) /\ Incoming(c)' \subseteq Incoming(c)
      BY <2>7 DEF Flows
    <3>2. /\ client'[c].state \in {client[c].state, "NotLogin"}
          /\ client'[c].chat = client[c].chat /\ client'[c].login = client[c].login
          /\ (client'[c].life = "on" <=> client[c].life = "on")
      BY <2>7 DEF Puts
    <3> QED BY <2>1, <3>1, <3>2 DEF Belongs, Member
  <2>8. ASSUME d = c, NEW a \in Incoming(c), Takes(c, a), Flows(c, {}, {}) PROVE Belongs(c)'
    <3>1. Outgoing(c)' \subseteq Outgoing(c) /\ Incoming(c)' \subseteq Incoming(c)
      BY <2>8 DEF Flows
    <3>2. client'[c].login = client[c].login /\ client'[c].life = client[c].life /\ client[c].life = "on"
      BY <2>8 DEF Takes
    <3>3. client'[c].state = "InGroupChat" => Member(client'[c].chat, client[c].login)
      <4>1. CASE a.ok /\ a.cmd \in {"join", "create"}
        <5>1. a.by = "input"
          BY <4>1, FlowTypes DEF Origins, AnswerType, Threads
        <5>2. client'[c].chat = a.name \/ (client'[c].state = client[c].state /\ client'[c].chat = client[c].chat)
          BY <2>8, <4>1 DEF Takes
        <5> QED BY <3>2, <4>1, <5>1, <5>2 DEF Belongs
      <4>2. CASE ~(a.ok /\ a.cmd \in {"join", "create"})
        BY <2>8, <4>2 DEF Takes, Belongs
      <4> QED BY <4>1, <4>2
    <3> QED BY <2>1, <3>1, <3>2, <3>3 DEF Belongs, Member
  <2> QED BY <1>3, <2>2, <2>3, <2>4, <2>5, <2>6, <2>7, <2>8 DEF ClientStep
<1> QED BY <1>1, <1>2, <1>3, ClientSteps

-----------------------------------------------------------------------------
(* The inductive invariant.                                                *)

Patience ==
  /\ \A c \in Clients : OneAsked(c) /\ SameUser(c) /\ Belongs(c)
  /\ \A u \in Names \cup {NoneUser} : OneHolder(u)
  /\ HeardInGroups

\* The invariant: the last conjunct is about the behaviours in which every user
\* has waited for the answer to each command so far.
IInv == /\ TypeOK /\ IdsBounded /\ Origins /\ ServerInv /\ Numbered /\ ReadersServed
        /\ patient => Patience

LEMMA InitInv == Init => IInv
<1> SUFFICES ASSUME Init PROVE IInv
  OBVIOUS
<1>1. TypeOK
  BY InitType
<1>2. /\ users = {} /\ authorized = {} /\ groups = <<>> /\ privates = <<>> /\ counter = 0
      /\ pending = NoAnswer /\ requests = <<>> /\ DOMAIN groups = {} /\ DOMAIN privates = {}
      /\ DOMAIN requests = {} /\ Range(requests) = {}
  BY DEF Init, InitServer, Range
<1>3. ASSUME NEW c \in Clients
      PROVE  /\ client[c].state = "NotLogin" /\ client[c].last = 0 /\ client[c].opened = 0
             /\ client[c].input = NoRequest /\ client[c].updater = NoRequest /\ ~client[c].waiting
  BY DEF Init, InitClient
<1>4. ASSUME NEW c \in Clients PROVE Outgoing(c) = {} /\ Incoming(c) = {} /\ DOMAIN answers[c] = {}
  <2>1. answers[c] = <<>> /\ Range(answers[c]) = {} /\ DOMAIN answers[c] = {}
    BY DEF Init, Range
  <2> QED BY <1>2, <1>3, <2>1 DEF Outgoing, Incoming
<1>5. IdsBounded /\ ServerInv
  BY <1>2 DEF IdsBounded, ServerInv
<1>6. Origins
  BY <1>2, <1>3, <1>4 DEF Origins
<1>7. Numbered
  BY <1>2, <1>3, <1>4 DEF Numbered
<1>8. ReadersServed
  BY <1>3, <1>4 DEF ReadersServed, Reader, InChat
<1>9. ASSUME NEW c \in Clients PROVE OneAsked(c) /\ SameUser(c) /\ Belongs(c)
  <2>1. InPipe(c) = {} /\ Answered(c) = {} /\ ~Answering(c) /\ ~Asked(c)
    BY <1>2, <1>3, <1>4 DEF InPipe, Answered, Answering, Asked
  <2> QED BY <2>1, <1>3, <1>4 DEF OneAsked, AtMostOne, SameUser, Belongs
<1>10. ASSUME NEW u PROVE OneHolder(u)
  <2>1. LogoutsOf(u) = {} /\ \A c \in Clients : ~Holds(c, u)
    BY <1>2, <1>3, <1>4 DEF LogoutsOf, Holds
  <2> QED BY <2>1 DEF OneHolder, AtMostOne
<1>11. HeardInGroups
  BY <1>2 DEF HeardInGroups
<1> QED BY <1>1, <1>5, <1>6, <1>7, <1>8, <1>9, <1>10, <1>11 DEF IInv, Patience

\* What the invariant says of the server.
LEMMA ServerStep ==
  ASSUME TypeOK, IdsBounded, Origins, ServerInv, Next
  PROVE  IdsBounded' /\ ServerInv'
<1>1. CASE Handle
  <2>1. Served /\ Head(requests) \in RequestType /\ RequestHandler(Head(requests))
    BY <1>1, HandleFlows DEF TypeOK
  <2> QED BY <2>1, IdsBoundedStep, ServerInvStep
<1>2. CASE Respond \/ \E d \in Clients : ClientStep(d)
  <2>1. UNCHANGED <<users, authorized, groups, privates, counter>>
    BY <1>2 DEF ClientStep, Respond
  <2> QED BY <2>1 DEF IdsBounded, ServerInv, Pair
<1> QED BY <1>1, <1>2, ClientSteps

LEMMA ReaderStep ==
  ASSUME TypeOK, TypeOK', IdsBounded, Origins, ServerInv, Numbered, Next, NEW c \in Clients, Reader(c)
  PROVE  Reader(c)'
<1>1. CASE Handle
  BY <1>1, ReaderHandles
<1>2. CASE Respond
  BY <1>2, RespondFlows, ReaderKept DEF Respond, clientVars, Flows
<1>3. ASSUME NEW d \in Clients, ClientStep(d) PROVE Reader(c)'
  <2>1. CASE d # c
    BY <1>3, <2>1, ReaderKept DEF ClientStep, Moved, Others, Flows
  <2>2. CASE d = c
    BY <1>3, <2>2, ReaderMoves, ReaderTakes DEF ClientStep
  <2> QED BY <2>1, <2>2
<1> QED BY <1>1, <1>2, <1>3, ClientSteps

LEMMA PatientBefore ==
  ASSUME TypeOK, Next, patient'
  PROVE  patient
<1>1. CASE Handle \/ Respond
  BY <1>1 DEF Handle, Respond, clientVars
<1>2. ASSUME NEW c \in Clients, User(c) PROVE patient
  BY <1>2, UserCases DEF Asks, Leaves
<1>3. ASSUME NEW c \in Clients,
             UserExit(c) \/ Update(c) \/ Receive(c) \/ \E t \in Threads : Send(c, t)
      PROVE  patient
  BY <1>3 DEF UserExit, Update, Receive, Send
<1> QED BY <1>1, <1>2, <1>3 DEF Next

LEMMA PatienceStep ==
  ASSUME TypeOK, TypeOK', IdsBounded, Origins, Origins', Next, Patience, patient'
  PROVE  Patience'
<1>1. ASSUME NEW c \in Clients PROVE (OneAsked(c) /\ SameUser(c) /\ Belongs(c))'
  BY AskedStep, SameUserStep, BelongsStep DEF Patience
<1>2. ASSUME NEW u \in Names \cup {NoneUser} PROVE OneHolder(u)'
  BY HolderStep DEF Patience
<1>3. HeardInGroups'
  <2>1. CASE Handle
    <3> DEFINE r == Head(requests)
    <3>1. Served /\ r \in RequestType /\ r.client \in Clients /\ r \in Outgoing(r.client) /\ RequestHandler(r)
      BY <2>1, HandleFlows DEF TypeOK
    <3>2. r.cmd = "push_msg" /\ r.mode = "GROUP" => Member(r.name, r.login)
      BY <3>1 DEF Patience, Belongs
    <3> HIDE DEF r
    <3> QED BY <3>1, <3>2, HeardStep DEF Patience
  <2>2. CASE Respond \/ \E d \in Clients : ClientStep(d)
    BY <2>2 DEF ClientStep, Respond, Patience, HeardInGroups
  <2> QED BY <2>1, <2>2, ClientSteps
<1> QED BY <1>1, <1>2, <1>3 DEF Patience

LEMMA StutterInv ==
  ASSUME IInv, UNCHANGED vars
  PROVE  IInv'
<1>1. /\ UNCHANGED <<users, authorized, groups, privates, counter, pending>>
      /\ UNCHANGED <<client, inputs, patient, requests, answers>>
  BY DEF vars, serverVars, clientVars, pipeVars
<1>2. TypeOK' /\ IdsBounded' /\ ServerInv'
  BY <1>1 DEF IInv, TypeOK, Served, ClientOK, IdsBounded, ServerInv, Pair
<1>3. \A c \in Clients : Outgoing(c)' = Outgoing(c) /\ Incoming(c)' = Incoming(c)
  BY <1>1 DEF Outgoing, Incoming
<1>4. Origins' /\ Numbered'
  BY <1>1, <1>3 DEF IInv, Origins, Numbered
<1>5. ASSUME NEW c \in Clients PROVE Reader(c)'
  BY <1>1, <1>3, ReaderKept DEF IInv, ReadersServed
<1>6. ASSUME Patience PROVE Patience'
  <2>1. ASSUME NEW c \in Clients PROVE OneAsked(c)'
    <3>1. InPipe(c)' = InPipe(c) /\ Answered(c)' = Answered(c) /\ Answering(c)' = Answering(c)
      BY <1>1 DEF InPipe, Answered, Answering
    <3> QED BY <1>1, <1>6, <3>1, AskedKept DEF Patience
  <2>2. ASSUME NEW c \in Clients PROVE SameUser(c)' /\ Belongs(c)'
    BY <1>1, <1>3, <1>6 DEF Patience, SameUser, Belongs, Member
  <2>3. ASSUME NEW u \in Names \cup {NoneUser} PROVE OneHolder(u)'
    <3>1. LogoutsOf(u)' = LogoutsOf(u) /\ \A c \in Clients : Holds(c, u)' => Holds(c, u)
      BY <1>1, <1>3 DEF LogoutsOf, Holds
    <3> QED BY <1>1, <1>6, <3>1, HolderKept DEF Patience
  <2>4. HeardInGroups'
    BY <1>1, <1>6 DEF Patience, HeardInGroups
  <2> QED BY <2>1, <2>2, <2>3, <2>4 DEF Patience
<1> QED BY <1>1, <1>2, <1>4, <1>5, <1>6 DEF IInv, ReadersServed

LEMMA NextInv ==
  ASSUME IInv, Next
  PROVE  IInv'
<1>0. TypeOK /\ IdsBounded /\ Origins /\ ServerInv /\ Numbered /\ ReadersServed /\ (patient => Patience)
  BY DEF IInv
<1>1. TypeOK'
  BY <1>0, TypeStep
<1>2. Origins'
  BY <1>0, OriginsStep
<1>3. IdsBounded' /\ ServerInv'
  BY <1>0, ServerStep
<1>4. Numbered'
  BY <1>0, NumberedStep
<1>5. ReadersServed'
  BY <1>0, <1>1, ReaderStep DEF ReadersServed
<1>6. patient' => Patience'
  BY <1>0, <1>1, <1>2, PatienceStep, PatientBefore
<1> QED BY <1>1, <1>2, <1>3, <1>4, <1>5, <1>6 DEF IInv

LEMMA Invariance == Spec => []IInv
<1>1. IInv /\ [Next]_vars => IInv'
  BY NextInv, StutterInv
<1> QED BY <1>1, InitInv, PTL DEF Spec

\* The variables of server, clients and pipes keep their types, whatever gets lost
\* and whatever the users type.
THEOREM TypeCorrect == Spec => []TypeOK
<1>1. IInv => TypeOK
  BY DEF IInv
<1> QED BY <1>1, Invariance, PTL

\* ServerConsistent, of the handlers of server.cpp: who is authorized or in a group
\* has logged in before; a member is announced in a group once and nobody else is
\* (cmd_create, cmd_join); two users have one private chat (cmd_private).
THEOREM ServerCorrect == Spec => []ServerConsistent
<1>1. IInv => ServerConsistent
  BY ServerInvSuffices DEF IInv
<1> QED BY <1>1, Invariance, PTL

\* NothingSkipped, of get_messages in client.cpp and cmd_get_msg in server.cpp:
\* in the first chat a client opens, everything up to the number it asks after is
\* on the screen, though requests and answers get lost, cross commands of the user,
\* and are repeated.
THEOREM ReadersCorrect == Spec => []NothingSkipped
<1>1. IInv => NothingSkipped
  BY DEF IInv, ReadersServed, Reader, SeenUpTo, NothingSkipped
<1> QED BY <1>1, Invariance, PTL

\* AuthorsAreMembers, of cmd_put_msg, which stores a message without looking at the
\* members: with users who wait for their answers, only members are heard.
THEOREM AuthorsCorrect == Spec => []AuthorsAreMembers
<1>1. IInv => AuthorsAreMembers
  BY DEF IInv, Patience, HeardInGroups, Authors, AuthorsAreMembers
<1> QED BY <1>1, Invariance, PTL

\* OneClientPerLogin, of cmd_login, cmd_logout and the states of the client: with
\* users who wait for their answers, no two clients are logged in as one user.
THEOREM LoginsCorrect == Spec => []OneClientPerLogin
<1>1. ASSUME IInv, patient, NEW c \in Clients, NEW d \in Clients, LoggedIn(c), LoggedIn(d),
             client[c].login = client[d].login
      PROVE  c = d
  <2>1. PICK u \in Names \cup {NoneUser} : u = client[c].login
    BY <1>1, FlowTypes, ClientFields, CmdNames DEF IInv
  <2>2. Holds(c, u) /\ Holds(d, u)
    BY <1>1, <2>1 DEF LoggedIn, Holds
  <2> QED BY <1>1, <2>2 DEF IInv, Patience, OneHolder
<1>2. IInv => OneClientPerLogin
  BY <1>1 DEF OneClientPerLogin
<1> QED BY <1>2, Invariance, PTL
=============================================================================
