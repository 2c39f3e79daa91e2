----------------------------- MODULE BoardProofs -----------------------------
(***************************************************************************)
(* The message board answers the truth and shows a tab its own posts, for  *)
(* any number of tabs, programs, names and requests.                       *)
(***************************************************************************)
EXTENDS Board, FiniteSetTheorems, SequenceTheorems, TLAPS

Message == [user : GoodName, post : Nat]
Stage == {"start", "clean", "create", "body", "save", "done", "lost"}
Code == {0, 200, 201, 400, 500}
Hearing == {"nothing", "answer", "error"}
Method == {"GET", "POST"}
Name == GoodName \cup BadName
Requests ==
    [by : Tab \cup Client, method : Method, name : Name, form : Form, known : BOOLEAN,
     at : Stage, code : Code, list : Seq(Message), heard : Hearing]

Types ==
    /\ users \subseteq GoodName
    /\ messages \in Seq(Message)
    /\ requests \in Seq(Requests)
    /\ messageList \in [Tab -> [of : Nat, list : Seq(Message)]]

\* How far the view can have come with request q while the table of users holds us.
Sound(q, us) ==
    /\ q.known \/ q.at \in {"body", "save"} \/ q.code = 201 => q.name \in us
    /\ q.known => q.at \notin {"clean", "create"}
    /\ q.known /\ q.form = "good" => q.code \notin {400, 500}
    /\ q.at = "create" => q.name \in GoodName
    /\ q.at = "save" => q.form = "good"
    /\ q.code # 0 => q.at = "done"
    /\ q.heard = "answer" => q.code # 0
    /\ q.code = 200 => q.method = "GET"

AllSound == \A r \in DOMAIN requests : Sound(requests[r], users)

\* The messages are those of the posts that were answered 201, one each.
Posted201 ==
    /\ \A i \in DOMAIN messages :
          LET r == messages[i].post
          IN  r \in DOMAIN requests /\ requests[r].code = 201 /\ messages[i].user = requests[r].name
    /\ \A i, k \in DOMAIN messages : messages[i].post = messages[k].post => i = k
    /\ \A r \in DOMAIN requests :
          requests[r].code = 201 => \E i \in DOMAIN messages : messages[i].post = r

\* List shows post r, or is full of messages of the board ms that are newer.
Shows(list, r, ms) ==
    \/ \E i \in DOMAIN list : list[i].post = r
    \/ /\ Len(list) = Limit
       /\ \A i \in DOMAIN list : \E k, n \in DOMAIN ms :
             ms[k] = list[i] /\ ms[n].post = r /\ n < k

\* The answer of request q is on its way to the tab.
Holding(q) == q.code = 200 /\ q.heard = "nothing"

LastRefresh(t, g) == g \in Refreshes(t) /\ \A h \in Refreshes(t) : h <= g

\* Once tab t was told of the success of r, it refreshed again, and the last refresh lists r.
Listed ==
    /\ \A t \in Tab : \A r \in Posts(t) : \A g \in DOMAIN requests :
          Succeeded(r) /\ LastRefresh(t, g)
          => /\ Holding(requests[g]) => Shows(requests[g].list, r, messages)
             /\ messageList[t].of = g => Shows(messageList[t].list, r, messages)
    /\ \A t \in Tab : messageList[t] # Nothing => messageList[t].of \in Refreshes(t)

BoardInv == Types /\ AllSound /\ Posted201 /\ Listed

LEMMA InitBoard == Init => BoardInv
<1> SUFFICES ASSUME Init PROVE BoardInv
  OBVIOUS
<1>1. Types
  BY DEF Init, Types, Nothing
<1>2. DOMAIN requests = {} /\ DOMAIN messages = {} /\ \A t \in Tab : messageList[t] = Nothing
  BY DEF Init
<1>3. AllSound /\ Posted201 /\ Listed
  BY <1>2 DEF AllSound, Posted201, Listed, Posts
<1> QED BY <1>1, <1>3 DEF BoardInv

\* A board that is sound says the truth.
LEMMA BoardTrue == BoardInv => AnswersTrue
<1> SUFFICES ASSUME BoardInv PROVE AnswersTrue
  OBVIOUS
<1>1. ASSUME NEW r \in DOMAIN requests
      PROVE  LET copies == {i \in DOMAIN messages : messages[i].post = r}
             IN  Cardinality(copies) = IF requests[r].code = 201 THEN 1 ELSE 0
  <2> DEFINE copies == {i \in DOMAIN messages : messages[i].post = r}
  <2>1. CASE requests[r].code = 201
    <3>1. PICK i \in DOMAIN messages : messages[i].post = r
      BY <2>1 DEF BoardInv, Posted201
    <3>2. copies = {i}
      BY <3>1 DEF BoardInv, Posted201
    <3> HIDE DEF copies
    <3>3. Cardinality(copies) = 1
      BY <3>2, FS_Singleton
    <3> QED BY <2>1, <3>3 DEF copies
  <2>2. CASE requests[r].code # 201
    <3>1. copies = {}
      BY <2>2 DEF BoardInv, Posted201
    <3> QED BY <2>2, <3>1, FS_EmptySet
  <2> QED BY <2>1, <2>2
<1>2. ASSUME NEW r \in DOMAIN requests, NEW i \in DOMAIN messages, messages[i].post = r
      PROVE  messages[i].user = requests[r].name /\ messages[i].user \in users
  BY <1>2 DEF BoardInv, Posted201, AllSound, Sound
<1>3. \A r \in DOMAIN requests :
        requests[r].known /\ requests[r].form = "good" => requests[r].code \notin {400, 500}
  BY DEF BoardInv, AllSound, Sound
<1>4. users \subseteq GoodName
  BY DEF BoardInv, Types
<1> QED BY <1>1, <1>2, <1>3, <1>4 DEF AnswersTrue

LEMMA BoardShows == BoardInv => OwnPostsShown
<1> SUFFICES ASSUME BoardInv, NEW t \in Tab, NEW r \in Posts(t), Succeeded(r),
                    messageList[t] # Nothing,
                    \A g \in Refreshes(t) : g <= messageList[t].of
             PROVE  LET list == messageList[t].list
                        age(p) == CHOOSE i \in DOMAIN messages : messages[i].post = p
                    IN  \/ \E i \in DOMAIN list : list[i].post = r
                        \/ /\ Len(list) = Limit
                           /\ \A i \in DOMAIN list : age(list[i].post) > age(r)
  BY DEF OwnPostsShown
<1> DEFINE list == messageList[t].list
           age(p) == CHOOSE i \in DOMAIN messages : messages[i].post = p
<1>1. Shows(list, r, messages)
  BY DEF BoardInv, Listed, LastRefresh, Refreshes
<1>2. \A i, k \in DOMAIN messages : messages[i].post = messages[k].post => i = k
  BY DEF BoardInv, Posted201
<1>3. \A n \in DOMAIN messages : age(messages[n].post) = n
  BY <1>2
<1>4. \A n \in DOMAIN messages : n \in Nat
  BY DEF BoardInv, Types
<1> HIDE DEF age
<1>5. ASSUME NEW i \in DOMAIN list, NEW k \in DOMAIN messages, NEW n \in DOMAIN messages,
             messages[k] = list[i], messages[n].post = r, n < k
      PROVE  age(list[i].post) > age(r)
  BY <1>3, <1>4, <1>5
<1>6. (\E i \in DOMAIN list : list[i].post = r)
        \/ (Len(list) = Limit /\ \A i \in DOMAIN list : age(list[i].post) > age(r))
  BY <1>1, <1>5 DEF Shows
<1> QED BY <1>6 DEF age

-----------------------------------------------------------------------------
\* A request stays the one that was sent, and neither its message nor an answer for a tab comes
\* out of nothing.
Quiet(q, p) ==
    /\ p.by = q.by /\ p.method = q.method /\ p.name = q.name
    /\ p.code = 201 <=> q.code = 201
    /\ Holding(p) => Holding(q) /\ p.list = q.list
    /\ p.heard = "answer" /\ p.code = 201 => q.heard = "answer"

LEMMA QuietBoard ==
    ASSUME BoardInv, users \subseteq users', users' \subseteq GoodName,
           requests' \in Seq(Requests), DOMAIN requests' = DOMAIN requests,
           \A r \in DOMAIN requests : /\ Sound(requests'[r], users')
                                      /\ Quiet(requests[r], requests'[r]),
           UNCHANGED <<messages, messageList>>
    PROVE  BoardInv'
<1>1. Types'
  BY DEF BoardInv, Types
<1>2. AllSound'
  BY DEF AllSound
<1>3. Posted201'
  BY DEF BoardInv, Posted201, Quiet
<1>4. \A t \in Tab : Refreshes(t)' = Refreshes(t) /\ Posts(t)' = Posts(t)
  BY DEF Refreshes, Posts, Quiet
<1>5. \A r \in DOMAIN requests : Succeeded(r)' => Succeeded(r)
  BY DEF Succeeded, Quiet
<1>6. Listed'
  <2>1. ASSUME NEW t \in Tab, NEW r \in Posts(t)', NEW g \in DOMAIN requests',
               Succeeded(r)', LastRefresh(t, g)'
        PROVE  /\ Holding(requests'[g]) => Shows(requests'[g].list, r, messages')
               /\ messageList'[t].of = g => Shows(messageList'[t].list, r, messages')
    <3>1. r \in Posts(t) /\ r \in DOMAIN requests /\ g \in DOMAIN requests /\ Succeeded(r)
      BY <1>4, <1>5, <2>1 DEF Posts
    <3>2. LastRefresh(t, g)
      BY <1>4, <2>1 DEF LastRefresh
    <3>3. /\ Holding(requests[g]) => Shows(requests[g].list, r, messages)
          /\ messageList[t].of = g => Shows(messageList[t].list, r, messages)
      BY <3>1, <3>2 DEF BoardInv, Listed
    <3>4. Holding(requests'[g]) => Holding(requests[g]) /\ requests'[g].list = requests[g].list
      BY <3>1 DEF Quiet
    <3> QED BY <3>3, <3>4
  <2>2. \A t \in Tab : messageList'[t] # Nothing => messageList'[t].of \in Refreshes(t)'
    <3>1. Nothing' = Nothing /\ messageList' = messageList
      BY DEF Nothing
    <3> QED BY <1>4, <3>1 DEF BoardInv, Listed
  <2> QED BY <2>1, <2>2 DEF Listed
<1> QED BY <1>1, <1>2, <1>3, <1>6 DEF BoardInv

\* A request with one of the fields changed is a request.
LEMMA RequestFields ==
    ASSUME BoardInv, NEW r \in DOMAIN requests
    PROVE  /\ requests[r] \in Requests /\ Sound(requests[r], users)
           /\ DOMAIN requests = 1 .. Len(requests) /\ Len(requests) \in Nat
BY DEF BoardInv, Types, AllSound

LEMMA EditBoard ==
    ASSUME BoardInv, NEW r \in DOMAIN requests, NEW q \in Requests,
           requests' = [requests EXCEPT ![r] = q],
           users \subseteq users', users' \subseteq GoodName,
           Sound(q, users'), Quiet(requests[r], q), UNCHANGED <<messages, messageList>>
    PROVE  BoardInv'
<1>1. requests \in Seq(Requests) /\ r \in 1 .. Len(requests)
  BY DEF BoardInv, Types
<1>2. requests' \in Seq(Requests) /\ DOMAIN requests' = DOMAIN requests
  BY <1>1, ExceptSeq
<1>3. requests'[r] = q /\ \A s \in DOMAIN requests : s # r => requests'[s] = requests[s]
  OBVIOUS
<1>4. ASSUME NEW s \in DOMAIN requests
      PROVE  Sound(requests'[s], users') /\ Quiet(requests[s], requests'[s])
  <2>1. CASE s = r
    BY <1>3, <2>1
  <2>2. CASE s # r
    <3>1. requests'[s] = requests[s]
      BY <1>3, <2>2
    <3>2. Sound(requests[s], users)
      BY DEF BoardInv, AllSound
    <3> QED BY <3>1, <3>2 DEF Sound, Quiet
  <2> QED BY <2>1, <2>2
<1> QED BY <1>2, <1>4, QuietBoard

\* Request q with all that a step may change of it.
Edit(q, stage, code, list, heard) ==
    [q EXCEPT !.at = stage, !.code = code, !.list = list, !.heard = heard]

LEMMA EditType ==
    ASSUME NEW q \in Requests, NEW stage \in Stage, NEW code \in Code,
           NEW list \in Seq(Message), NEW heard \in Hearing
    PROVE  LET p == Edit(q, stage, code, list, heard) IN
           /\ p \in Requests
           /\ p.by = q.by /\ p.method = q.method /\ p.name = q.name
           /\ p.form = q.form /\ p.known = q.known
           /\ p.at = stage /\ p.code = code /\ p.list = list /\ p.heard = heard
BY DEF Requests, Edit

LEMMA EditForms ==
    ASSUME NEW q \in Requests
    PROVE  /\ \A s : [q EXCEPT !.at = s] = Edit(q, s, q.code, q.list, q.heard)
           /\ \A s, c : [q EXCEPT !.at = s, !.code = c] = Edit(q, s, c, q.list, q.heard)
           /\ \A s, c, l : [q EXCEPT !.at = s, !.code = c, !.list = l] = Edit(q, s, c, l, q.heard)
           /\ \A h : [q EXCEPT !.heard = h] = Edit(q, q.at, q.code, q.list, h)
           /\ \A s, h : [q EXCEPT !.at = s, !.heard = h] = Edit(q, s, q.code, q.list, h)
           /\ \A h, l : [q EXCEPT !.heard = h, !.list = l] = Edit(q, q.at, q.code, l, h)
BY DEF Requests, Edit

\* A view that goes on to another stage, or answers.
Staged(r, stage, code) ==
    /\ requests[r].at \notin {"done", "lost"}
    /\ stage \in {"clean", "create", "body", "save", "done"} /\ code \in {0, 400, 500}
    /\ requests' = [requests EXCEPT ![r] =
                      Edit(requests[r], stage, code, requests[r].list, requests[r].heard)]
    /\ users \subseteq users' /\ users' \subseteq GoodName
    /\ code # 0 => stage = "done" /\ (requests[r].known => requests[r].form # "good")
    /\ stage \in {"clean", "create"} => ~requests[r].known
    /\ stage = "create" => requests[r].name \in GoodName
    /\ stage \in {"body", "save"} => requests[r].name \in users'
    /\ stage = "save" => requests[r].form = "good"
    /\ UNCHANGED <<messages, messageList>>

LEMMA StageBoard ==
    ASSUME BoardInv, NEW r \in DOMAIN requests, NEW stage, NEW code, Staged(r, stage, code)
    PROVE  BoardInv'
<1>0. /\ requests[r].at \notin {"done", "lost"}
      /\ stage \in {"clean", "create", "body", "save", "done"} /\ code \in {0, 400, 500}
      /\ requests' = [requests EXCEPT ![r] =
                        Edit(requests[r], stage, code, requests[r].list, requests[r].heard)]
      /\ users \subseteq users' /\ users' \subseteq GoodName
      /\ code # 0 => stage = "done" /\ (requests[r].known => requests[r].form # "good")
      /\ stage \in {"clean", "create"} => ~requests[r].known
      /\ stage = "create" => requests[r].name \in GoodName
      /\ stage \in {"body", "save"} => requests[r].name \in users'
      /\ stage = "save" => requests[r].form = "good"
      /\ UNCHANGED <<messages, messageList>>
  BY DEF Staged
<1> DEFINE q == Edit(requests[r], stage, code, requests[r].list, requests[r].heard)
<1>1. requests[r] \in Requests /\ Sound(requests[r], users)
  BY RequestFields
<1>2. requests[r].code = 0
  BY <1>0, <1>1 DEF Sound
<1>3. stage \in Stage /\ code \in Code
  BY <1>0 DEF Stage, Code
<1>4. requests[r].list \in Seq(Message) /\ requests[r].heard \in Hearing
  BY <1>1 DEF Requests
<1>5. /\ q \in Requests
      /\ q.by = requests[r].by /\ q.method = requests[r].method /\ q.name = requests[r].name
      /\ q.form = requests[r].form /\ q.known = requests[r].known /\ q.list = requests[r].list
      /\ q.heard = requests[r].heard /\ q.at = stage /\ q.code = code
  BY <1>1, <1>3, <1>4, EditType
<1>6. requests' = [requests EXCEPT ![r] = q]
  BY <1>0
<1> HIDE DEF q
<1>7. Sound(q, users')
  BY <1>0, <1>1, <1>5 DEF Sound
<1>8. Quiet(requests[r], q)
  BY <1>0, <1>2, <1>5 DEF Quiet, Holding
<1> QED BY <1>0, <1>5, <1>6, <1>7, <1>8, EditBoard

\* Goto and gen_response as one change of the request.
LEMMA StageChange ==
    ASSUME BoardInv, NEW r \in DOMAIN requests, requests[r].at \notin {"done", "lost"}
    PROVE  LET q == requests[r] IN
           /\ \A stage : Goto(r, stage) =>
                requests' = [requests EXCEPT ![r] = Edit(q, stage, 0, q.list, q.heard)]
           /\ \A code : gen_response(r, code) =>
                requests' = [requests EXCEPT ![r] = Edit(q, "done", code, q.list, q.heard)]
<1>1. requests[r] \in Requests /\ requests[r].code = 0
  BY RequestFields DEF Sound
<1>2. \A s : [requests[r] EXCEPT !.at = s] = Edit(requests[r], s, 0, requests[r].list, requests[r].heard)
  BY <1>1, EditForms
<1>3. \A c : [requests[r] EXCEPT !.at = "done", !.code = c]
               = Edit(requests[r], "done", c, requests[r].list, requests[r].heard)
  BY <1>1, EditForms
<1> QED BY <1>2, <1>3 DEF Goto, gen_response

LEMMA FindUserBoard == ASSUME BoardInv, NEW r \in DOMAIN requests, FindUser(r) PROVE BoardInv'
<1>1. requests[r] \in Requests /\ Sound(requests[r], users) /\ users \subseteq GoodName
  BY RequestFields DEF BoardInv, Types
<1>2. requests[r].at = "start" /\ requests[r].at \notin {"done", "lost"}
  BY DEF FindUser, View
<1>3. CASE requests[r].name \in users
  <2>1. Goto(r, "body") /\ UNCHANGED <<users, messages, messageList>>
    BY <1>3 DEF FindUser
  <2>2. requests' = [requests EXCEPT ![r] =
                      Edit(requests[r], "body", 0, requests[r].list, requests[r].heard)]
    BY <1>2, <2>1, StageChange
  <2>3. Staged(r, "body", 0)
    BY <1>1, <1>2, <1>3, <2>1, <2>2 DEF Staged
  <2> QED BY <2>3, StageBoard
<1>4. CASE requests[r].name \notin users
  <2>1. Goto(r, "clean") /\ UNCHANGED <<users, messages, messageList>>
    BY <1>4 DEF FindUser
  <2>2. requests' = [requests EXCEPT ![r] =
                      Edit(requests[r], "clean", 0, requests[r].list, requests[r].heard)]
    BY <1>2, <2>1, StageChange
  <2>3. ~requests[r].known
    BY <1>1, <1>4 DEF Sound
  <2>4. Staged(r, "clean", 0)
    BY <1>1, <1>2, <2>1, <2>2, <2>3 DEF Staged
  <2> QED BY <2>4, StageBoard
<1> QED BY <1>3, <1>4

LEMMA CleanUserBoard == ASSUME BoardInv, NEW r \in DOMAIN requests, CleanUser(r) PROVE BoardInv'
<1>1. requests[r] \in Requests /\ Sound(requests[r], users) /\ users \subseteq GoodName
  BY RequestFields DEF BoardInv, Types
<1>2. /\ requests[r].at = "clean" /\ requests[r].at \notin {"done", "lost"}
      /\ UNCHANGED <<users, messages, messageList>>
  BY DEF CleanUser, View
<1>3. ~requests[r].known
  BY <1>1, <1>2 DEF Sound
<1>4. CASE requests[r].name \in users \cup BadName
  <2>1. requests' = [requests EXCEPT ![r] =
                      Edit(requests[r], "done", 400, requests[r].list, requests[r].heard)]
    BY <1>2, <1>4, StageChange DEF CleanUser
  <2>2. Staged(r, "done", 400)
    BY <1>1, <1>2, <1>3, <2>1 DEF Staged
  <2> QED BY <2>2, StageBoard
<1>5. CASE requests[r].name \notin users \cup BadName
  <2>1. requests' = [requests EXCEPT ![r] =
                      Edit(requests[r], "create", 0, requests[r].list, requests[r].heard)]
    BY <1>2, <1>5, StageChange DEF CleanUser
  <2>2. requests[r].name \in GoodName
    BY <1>1, <1>5 DEF Requests, Name
  <2>3. Staged(r, "create", 0)
    BY <1>1, <1>2, <1>3, <2>1, <2>2 DEF Staged
  <2> QED BY <2>3, StageBoard
<1> QED BY <1>4, <1>5

LEMMA SaveUserBoard == ASSUME BoardInv, NEW r \in DOMAIN requests, SaveUser(r) PROVE BoardInv'
<1>1. requests[r] \in Requests /\ Sound(requests[r], users) /\ users \subseteq GoodName
  BY RequestFields DEF BoardInv, Types
<1>2. /\ requests[r].at = "create" /\ requests[r].at \notin {"done", "lost"}
      /\ users' = users \cup {requests[r].name} /\ UNCHANGED <<messages, messageList>>
  BY DEF SaveUser, View
<1>3. ~requests[r].known /\ requests[r].name \in GoodName
  BY <1>1, <1>2 DEF Sound
<1>4. users \subseteq users' /\ users' \subseteq GoodName /\ requests[r].name \in users'
  BY <1>1, <1>2, <1>3
<1>5. CASE requests[r].name \in users
  <2>1. requests' = [requests EXCEPT ![r] =
                      Edit(requests[r], "done", 500, requests[r].list, requests[r].heard)]
    BY <1>2, <1>5, StageChange DEF SaveUser
  <2>2. Staged(r, "done", 500)
    BY <1>2, <1>3, <1>4, <2>1 DEF Staged
  <2> QED BY <2>2, StageBoard
<1>6. CASE requests[r].name \notin users
  <2>1. requests' = [requests EXCEPT ![r] =
                      Edit(requests[r], "body", 0, requests[r].list, requests[r].heard)]
    BY <1>2, <1>6, StageChange DEF SaveUser
  <2>2. Staged(r, "body", 0)
    BY <1>2, <1>3, <1>4, <2>1 DEF Staged
  <2> QED BY <2>2, StageBoard
<1> QED BY <1>5, <1>6

LEMMA ReadBodyBoard == ASSUME BoardInv, NEW r \in DOMAIN requests, ReadBody(r) PROVE BoardInv'
<1>1. requests[r] \in Requests /\ Sound(requests[r], users) /\ users \subseteq GoodName
  BY RequestFields DEF BoardInv, Types
<1>2. /\ requests[r].at = "body" /\ requests[r].at \notin {"done", "lost"}
      /\ UNCHANGED <<users, messages, messageList>>
  BY DEF ReadBody, View
<1>3. requests[r].name \in users
  BY <1>1, <1>2 DEF Sound
<1>4. CASE requests[r].form = "noJson"
  <2>1. requests' = [requests EXCEPT ![r] =
                      Edit(requests[r], "done", 500, requests[r].list, requests[r].heard)]
    BY <1>2, <1>4, StageChange DEF ReadBody
  <2>2. Staged(r, "done", 500)
    BY <1>1, <1>2, <1>4, <2>1 DEF Staged
  <2> QED BY <2>2, StageBoard
<1>5. CASE requests[r].form \in {"noKey", "blank"}
  <2>1. requests' = [requests EXCEPT ![r] =
                      Edit(requests[r], "done", 400, requests[r].list, requests[r].heard)]
    BY ZenonT(60), <1>2, <1>5, StageChange DEF ReadBody
  <2>2. Staged(r, "done", 400)
    BY <1>1, <1>2, <1>5, <2>1 DEF Staged
  <2> QED BY <2>2, StageBoard
<1>6. CASE requests[r].form = "good"
  <2>1. requests' = [requests EXCEPT ![r] =
                      Edit(requests[r], "save", 0, requests[r].list, requests[r].heard)]
    BY <1>2, <1>6, StageChange DEF ReadBody
  <2>2. Staged(r, "save", 0)
    BY <1>1, <1>2, <1>3, <1>6, <2>1 DEF Staged
  <2> QED BY <2>2, StageBoard
<1> QED BY <1>1, <1>4, <1>5, <1>6 DEF Requests, Form

\* What the tab makes of a failure, and what becomes of a connection that breaks.
LEMMA ErrorBoard ==
    ASSUME BoardInv, NEW r \in DOMAIN requests, Failed(r) \/ Break(r) PROVE BoardInv'
<1> DEFINE old == requests[r]
           stage == IF Break(r) /\ old.at = "start" THEN "lost" ELSE old.at
           q == Edit(old, stage, old.code, old.list, "error")
<1>1. old \in Requests /\ Sound(old, users) /\ users \subseteq GoodName
  BY RequestFields DEF BoardInv, Types
<1>2. UNCHANGED <<users, messages, messageList>>
  BY DEF Failed, Break
<1>3. requests' = [requests EXCEPT ![r] = q]
  <2>1. CASE Break(r)
    <3>1. [old EXCEPT !.heard = "error", !.at = stage] = q
      BY <1>1 DEF Requests, Edit
    <3>2. requests' = [requests EXCEPT ![r].heard = "error", ![r].at = stage]
      BY <1>1, <2>1 DEF Break, Heard, Requests
    <3> QED BY <3>1, <3>2
  <2>2. CASE ~Break(r)
    <3>1. [old EXCEPT !.heard = "error"] = q
      BY <1>1, <2>2, EditForms
    <3>2. requests' = [requests EXCEPT ![r] = [old EXCEPT !.heard = "error"]]
      BY <2>2 DEF Failed, Heard
    <3> QED BY <3>1, <3>2
  <2> QED BY <2>1, <2>2
<1>4. stage \in Stage /\ "error" \in Hearing
  BY <1>1 DEF Requests, Stage, Hearing
<1>5. stage = old.at \/ (stage = "lost" /\ old.at = "start")
  OBVIOUS
<1> HIDE DEF stage
<1>6. old.code \in Code /\ old.list \in Seq(Message)
  BY <1>1 DEF Requests
<1>7. /\ q \in Requests
      /\ q.by = old.by /\ q.method = old.method /\ q.name = old.name
      /\ q.form = old.form /\ q.known = old.known /\ q.list = old.list
      /\ q.heard = "error" /\ q.at = stage /\ q.code = old.code
  BY <1>1, <1>4, <1>6, EditType
<1> HIDE DEF q
<1>8. Sound(q, users)
  BY <1>1, <1>5, <1>7 DEF Sound
<1>9. Quiet(old, q)
  BY <1>7 DEF Quiet, Holding
<1> QED BY <1>1, <1>2, <1>3, <1>7, <1>8, <1>9, EditBoard

LEMMA RestartBoard == ASSUME BoardInv, Restart PROVE BoardInv'
<1>1. requests \in Seq(Requests) /\ users \subseteq GoodName
  BY DEF BoardInv, Types
<1> DEFINE ends(q) == [q EXCEPT !.at = "lost", !.heard = IF @ = "nothing" THEN "error" ELSE @]
           after(r) == IF requests[r].at \in {"done", "lost"} THEN requests[r] ELSE ends(requests[r])
<1>2. requests' = [r \in DOMAIN requests |-> after(r)] /\ UNCHANGED <<users, messages, messageList>>
  BY DEF Restart
<1>3. ASSUME NEW r \in DOMAIN requests
      PROVE  after(r) \in Requests /\ Sound(after(r), users) /\ Quiet(requests[r], after(r))
  <2> DEFINE q == requests[r]
             heard == IF q.heard = "nothing" THEN "error" ELSE q.heard
             p == Edit(q, "lost", q.code, q.list, heard)
  <2>1. q \in Requests /\ Sound(q, users)
    BY RequestFields
  <2>2. CASE q.at \in {"done", "lost"}
    BY <2>1, <2>2 DEF Quiet, Holding
  <2>3. CASE q.at \notin {"done", "lost"}
    <3>1. ends(q) = [q EXCEPT !.at = "lost", !.heard = heard]
      BY <2>1 DEF Requests
    <3>2. after(r) = p
      <4>1. after(r) = ends(q)
        BY <2>3
      <4>2. [q EXCEPT !.at = "lost", !.heard = heard] = p
        <5> HIDE DEF heard, q
        <5> QED BY <2>1 DEF Requests, Edit
      <4> HIDE DEF after, ends, p
      <4> QED BY <3>1, <4>1, <4>2
    <3>3. heard \in Hearing /\ "lost" \in Stage /\ q.code \in Code /\ q.list \in Seq(Message)
      BY <2>1 DEF Requests, Hearing, Stage
    <3>4. heard # "nothing" /\ (heard = "answer" => q.heard = "answer")
      OBVIOUS
    <3> HIDE DEF after, q, heard
    <3>5. /\ p \in Requests
          /\ p.by = q.by /\ p.method = q.method /\ p.name = q.name /\ p.form = q.form
          /\ p.known = q.known /\ p.list = q.list /\ p.at = "lost" /\ p.code = q.code
          /\ p.heard = heard
      BY <2>1, <3>3, EditType
    <3> HIDE DEF p
    <3>6. q.code = 0
      BY <2>1, <2>3 DEF Sound
    <3>7. Sound(p, users) /\ Quiet(q, p)
      BY <2>1, <3>4, <3>5, <3>6 DEF Sound, Quiet, Holding
    <3> QED BY <3>2, <3>5, <3>7 DEF q
  <2> QED BY <2>2, <2>3
<1> HIDE DEF after
<1>4. requests' \in Seq(Requests) /\ DOMAIN requests' = DOMAIN requests
  BY <1>1, <1>2, <1>3
<1> QED BY <1>1, <1>2, <1>3, <1>4, QuietBoard

-----------------------------------------------------------------------------
\* The list that a GET is answered with shows every post that succeeded.
LEMMA ListShows ==
    ASSUME NEW ms \in Seq(Message), NEW n \in DOMAIN ms, NEW r, ms[n].post = r
    PROVE  LET number == IF Len(ms) < Limit THEN Len(ms) ELSE Limit
               list == SubSeq(Reverse(ms), 1, number)
           IN  list \in Seq(Message) /\ Shows(list, r, ms)
<1> DEFINE l == Len(ms)
           number == IF l < Limit THEN l ELSE Limit
           list == SubSeq(Reverse(ms), 1, number)
<1>1. l \in Nat /\ DOMAIN ms = 1 .. l /\ Limit \in Nat \ {0} /\ n \in 1 .. l
  BY LimitAssumption
<1>2. \A i \in 1 .. l : Reverse(ms)[i] = ms[(l - i) + 1] /\ Reverse(ms)[i] \in Message
  BY <1>1 DEF Reverse
<1>3. number \in Nat /\ number <= l /\ number <= Limit /\ (number = l \/ number = Limit)
  BY <1>1
<1> HIDE DEF l, number
<1>4. /\ list \in Seq(Message) /\ Len(list) = number
      /\ \A i \in 1 .. number : list[i] = Reverse(ms)[i]
  <2>1. \A i \in 1 .. number : Reverse(ms)[i] \in Message
    BY <1>1, <1>2, <1>3
  <2>2. /\ list \in Seq(Message)
        /\ Len(list) = IF 1 <= number THEN number - 1 + 1 ELSE 0
        /\ \A i \in 1 .. number - 1 + 1 : list[i] = Reverse(ms)[1 + i - 1]
    BY <1>3, <2>1, SubSeqProperties
  <2> HIDE DEF list
  <2> QED BY <1>3, <2>2
<1> HIDE DEF list
<1>5. DOMAIN list = 1 .. number
  BY <1>4
<1>6. \A i \in 1 .. number : list[i] = ms[(l - i) + 1] /\ (l - i) + 1 \in 1 .. l
  BY <1>1, <1>2, <1>3, <1>4
<1>7. CASE (l - n) + 1 <= number
  <2> DEFINE i == (l - n) + 1
  <2>1. i \in 1 .. number /\ (l - i) + 1 = n
    BY <1>1, <1>3, <1>7
  <2>2. list[i].post = r
    BY <1>6, <2>1
  <2> QED BY <1>4, <1>5, <2>1, <2>2 DEF Shows, list, number, l
<1>8. CASE ~((l - n) + 1 <= number)
  <2>1. number = Limit /\ number < (l - n) + 1
    BY <1>1, <1>3, <1>8
  <2>2. ASSUME NEW i \in 1 .. number
        PROVE  \E k \in DOMAIN ms : ms[k] = list[i] /\ n < k
    <3>1. (l - i) + 1 \in DOMAIN ms /\ ms[(l - i) + 1] = list[i] /\ n < (l - i) + 1
      BY <1>1, <1>3, <1>6, <2>1
    <3> QED BY <3>1
  <2>3. Shows(list, r, ms)
    BY <1>4, <1>5, <2>1, <2>2 DEF Shows
  <2> QED BY <1>4, <2>3 DEF list, number, l
<1> QED BY <1>7, <1>8

LEMMA ListTyped ==
    ASSUME NEW ms \in Seq(Message)
    PROVE  SubSeq(Reverse(ms), 1, IF Len(ms) < Limit THEN Len(ms) ELSE Limit) \in Seq(Message)
<1> DEFINE number == IF Len(ms) < Limit THEN Len(ms) ELSE Limit
<1>1. \A i \in 1 .. Len(ms) : Reverse(ms)[i] \in Message
  BY DEF Reverse
<1>2. number \in Nat /\ number <= Len(ms)
  BY LimitAssumption
<1> HIDE DEF number
<1>3. SubSeq(Reverse(ms), 1, number) \in Seq(Message)
  BY <1>1, <1>2, SubSeqProperties
<1> QED BY <1>3 DEF number

\* The step makes q of request r, and the database stays as it is.
Framed(r, q) ==
    /\ requests' = [requests EXCEPT ![r] = q] /\ q \in Requests /\ Sound(q, users)
    /\ q.by = requests[r].by /\ q.method = requests[r].method /\ q.name = requests[r].name
    /\ (q.code = 201) = (requests[r].code = 201)
    /\ users' = users /\ messages' = messages

\* What a step changes of the requests leaves most of the invariant alone.
LEMMA FramedBoard ==
    ASSUME BoardInv, NEW r \in DOMAIN requests, NEW q, Framed(r, q)
    PROVE  /\ requests' \in Seq(Requests) /\ DOMAIN requests' = DOMAIN requests
           /\ AllSound' /\ Posted201'
           /\ requests'[r] = q /\ \A s \in DOMAIN requests : s # r => requests'[s] = requests[s]
           /\ \A t \in Tab : Refreshes(t)' = Refreshes(t) /\ Posts(t)' = Posts(t)
<1>1. requests \in Seq(Requests) /\ r \in 1 .. Len(requests)
  BY DEF BoardInv, Types
<1>2. requests' \in Seq(Requests) /\ DOMAIN requests' = DOMAIN requests
  BY <1>1, ExceptSeq DEF Framed
<1>3. requests'[r] = q /\ \A s \in DOMAIN requests : s # r => requests'[s] = requests[s]
  BY DEF Framed
<1>4. \A s \in DOMAIN requests :
         /\ requests'[s].by = requests[s].by /\ requests'[s].method = requests[s].method
         /\ requests'[s].name = requests[s].name
         /\ requests'[s].code = 201 <=> requests[s].code = 201
  BY <1>3 DEF Framed
<1>5. AllSound'
  BY <1>2, <1>3 DEF BoardInv, AllSound, Framed
<1>6. Posted201'
  BY <1>2, <1>4 DEF BoardInv, Posted201, Framed
<1>7. \A t \in Tab : Refreshes(t)' = Refreshes(t) /\ Posts(t)' = Posts(t)
  BY <1>2, <1>4 DEF Refreshes, Posts
<1> QED BY <1>2, <1>3, <1>5, <1>6, <1>7

LEMMA ListMessagesBoard ==
    ASSUME BoardInv, NEW r \in DOMAIN requests, ListMessages(r) PROVE BoardInv'
<1> DEFINE old == requests[r]
           list == SubSeq(Reverse(messages), 1, IF Len(messages) < Limit THEN Len(messages) ELSE Limit)
           q == Edit(old, "done", 200, list, old.heard)
<1>1. old \in Requests /\ Sound(old, users) /\ messages \in Seq(Message)
  BY RequestFields DEF BoardInv, Types
<1>2. old.method = "GET" /\ old.at = "start" /\ UNCHANGED <<users, messages, messageList>>
  BY DEF ListMessages, View
<1>3. list \in Seq(Message) /\ "done" \in Stage /\ 200 \in Code /\ old.heard \in Hearing
  BY <1>1, ListTyped DEF Stage, Code, Requests
<1>4. requests' = [requests EXCEPT ![r] = [old EXCEPT !.at = "done", !.code = 200, !.list = list]]
  BY ZenonT(60) DEF ListMessages
<1> HIDE DEF list
<1>5. requests' = [requests EXCEPT ![r] = q]
  <2>1. [old EXCEPT !.at = "done", !.code = 200, !.list = list] = q
    BY ZenonT(60), <1>1 DEF Requests, Edit
  <2> QED BY <1>4, <2>1
<1>6. /\ q \in Requests
      /\ q.by = old.by /\ q.method = old.method /\ q.name = old.name
      /\ q.form = old.form /\ q.known = old.known /\ q.list = list
      /\ q.heard = old.heard /\ q.at = "done" /\ q.code = 200
  BY <1>1, <1>3, EditType
<1> HIDE DEF q
<1>7. old.code = 0
  BY <1>1, <1>2 DEF Sound
<1>8. Sound(q, users) /\ (q.code = 201 <=> requests[r].code = 201)
  BY <1>1, <1>2, <1>6, <1>7 DEF Sound
<1>9. /\ requests' \in Seq(Requests) /\ DOMAIN requests' = DOMAIN requests
      /\ AllSound' /\ Posted201'
      /\ requests'[r] = q /\ \A s \in DOMAIN requests : s # r => requests'[s] = requests[s]
      /\ \A t \in Tab : Refreshes(t)' = Refreshes(t) /\ Posts(t)' = Posts(t)
  <2>1. Framed(r, q)
    BY <1>2, <1>5, <1>6, <1>8 DEF Framed
  <2> QED BY <2>1, FramedBoard
<1>10. Types'
  BY <1>2, <1>9 DEF BoardInv, Types
<1>11. Listed'
  <2>1. ASSUME NEW t \in Tab, NEW s \in Posts(t)', NEW g \in DOMAIN requests',
               Succeeded(s)', LastRefresh(t, g)'
        PROVE  /\ Holding(requests'[g]) => Shows(requests'[g].list, s, messages')
               /\ messageList'[t].of = g => Shows(messageList'[t].list, s, messages')
    <3>1. s \in Posts(t) /\ s \in DOMAIN requests /\ g \in DOMAIN requests /\ LastRefresh(t, g)
      BY <1>9, <2>1 DEF Posts, LastRefresh
    <3>2. s # r
      BY <1>2, <3>1 DEF Posts
    <3>3. Succeeded(s)
      BY <1>9, <2>1, <3>1, <3>2 DEF Succeeded
    <3>4. /\ Holding(requests[g]) => Shows(requests[g].list, s, messages)
          /\ messageList[t].of = g => Shows(messageList[t].list, s, messages)
      BY <3>1, <3>3 DEF BoardInv, Listed
    <3>5. Shows(list, s, messages)
      <4>1. PICK n \in DOMAIN messages : messages[n].post = s
        BY <3>1, <3>3 DEF BoardInv, Posted201, Succeeded
      <4> QED BY <1>1, <4>1, ListShows DEF list
    <3>6. CASE g = r
      BY <1>2, <1>6, <1>9, <3>4, <3>5, <3>6
    <3>7. CASE g # r
      BY <1>2, <1>9, <3>1, <3>4, <3>7
    <3> QED BY <3>6, <3>7
  <2>2. \A t \in Tab : messageList'[t] # Nothing => messageList'[t].of \in Refreshes(t)'
    BY <1>2, <1>9 DEF BoardInv, Listed
  <2> QED BY <2>1, <2>2 DEF Listed, Nothing
<1> QED BY <1>9, <1>10, <1>11 DEF BoardInv

LEMMA RefreshedBoard ==
    ASSUME BoardInv, NEW r \in DOMAIN requests, Refreshed(r) PROVE BoardInv'
<1> DEFINE old == requests[r]
           tab == old.by
           none == <<>>
           q == Edit(old, old.at, old.code, none, "answer")
<1>1. old \in Requests /\ Sound(old, users)
  BY RequestFields
<1>2. /\ tab \in Tab /\ old.heard = "nothing" /\ old.code = 200 /\ UNCHANGED <<users, messages>>
      /\ messageList' = [messageList EXCEPT ![tab] = [of |-> r, list |-> old.list]]
  BY DEF Refreshed, Answered, Waits
<1>3. old.at \in Stage /\ old.code \in Code /\ none \in Seq(Message) /\ "answer" \in Hearing
      /\ old.list \in Seq(Message)
  BY <1>1 DEF Requests, Hearing
<1>4. requests' = [requests EXCEPT ![r] = q]
  <2>1. [old EXCEPT !.heard = "answer", !.list = <<>>] = q
    BY <1>1 DEF Requests, Edit
  <2>2. requests' = [requests EXCEPT ![r] = [old EXCEPT !.heard = "answer", !.list = <<>>]]
    BY DEF Refreshed, Heard
  <2> QED BY <2>1, <2>2
<1> HIDE DEF none
<1>5. /\ q \in Requests
      /\ q.by = old.by /\ q.method = old.method /\ q.name = old.name
      /\ q.form = old.form /\ q.known = old.known
      /\ q.heard = "answer" /\ q.at = old.at /\ q.code = old.code
  BY <1>1, <1>3, EditType
<1> HIDE DEF q
<1>6. Sound(q, users)
  BY <1>1, <1>2, <1>5 DEF Sound
<1>7. /\ requests' \in Seq(Requests) /\ DOMAIN requests' = DOMAIN requests
      /\ AllSound' /\ Posted201'
      /\ requests'[r] = q /\ \A s \in DOMAIN requests : s # r => requests'[s] = requests[s]
      /\ \A t \in Tab : Refreshes(t)' = Refreshes(t) /\ Posts(t)' = Posts(t)
  <2>1. Framed(r, q)
    BY <1>2, <1>4, <1>5, <1>6 DEF Framed
  <2> QED BY <2>1, FramedBoard
<1>8. r \in Nat /\ r \in Refreshes(tab)
  BY <1>1, <1>2, RequestFields DEF Sound, Refreshes
<1>9. Types'
  BY <1>2, <1>3, <1>7, <1>8 DEF BoardInv, Types
<1>10. /\ messageList'[tab] = [of |-> r, list |-> old.list]
       /\ \A t \in Tab : t # tab => messageList'[t] = messageList[t]
  BY <1>2 DEF BoardInv, Types
<1>11. Listed'
  <2>1. ASSUME NEW t \in Tab, NEW s \in Posts(t)', NEW g \in DOMAIN requests',
               Succeeded(s)', LastRefresh(t, g)'
        PROVE  /\ Holding(requests'[g]) => Shows(requests'[g].list, s, messages')
               /\ messageList'[t].of = g => Shows(messageList'[t].list, s, messages')
    <3>1. s \in Posts(t) /\ s \in DOMAIN requests /\ g \in DOMAIN requests /\ LastRefresh(t, g)
      BY <1>7, <2>1 DEF Posts, LastRefresh
    <3>2. s # r
      BY <1>1, <1>2, <3>1 DEF Posts, Sound
    <3>3. Succeeded(s)
      BY <1>7, <2>1, <3>1, <3>2 DEF Succeeded
    <3>4. /\ Holding(requests[g]) => Shows(requests[g].list, s, messages)
          /\ messageList[t].of = g => Shows(messageList[t].list, s, messages)
      BY <3>1, <3>3 DEF BoardInv, Listed
    <3>5. Holding(requests'[g]) => g # r
      BY <1>5, <1>7 DEF Holding
    <3>6. Holding(requests'[g]) => Shows(requests'[g].list, s, messages')
      BY <1>2, <1>7, <3>1, <3>4, <3>5
    <3>7. CASE t = tab
      <4>1. messageList'[t].of = g => g = r /\ messageList'[t].list = requests[g].list
        BY <1>10, <3>7
      <4>2. Holding(requests[r])
        BY <1>2 DEF Holding
      <4> QED BY <1>2, <3>4, <3>6, <4>1, <4>2
    <3>8. CASE t # tab
      BY <1>2, <1>10, <3>4, <3>6, <3>8
    <3> QED BY <3>7, <3>8
  <2>2. ASSUME NEW t \in Tab, messageList'[t] # Nothing
        PROVE  messageList'[t].of \in Refreshes(t)'
    <3>1. CASE t = tab
      BY <1>7, <1>8, <1>10, <3>1
    <3>2. CASE t # tab
      BY <1>7, <1>10, <2>2, <3>2 DEF BoardInv, Listed
    <3> QED BY <3>1, <3>2
  <2> QED BY <2>1, <2>2 DEF Listed, Nothing
<1> QED BY <1>7, <1>9, <1>11 DEF BoardInv

LEMMA SaveMessageBoard ==
    ASSUME BoardInv, NEW r \in DOMAIN requests, SaveMessage(r) PROVE BoardInv'
<1> DEFINE old == requests[r]
           m == [user |-> old.name, post |-> r]
           q == Edit(old, "done", 201, old.list, old.heard)
<1>1. old \in Requests /\ Sound(old, users) /\ messages \in Seq(Message) /\ requests \in Seq(Requests)
  BY RequestFields DEF BoardInv, Types
<1>2. old.at = "save" /\ UNCHANGED <<users, messageList>> /\ messages' = Append(messages, m)
  BY DEF SaveMessage, View
<1>3. old.code = 0 /\ old.heard # "answer" /\ old.name \in users /\ old.name \in GoodName
  BY <1>1, <1>2 DEF Sound, BoardInv, Types
<1>4. requests' = [requests EXCEPT ![r] = q]
  <2>1. [old EXCEPT !.at = "done", !.code = 201] = q
    BY ZenonT(60), <1>1 DEF Requests, Edit
  <2>2. requests' = [requests EXCEPT ![r] = [old EXCEPT !.at = "done", !.code = 201]]
    BY DEF SaveMessage, gen_response
  <2> QED BY <2>1, <2>2
<1>5. old.list \in Seq(Message) /\ "done" \in Stage /\ 201 \in Code /\ old.heard \in Hearing
  BY <1>1 DEF Stage, Code, Requests
<1>6. /\ q \in Requests
      /\ q.by = old.by /\ q.method = old.method /\ q.name = old.name
      /\ q.form = old.form /\ q.known = old.known /\ q.list = old.list
      /\ q.heard = old.heard /\ q.at = "done" /\ q.code = 201
  BY <1>1, <1>5, EditType
<1> HIDE DEF q
<1>7. Sound(q, users)
  BY <1>1, <1>3, <1>6 DEF Sound
<1>8. requests' \in Seq(Requests) /\ DOMAIN requests' = DOMAIN requests
  BY <1>1, <1>4, <1>6, ExceptSeq
<1>9. requests'[r] = q /\ \A s \in DOMAIN requests : s # r => requests'[s] = requests[s]
  BY <1>4
<1>10. r \in Nat /\ m \in Message
  BY <1>3, RequestFields DEF Message
<1>11. /\ messages' \in Seq(Message) /\ DOMAIN messages = 1 .. Len(messages)
       /\ DOMAIN messages' = 1 .. Len(messages) + 1
       /\ messages'[Len(messages) + 1] = m /\ Len(messages) \in Nat
       /\ \A i \in DOMAIN messages : messages'[i] = messages[i]
  BY <1>1, <1>2, <1>10, AppendProperties
<1>12. m.user = old.name /\ m.post = r
  OBVIOUS
<1> HIDE DEF m
<1>13. Types' /\ AllSound'
  BY <1>2, <1>7, <1>8, <1>9, <1>11 DEF BoardInv, Types, AllSound
<1>14. \A s \in DOMAIN requests :
         /\ requests'[s].by = requests[s].by /\ requests'[s].method = requests[s].method
         /\ requests'[s].name = requests[s].name
         /\ requests'[s].code = 201 <=> requests[s].code = 201 \/ s = r
  BY <1>6, <1>9
<1>15. \A i \in DOMAIN messages : messages[i].post # r
  BY <1>3 DEF BoardInv, Posted201
<1>16. Posted201'
  <2>1. ASSUME NEW i \in DOMAIN messages'
        PROVE  /\ messages'[i].post \in DOMAIN requests'
               /\ requests'[messages'[i].post].code = 201
               /\ messages'[i].user = requests'[messages'[i].post].name
    <3>1. CASE i \in DOMAIN messages
      BY <1>8, <1>11, <1>14, <3>1 DEF BoardInv, Posted201
    <3>2. CASE i = Len(messages) + 1
      BY <1>6, <1>8, <1>9, <1>11, <1>12, <3>2
    <3> QED BY <1>11, <3>1, <3>2
  <2>2. ASSUME NEW i \in DOMAIN messages', NEW k \in DOMAIN messages',
               messages'[i].post = messages'[k].post
        PROVE  i = k
    <3>1. CASE i \in DOMAIN messages /\ k \in DOMAIN messages
      BY <1>11, <2>2, <3>1 DEF BoardInv, Posted201
    <3> QED BY <1>11, <1>12, <1>15, <2>2, <3>1
  <2>3. ASSUME NEW s \in DOMAIN requests', requests'[s].code = 201
        PROVE  \E i \in DOMAIN messages' : messages'[i].post = s
    <3>1. CASE s = r
      BY <1>11, <1>12, <3>1
    <3>2. CASE s # r
      <4>1. PICK i \in DOMAIN messages : messages[i].post = s
        BY <1>8, <1>14, <2>3, <3>2 DEF BoardInv, Posted201
      <4>2. i \in DOMAIN messages' /\ messages'[i].post = s
        BY <1>11, <4>1
      <4> QED BY <4>2
    <3> QED BY <3>1, <3>2
  <2> QED BY <2>1, <2>2, <2>3 DEF Posted201
<1>17. \A t \in Tab : Refreshes(t)' = Refreshes(t) /\ Posts(t)' = Posts(t)
  BY <1>8, <1>14 DEF Refreshes, Posts
<1>18. ASSUME NEW list, NEW s, Shows(list, s, messages) PROVE Shows(list, s, messages')
  <2>1. \A k \in DOMAIN messages : k \in DOMAIN messages' /\ messages'[k] = messages[k]
    BY <1>11
  <2> QED BY <1>18, <2>1 DEF Shows
<1>19. Listed'
  <2>1. ASSUME NEW t \in Tab, NEW s \in Posts(t)', NEW g \in DOMAIN requests',
               Succeeded(s)', LastRefresh(t, g)'
        PROVE  /\ Holding(requests'[g]) => Shows(requests'[g].list, s, messages')
               /\ messageList'[t].of = g => Shows(messageList'[t].list, s, messages')
    <3>1. s \in Posts(t) /\ s \in DOMAIN requests /\ g \in DOMAIN requests /\ LastRefresh(t, g)
      BY <1>8, <1>17, <2>1 DEF Posts, LastRefresh
    <3>2. s # r
      BY <1>3, <1>6, <1>9, <2>1 DEF Succeeded
    <3>3. Succeeded(s)
      BY <1>9, <2>1, <3>1, <3>2 DEF Succeeded
    <3>4. /\ Holding(requests[g]) => Shows(requests[g].list, s, messages)
          /\ messageList[t].of = g => Shows(messageList[t].list, s, messages)
      BY <3>1, <3>3 DEF BoardInv, Listed
    <3>5. Holding(requests'[g]) => g # r
      BY <1>6, <1>9 DEF Holding
    <3> QED BY <1>2, <1>9, <1>18, <3>1, <3>4, <3>5
  <2>2. \A t \in Tab : messageList'[t] # Nothing => messageList'[t].of \in Refreshes(t)'
    BY <1>2, <1>17 DEF BoardInv, Listed
  <2> QED BY <2>1, <2>2 DEF Listed, Nothing
<1> QED BY <1>13, <1>16, <1>19 DEF BoardInv

\* A request is sent while the answers of others may be heard; a refresh empties the list.
\* Request [by, method, cookie, form] is sent when the others have become mid.
Sending(mid, by, method, cookie, form) ==
    /\ mid \in Seq(Requests) /\ DOMAIN mid = DOMAIN requests
    /\ by \in Tab \cup Client /\ method \in Method /\ form \in Form
    /\ cookie \in GoodName \cup BadName \cup {NoCookie}
    /\ method = "GET" => by \in Tab
    /\ \A s \in DOMAIN requests :
          /\ Sound(mid[s], users)
          /\ mid[s].by = requests[s].by /\ mid[s].method = requests[s].method
          /\ mid[s].name = requests[s].name /\ mid[s].code = requests[s].code
          /\ Holding(mid[s]) => Holding(requests[s]) /\ mid[s].list = requests[s].list
          /\ mid[s].heard = "answer" /\ mid[s].code = 201 =>
                requests[s].heard = "answer" \/ (method = "GET" /\ requests[s].by = by)
    /\ requests' = Append(mid, Sent(by, method, cookie, form))
    /\ UNCHANGED <<users, messages>>
    /\ messageList' = IF method = "GET" THEN [messageList EXCEPT ![by] = Nothing] ELSE messageList

LEMMA SendBoard ==
    ASSUME BoardInv, NEW mid, NEW by, NEW method, NEW cookie, NEW form,
           Sending(mid, by, method, cookie, form)
    PROVE  BoardInv'
<1> DEFINE q == Sent(by, method, cookie, form)
           new == Len(mid) + 1
<1> USE DEF Sending
<1>1. q \in Requests /\ Sound(q, users)
  <2>1. UserName(cookie) \in Name
    BY NamesApart DEF UserName, Name
  <2>2. <<>> \in Seq(Message) /\ "start" \in Stage /\ 0 \in Code /\ "nothing" \in Hearing
    BY DEF Stage, Code, Hearing
  <2>3. (UserName(cookie) \in users) \in BOOLEAN
    OBVIOUS
  <2>4. q \in Requests
    BY <2>1, <2>2, <2>3 DEF Sent, Requests
  <2>5. q.known => q.name \in users
    BY DEF Sent
  <2>6. q.at = "start" /\ q.code = 0 /\ q.heard = "nothing"
    BY DEF Sent
  <2> QED BY <2>4, <2>5, <2>6 DEF Sound
<1>2. q.by = by /\ q.method = method /\ q.code = 0 /\ q.heard = "nothing"
  BY DEF Sent
<1> HIDE DEF q
<1>3. /\ requests' \in Seq(Requests) /\ new \in Nat /\ DOMAIN requests = 1 .. new - 1
      /\ DOMAIN requests' = 1 .. new /\ requests'[new] = q
      /\ \A s \in DOMAIN requests : requests'[s] = mid[s]
  <2>1. requests' = Append(mid, q)
    BY DEF q
  <2> QED BY <1>1, <2>1, AppendProperties
<1> HIDE DEF new
<1>4. \A s \in DOMAIN requests : s \in DOMAIN requests' /\ s # new /\ s < new
  BY <1>3
<1>5. \A s \in DOMAIN requests' : s \in DOMAIN requests \/ s = new
  BY <1>3
<1>6. Types'
  <2>1. Nothing \in [of : Nat, list : Seq(Message)]
    BY DEF Nothing
  <2>2. messageList' \in [Tab -> [of : Nat, list : Seq(Message)]]
    BY <2>1 DEF BoardInv, Types
  <2> QED BY <1>3, <2>2 DEF BoardInv, Types
<1>7. AllSound'
  BY <1>1, <1>3, <1>5 DEF AllSound
<1>8. Posted201'
  BY <1>2, <1>3, <1>4, <1>5 DEF BoardInv, Posted201
<1>9. ASSUME NEW t \in Tab
      PROVE  /\ \A s \in Posts(t)' : s \in Posts(t) \/ s = new
             /\ \A s \in Posts(t) : s \in DOMAIN requests
             /\ ~(method = "GET" /\ t = by) => Refreshes(t)' = Refreshes(t)
             /\ method = "GET" /\ t = by => new \in Refreshes(t)'
             /\ Refreshes(t) \subseteq Refreshes(t)'
  <2>1. \A s \in DOMAIN requests : requests'[s].by = requests[s].by /\ requests'[s].method = requests[s].method
    BY <1>3
  <2>2. new \in DOMAIN requests'
    BY <1>3
  <2> QED BY <1>2, <1>3, <1>4, <1>5, <2>1, <2>2 DEF Posts, Refreshes
<1>10. \A t \in Tab : messageList'[t] = IF method = "GET" /\ t = by THEN Nothing ELSE messageList[t]
  BY DEF BoardInv, Types
<1>11. Listed'
  <2>1. ASSUME NEW t \in Tab, NEW s \in Posts(t)', NEW g \in DOMAIN requests',
               Succeeded(s)', LastRefresh(t, g)'
        PROVE  /\ Holding(requests'[g]) => Shows(requests'[g].list, s, messages')
               /\ messageList'[t].of = g => Shows(messageList'[t].list, s, messages')
    <3>1. CASE method = "GET" /\ t = by
      <4>1. new <= g /\ g \in DOMAIN requests'
        BY <1>9, <2>1, <3>1 DEF LastRefresh
      <4>2. g = new /\ g # 0
        BY <1>3, <4>1
      <4> QED BY <1>2, <1>3, <1>10, <3>1, <4>2 DEF Holding, Nothing
    <3>2. CASE ~(method = "GET" /\ t = by)
      <4>1. LastRefresh(t, g) /\ g \in DOMAIN requests
        BY <1>9, <2>1, <3>2 DEF LastRefresh, Refreshes
      <4>2. s \in Posts(t) /\ s \in DOMAIN requests
        BY <1>2, <1>3, <1>9, <2>1 DEF Succeeded
      <4>3. requests[s].by = t
        BY <4>2 DEF Posts
      <4>4. Succeeded(s)
        BY <1>3, <2>1, <3>2, <4>2, <4>3 DEF Succeeded
      <4>5. /\ Holding(requests[g]) => Shows(requests[g].list, s, messages)
            /\ messageList[t].of = g => Shows(messageList[t].list, s, messages)
        BY <4>1, <4>2, <4>4 DEF BoardInv, Listed
      <4>6. messageList'[t] = messageList[t]
        BY <1>10, <3>2
      <4> QED BY <1>3, <4>1, <4>5, <4>6
    <3> QED BY <3>1, <3>2
  <2>2. ASSUME NEW t \in Tab, messageList'[t] # Nothing
        PROVE  messageList'[t].of \in Refreshes(t)'
    <3>1. messageList'[t] = messageList[t]
      BY <1>10, <2>2
    <3> QED BY <1>9, <2>2, <3>1 DEF BoardInv, Listed
  <2> QED BY <2>1, <2>2 DEF Listed, Nothing
<1> QED BY <1>6, <1>7, <1>8, <1>11 DEF BoardInv

LEMMA SendsBoard ==
    ASSUME BoardInv,
           \/ \E t \in Tab : refresh(t) \/ post_it(t)
           \/ \E c \in Client : Other(c)
    PROVE  BoardInv'
<1>1. /\ requests \in Seq(Requests)
      /\ \A s \in DOMAIN requests : Sound(requests[s], users)
  BY DEF BoardInv, Types, AllSound
<1>2. "GET" \in Method /\ "POST" \in Method /\ "good" \in Form
  BY DEF Method, Form
<1>3. ASSUME NEW t \in Tab, refresh(t) PROVE BoardInv'
  <2>1. /\ requests' = Append(requests, Sent(t, "GET", NoCookie, "good"))
        /\ messageList' = [messageList EXCEPT ![t] = Nothing] /\ UNCHANGED <<users, messages>>
    BY <1>3 DEF refresh
  <2>2. Sending(requests, t, "GET", NoCookie, "good")
    BY <1>1, <1>2, <2>1 DEF Sending
  <2> QED BY <2>2, SendBoard
<1>4. ASSUME NEW by \in Tab \cup Client, NEW p \in Post,
             requests' = Append(requests, Sent(by, "POST", p.cookie, p.form)),
             UNCHANGED <<users, messages, messageList>>
      PROVE  BoardInv'
  <2>1. p.cookie \in GoodName \cup BadName \cup {NoCookie} /\ p.form \in Form
    BY DEF Post
  <2>2. Sending(requests, by, "POST", p.cookie, p.form)
    BY <1>1, <1>2, <1>4, <2>1 DEF Sending
  <2> QED BY <2>2, SendBoard
<1>5. ASSUME NEW t \in Tab, post_it(t) PROVE BoardInv'
  BY <1>4, <1>5, PostsAssumption DEF post_it
<1>6. ASSUME NEW c \in Client, Other(c) PROVE BoardInv'
  BY <1>4, <1>6, PostsAssumption DEF Other
<1> QED BY <1>3, <1>5, <1>6

LEMMA PostedBoard ==
    ASSUME BoardInv, NEW r \in DOMAIN requests, Posted(r) PROVE BoardInv'
<1> DEFINE old == requests[r]
           tab == old.by
           q == Edit(old, old.at, old.code, old.list, "answer")
           mid == [requests EXCEPT ![r] = q]
<1>1. old \in Requests /\ Sound(old, users) /\ requests \in Seq(Requests) /\ r \in 1 .. Len(requests)
  BY RequestFields DEF BoardInv, Types
<1>2. /\ tab \in Tab /\ old.code = 201 /\ UNCHANGED <<users, messages>>
      /\ messageList' = [messageList EXCEPT ![tab] = Nothing]
  BY DEF Posted, Answered, Waits
<1>3. /\ old.at \in Stage /\ old.code \in Code /\ "answer" \in Hearing /\ old.list \in Seq(Message)
      /\ NoCookie \in GoodName \cup BadName \cup {NoCookie} /\ "GET" \in Method /\ "good" \in Form
  BY <1>1 DEF Requests, Hearing, Method, Form
<1>4. requests' = Append(mid, Sent(tab, "GET", NoCookie, "good"))
  <2>1. [old EXCEPT !.heard = "answer"] = q
    BY <1>1 DEF Requests, Edit
  <2>2. Heard("answer", r) = mid
    BY <2>1 DEF Heard
  <2> QED BY <2>2 DEF Posted
<1>5. /\ q \in Requests
      /\ q.by = old.by /\ q.method = old.method /\ q.name = old.name
      /\ q.form = old.form /\ q.known = old.known /\ q.list = old.list
      /\ q.heard = "answer" /\ q.at = old.at /\ q.code = old.code
  BY <1>1, <1>3, EditType
<1> HIDE DEF q
<1>6. Sound(q, users)
  BY <1>1, <1>2, <1>5 DEF Sound
<1>7. /\ mid \in Seq(Requests) /\ DOMAIN mid = DOMAIN requests /\ mid[r] = q
      /\ \A s \in DOMAIN requests : s # r => mid[s] = requests[s]
  BY <1>1, <1>5, ExceptSeq
<1> HIDE DEF mid
<1>8. \A s \in DOMAIN requests :
        /\ Sound(mid[s], users)
        /\ mid[s].by = requests[s].by /\ mid[s].method = requests[s].method
        /\ mid[s].name = requests[s].name /\ mid[s].code = requests[s].code
        /\ Holding(mid[s]) => Holding(requests[s]) /\ mid[s].list = requests[s].list
        /\ mid[s].heard = "answer" /\ mid[s].code = 201 =>
              requests[s].heard = "answer" \/ requests[s].by = tab
  <2> SUFFICES ASSUME NEW s \in DOMAIN requests
               PROVE  /\ Sound(mid[s], users)
                      /\ mid[s].by = requests[s].by /\ mid[s].method = requests[s].method
                      /\ mid[s].name = requests[s].name /\ mid[s].code = requests[s].code
                      /\ Holding(mid[s]) => Holding(requests[s]) /\ mid[s].list = requests[s].list
                      /\ mid[s].heard = "answer" =>
                            requests[s].heard = "answer" \/ requests[s].by = tab
    OBVIOUS
  <2>1. CASE s = r
    <3>1. ~Holding(q)
      BY <1>5 DEF Holding
    <3>2. mid[s] = q /\ requests[s] = old /\ requests[s].by = tab
      BY <1>7, <2>1
    <3> HIDE DEF old, tab
    <3> QED BY <1>5, <1>6, <3>1, <3>2
  <2>2. CASE s # r
    <3>1. mid[s] = requests[s] /\ Sound(requests[s], users)
      BY <1>7, <2>2 DEF BoardInv, AllSound
    <3> QED BY <3>1
  <2> QED BY <2>1, <2>2
<1>9. Sending(mid, tab, "GET", NoCookie, "good")
  <2> HIDE DEF tab, old
  <2> QED BY <1>2, <1>3, <1>4, <1>7, <1>8 DEF Sending
<1> QED BY <1>9, SendBoard

LEMMA NextBoard == BoardInv /\ [Next]_vars => BoardInv'
<1> SUFFICES ASSUME BoardInv, [Next]_vars PROVE BoardInv'
  OBVIOUS
<1>1. CASE UNCHANGED vars
  <2>1. users \subseteq users' /\ users' \subseteq GoodName /\ requests' \in Seq(Requests)
    BY <1>1 DEF vars, BoardInv, Types
  <2>2. \A r \in DOMAIN requests : Sound(requests'[r], users') /\ Quiet(requests[r], requests'[r])
    BY <1>1 DEF vars, BoardInv, AllSound, Quiet
  <2> QED BY <1>1, <2>1, <2>2, QuietBoard DEF vars
<1>2. CASE \E r \in DOMAIN requests : View_Steps(r)
  BY <1>2, ListMessagesBoard, FindUserBoard, CleanUserBoard, SaveUserBoard, ReadBodyBoard,
     SaveMessageBoard DEF View_Steps
<1>3. CASE \E r \in DOMAIN requests : Posted(r) \/ Refreshed(r) \/ Failed(r) \/ Break(r)
  BY <1>3, PostedBoard, RefreshedBoard, ErrorBoard
<1> QED BY <1>1, <1>2, <1>3, SendsBoard, RestartBoard DEF Next

THEOREM BoardSafety == Spec => []BoardInv
BY InitBoard, NextBoard, PTL DEF Spec

\* Whatever posts come at once, whatever connection breaks and whenever the
\* server is restarted, the answers are true of the board.
THEOREM BoardTells == Spec => []AnswersTrue
BY BoardTrue, BoardSafety, PTL

\* A tab that was told of its posts' success lists them after its last refresh.
THEOREM PostsShown == Spec => []OwnPostsShown
BY BoardShows, BoardSafety, PTL
=============================================================================
