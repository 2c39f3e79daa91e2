------------------------------- MODULE Board -------------------------------
(***************************************************************************)
(* The message board: the Django view that reads and writes the tables of  *)
(* users and messages (views.py, models.py), and the browser's tabs that   *)
(* post and refresh (MessageBoard.vue).                                    *)
(*                                                                         *)
(* The server runs a thread per request.  Every query commits on its own,  *)
(* so a request takes a step per query and other requests run in between.  *)
(* Connections break and the server is restarted at any time.              *)
(***************************************************************************)
EXTENDS Naturals, Sequences, FiniteSets, SequencesExt

CONSTANTS Tab,
          Client,               \* programs other than the page, which send what they like
          GoodName, BadName,    \* names that full_clean accepts, and names it refuses
          Limit,                \* messages that a GET returns
          TabPosts, ClientPosts,    \* what they post: [cookie, form]
          MaxSent                   \* bound: requests, not counting the refresh after a post

ASSUME NamesApart == GoodName \cap BadName = {} /\ "Unknown" \in GoodName
ASSUME LimitAssumption == Limit \in Nat \ {0}

VARIABLES users,        \* names; the column is unique
          messages,     \* [user, post], by primary key
          requests,     \* sent so far, with what became of each
          messageList   \* of each tab: [of, list], of is the refresh that list answers

vars == <<users, messages, requests, messageList>>

NoCookie == "no cookie"
Form == {"good", "blank", "noKey", "noJson"}    \* blank: or too long, full_clean refuses both
Post == [cookie : GoodName \cup BadName \cup {NoCookie}, form : Form]

\* The dialog takes no post without a name, but one that is too long, and blank texts.
ASSUME PostsAssumption ==
    /\ ClientPosts \subseteq Post
    /\ TabPosts \subseteq {p \in Post : p.cookie # NoCookie /\ p.form \in {"good", "blank"}}

\* messageList while it is empty at first, or the promise that refresh() has put there.
Nothing == [of |-> 0, list |-> <<>>]
-----------------------------------------------------------------------------
(***************************************************************************)
(* Requests.  at is the stage of the view, code and list its answer, heard *)
(* what the sender has got: nothing yet, the answer, or an error.          *)
(* known: whether the table had the user when the request was sent.        *)
(***************************************************************************)
UserName(cookie) == IF cookie = NoCookie THEN "Unknown" ELSE cookie

Sent(by, method, cookie, form) ==
    [by |-> by, method |-> method, name |-> UserName(cookie), form |-> form,
     known |-> UserName(cookie) \in users,
     at |-> "start", code |-> 0, list |-> <<>>, heard |-> "nothing"]

View(r, method, stage) == requests[r].method = method /\ requests[r].at = stage
Goto(r, stage) == requests' = [requests EXCEPT ![r].at = stage]
\* An exception that leaves the view is a response with code 500.
gen_response(r, code) == requests' = [requests EXCEPT ![r].at = "done", ![r].code = code]

ListMessages(r) ==      \* the newest first
    /\ View(r, "GET", "start")
    /\ LET number == IF Len(messages) < Limit THEN Len(messages) ELSE Limit
       IN  requests' = [requests EXCEPT ![r].at = "done", ![r].code = 200,
                                        ![r].list = SubSeq(Reverse(messages), 1, number)]
    /\ UNCHANGED <<users, messages, messageList>>

FindUser(r) ==
    /\ View(r, "POST", "start")
    /\ Goto(r, IF requests[r].name \in users THEN "body" ELSE "clean")
    /\ UNCHANGED <<users, messages, messageList>>

CleanUser(r) ==         \* full_clean asks the table again whether the name is free
    /\ View(r, "POST", "clean")
    /\ IF requests[r].name \in users \cup BadName THEN gen_response(r, 400) ELSE Goto(r, "create")
    /\ UNCHANGED <<users, messages, messageList>>

SaveUser(r) ==          \* an IntegrityError is not caught
    /\ View(r, "POST", "create")
    /\ IF requests[r].name \in users THEN gen_response(r, 500) ELSE Goto(r, "body")
    /\ users' = users \cup {requests[r].name}
    /\ UNCHANGED <<messages, messageList>>

\* (A mistake to find: the message is saved before it is cleaned.)
ReadBody_Bug(r) ==
    /\ View(r, "POST", "body")
    /\ IF requests[r].form \in {"noJson", "noKey"}
       THEN gen_response(r, 400) /\ UNCHANGED messages
       ELSE /\ messages' = Append(messages, [user |-> requests[r].name, post |-> r])
            /\ gen_response(r, IF requests[r].form = "blank" THEN 400 ELSE 201)
    /\ UNCHANGED <<users, messageList>>

ReadBody(r) ==          \* nor is the error of json.loads
    /\ View(r, "POST", "body")
    /\ CASE requests[r].form = "noJson" -> gen_response(r, 500)
         [] requests[r].form \in {"noKey", "blank"} -> gen_response(r, 400)
         [] requests[r].form = "good" -> Goto(r, "save")
    /\ UNCHANGED <<users, messages, messageList>>

SaveMessage(r) ==
    /\ View(r, "POST", "save")
    /\ messages' = Append(messages, [user |-> requests[r].name, post |-> r])
    /\ gen_response(r, 201)
    /\ UNCHANGED <<users, messageList>>
-----------------------------------------------------------------------------
(***************************************************************************)
(* The page, and other programs.                                           *)
(***************************************************************************)
Refreshes(t) == {r \in DOMAIN requests : requests[r].by = t /\ requests[r].method = "GET"}
Posts(t) == {r \in DOMAIN requests : requests[r].by = t /\ requests[r].method = "POST"}
Succeeded(r) == requests[r].heard = "answer" /\ requests[r].code = 201
May_Send == Len(requests) - Cardinality({r \in DOMAIN requests : Succeeded(r)}) < MaxSent

refresh(t) ==
    /\ May_Send
    /\ requests' = Append(requests, Sent(t, "GET", NoCookie, "good"))
    /\ messageList' = [messageList EXCEPT ![t] = Nothing]
    /\ UNCHANGED <<users, messages>>

post_it(t) ==
    /\ May_Send
    /\ \E p \in TabPosts : requests' = Append(requests, Sent(t, "POST", p.cookie, p.form))
    /\ UNCHANGED <<users, messages, messageList>>

Other(c) ==
    /\ May_Send
    /\ \E p \in ClientPosts : requests' = Append(requests, Sent(c, "POST", p.cookie, p.form))
    /\ UNCHANGED <<users, messages, messageList>>

Waits(r) == requests[r].by \in Tab /\ requests[r].heard = "nothing"
Answered(r) == Waits(r) /\ requests[r].at = "done"
Heard(what, r) == [requests EXCEPT ![r].heard = what]

\* (A mistake to find: nobody asks for the list.)
Posted_Bug(r) ==
    /\ Answered(r) /\ requests[r].code = 201
    /\ requests' = Heard("answer", r)
    /\ UNCHANGED <<users, messages, messageList>>

Posted(r) ==            \* then() of postMessage: the success is told, and the list asked for
    /\ Answered(r) /\ requests[r].code = 201
    /\ requests' = Append(Heard("answer", r), Sent(requests[r].by, "GET", NoCookie, "good"))
    /\ messageList' = [messageList EXCEPT ![requests[r].by] = Nothing]
    /\ UNCHANGED <<users, messages>>

Refreshed(r) ==         \* then() of getMessage
    /\ Answered(r) /\ requests[r].code = 200
    /\ requests' = [Heard("answer", r) EXCEPT ![r].list = <<>>]
    /\ messageList' = [messageList EXCEPT ![requests[r].by] = [of |-> r, list |-> requests[r].list]]
    /\ UNCHANGED <<users, messages>>

Failed(r) ==            \* catch() of both: a failure is told, the promise stays in its place
    /\ Answered(r) /\ requests[r].code \in {400, 500}
    /\ requests' = Heard("error", r)
    /\ UNCHANGED <<users, messages, messageList>>
-----------------------------------------------------------------------------
\* A connection: the request or its answer is lost. One that breaks while the view runs is no
\* different, as the view goes on.
Break(r) ==
    /\ Waits(r) /\ requests[r].at \in {"start", "done"}
    /\ requests' = [Heard("error", r) EXCEPT ![r].at = IF @ = "start" THEN "lost" ELSE @]
    /\ UNCHANGED <<users, messages, messageList>>

Restart ==              \* of the server: all that it is at ends, the tables stay
    /\ \E r \in DOMAIN requests : requests[r].at \notin {"done", "lost"}
    /\ requests' = [r \in DOMAIN requests |->
                       IF requests[r].at \in {"done", "lost"} THEN requests[r]
                       ELSE [requests[r] EXCEPT !.at = "lost", !.heard = IF @ = "nothing" THEN "error" ELSE @]]
    /\ UNCHANGED <<users, messages, messageList>>

Init ==
    /\ users \in SUBSET GoodName /\ messages = <<>> /\ requests = <<>>
    /\ messageList = [t \in Tab |-> Nothing]

View_Steps(r) ==
    ListMessages(r) \/ FindUser(r) \/ CleanUser(r) \/ SaveUser(r) \/ ReadBody(r) \/ SaveMessage(r)

Next ==
    \/ \E t \in Tab : refresh(t) \/ post_it(t)
    \/ \E c \in Client : Other(c)
    \/ \E r \in DOMAIN requests : View_Steps(r) \/ Posted(r) \/ Refreshed(r) \/ Failed(r) \/ Break(r)
    \/ Restart

Spec == Init /\ [][Next]_vars
-----------------------------------------------------------------------------
\* A post that was answered 201 is on the board once, under the user of its cookie; one that was
\* refused, or is not answered yet, is not. A good post by a user that the table had when it was
\* sent is never refused, whatever other posts do: only one that creates its user may run into
\* another that does so at the same time (views.py:43-50), and be answered 400 or 500.
AnswersTrue ==
    /\ \A r \in DOMAIN requests :
          LET copies == {i \in DOMAIN messages : messages[i].post = r}
          IN  /\ Cardinality(copies) = IF requests[r].code = 201 THEN 1 ELSE 0
              /\ \A i \in copies : messages[i].user = requests[r].name /\ messages[i].user \in users
              /\ requests[r].known /\ requests[r].form = "good" => requests[r].code \notin {400, 500}
    /\ users \subseteq GoodName

\* When a tab shows the answer to the refresh that it sent last, whoever refreshes and posts in the
\* meantime, every post whose success it has told its user is on the list, or the list
\* is full of newer ones (MessageBoard.vue:88-98).
OwnPostsShown ==
    \A t \in Tab : \A r \in Posts(t) :
        /\ Succeeded(r)
        /\ messageList[t] # Nothing
        /\ \A g \in Refreshes(t) : g <= messageList[t].of
        => LET list == messageList[t].list
               age(p) == CHOOSE i \in DOMAIN messages : messages[i].post = p
           IN  \/ \E i \in DOMAIN list : list[i].post = r
               \/ Len(list) = Limit /\ \A i \in DOMAIN list : age(list[i].post) > age(r)
=============================================================================
