-------------------------- MODULE Conversations --------------------------
(***************************************************************************)
(* The conversation list of one device, whoever is signed in:              *)
(* ConversationsController over Service.fetchConversations and fetchUser.  *)
(*                                                                         *)
(* A snapshot listener on the recent-messages collection turns each        *)
(* changed document into a request for the partner's profile; its answer   *)
(* appends to an array the listener's closure owns, and the whole array is *)
(* merged into the controller's dictionary.  Listeners are never removed   *)
(* and the dictionary is never emptied: every login adds a listener over   *)
(* the rows of the one before, of whatever account.  Requests for one      *)
(* profile are answered in order, requests for different ones in any.      *)
(***************************************************************************)
EXTENDS Naturals, Sequences, FiniteSets

CONSTANTS
    Accounts,     \* those who log in on the device
    Partners,     \* the users they talk to, on other devices
    None,         \* no document, no row, nobody signed in, nothing pending
    MayHappen,    \* the events that are considered
    MaxMessages,  \* bound: messages written
    MaxSessions   \* bound: listeners added between two launches

Users == Partners \cup Accounts

Environment == {"send", "refuse", "fail", "relaunch", "relogin", "survive"}

ASSUME UsersAssumption ==
    Accounts # {} /\ Accounts \cap Partners = {} /\ None \notin Users
ASSUME MayHappenAssumption == MayHappen \subseteq Environment
ASSUME BoundsAssumption == MaxMessages \in Nat /\ MaxSessions \in Nat \ {0}

Messages == [from : Users, to : Users, n : 1..MaxMessages]

(* A Conversation.  Three things are kept for the properties only: "at"    *)
(* numbers the document changes the listeners were told of; "lost" of a    *)
(* listener, the partners whose newest request was not answered; "late".   *)
Rows == [msg : Messages, at : Nat]

ASSUME NoneAssumption == None \notin Messages \cup Rows

NoRows == [k \in Users |-> None]

VARIABLES
    auth,       \* Auth.auth().currentUser: an account or None
    remote,     \* remote[a][p]: messages/a/recent-messages/p on the server
    cache,      \* cache[a][p]: what the SDK last heard of it
    pend,       \* a message whose recents document is not acknowledged
    listeners,  \* the listeners since launch: whose documents they follow,
                \*   alive or ended, the newest row per partner in the array
                \*   their closure captured, lost
    fetches,    \* fetches[k]: requests for the profile of k, oldest first
    dict,       \* conversationsDictionary
    written,    \* messages written so far
    told,       \* document changes told since launch
    late        \* profiles that came for another account since the login

NewListener(a) == [of |-> a, alive |-> TRUE, rows |-> NoRows, lost |-> {}]

data == <<remote, cache, pend, written>>
vars == <<auth, remote, cache, pend, listeners, fetches, dict, written, told, late>>

-----------------------------------------------------------------------------
(* Message.chatPartnerId, decided by who is signed in when it is decoded.  *)
PartnerOf(m) == IF m.from = auth' THEN m.to ELSE m.from

(* The document a query sees: an own pending write hides what the server   *)
(* has, and is out of sight while its account is not signed in.            *)
ViewOf(a, p, user, own, c) ==
    IF user = a /\ own # None /\ own.from = a /\ own.to = p THEN own ELSE c[a][p]

View(a, p) == ViewOf(a, p, auth, pend, cache)

(* Variant: the newest request is answered first.                          *)
AskInFront(pending, requests) == requests \o pending

(* Requests for one profile are answered in the order they are made.       *)
Ask(pending, requests) == pending \o requests

(* The live listeners of an account, in the order they were added.         *)
Live(a) == {i \in DOMAIN listeners : listeners[i].alive /\ listeners[i].of = a}

InOrder(S) ==
    CHOOSE s \in [1..Cardinality(S) -> S] :
        \A i, j \in DOMAIN s : i < j => s[i] < s[j]

Requests(a, m) ==
    LET order == InOrder(Live(a))
    IN  [i \in DOMAIN order |-> [by |-> order[i], msg |-> m, at |-> told + 1]]

(* A change of document p is told to every live listener of its account:   *)
(* each asks for the profile of the partner.  The kind of the change is    *)
(* not looked at: a removed document counts with the data it had.          *)
Notify(a, p) ==
    LET m == IF View(a, p)' = None THEN View(a, p) ELSE View(a, p)'
    IN  [fetches EXCEPT ![PartnerOf(m)] = Ask(@, Requests(a, m))]

Tell(a, p) == fetches' = Notify(a, p) /\ told' = told + 1

(* Variant: only documents that were added count, as in a chat.            *)
TellIfAdded(a, p) ==
    IF View(a, p) = None /\ View(a, p)' # None THEN Tell(a, p)
                                               ELSE UNCHANGED <<fetches, told>>

TellIfChanged(a, p) ==
    IF View(a, p)' # View(a, p) THEN Tell(a, p) ELSE UNCHANGED <<fetches, told>>

(* The documents a new listener is told of: all that are in sight.         *)
InSight(k) == IF k \in Partners THEN View(auth, k)' ELSE None

(* Variant: they are filed under the listener before.                      *)
FetchForPrevious(pool, requests, t) ==
    /\ listeners' = Append(pool, NewListener(auth'))
    /\ fetches' = [k \in Users |->
          IF InSight(k) = None THEN requests[k]
          ELSE Ask(requests[k], <<[by |-> Len(pool), msg |-> InSight(k), at |-> t + 1]>>)]
    /\ told' = t + 1

(* fetchConversations: a new listener, its array empty.                    *)
Fetch(pool, requests, t) ==
    /\ listeners' = Append(pool, NewListener(auth'))
    /\ fetches' = [k \in Users |->
          IF InSight(k) = None THEN requests[k]
          ELSE Ask(requests[k], <<[by |-> Len(pool) + 1, msg |-> InSight(k), at |-> t + 1]>>)]
    /\ told' = t + 1

Init ==
    /\ auth \in Accounts
    /\ remote = [a \in Accounts |-> [p \in Partners |-> None]]
    /\ cache = remote
    /\ pend = None
    /\ listeners = <<NewListener(auth)>>
    /\ fetches = [k \in Users |-> <<>>]
    /\ dict = NoRows
    /\ written = 0
    /\ told = 0
    /\ late = {}

-----------------------------------------------------------------------------
(* The documents change.                                                   *)

(* A partner's message reaches the server (its peerRecent write).          *)
PartnerWrites(p, a) ==
    /\ written < MaxMessages
    /\ written' = written + 1
    /\ remote' = [remote EXCEPT ![a][p] = [from |-> p, to |-> a, n |-> written']]
    /\ UNCHANGED <<auth, cache, pend, listeners, fetches, dict, told, late>>

(* The own recents document is written locally, and seen at once.          *)
Send(p) ==
    /\ "send" \in MayHappen
    /\ auth # None
    /\ pend = None
    /\ written < MaxMessages
    /\ written' = written + 1
    /\ pend' = [from |-> auth, to |-> p, n |-> written']
    /\ UNCHANGED <<auth, remote, cache, listeners, dict, late>>
    /\ TellIfChanged(auth, p)

(* The server takes it; nothing changes in sight.                          *)
Commit ==
    /\ pend # None
    /\ auth = pend.from
    /\ remote' = [remote EXCEPT ![auth][pend.to] = pend]
    /\ cache' = [cache EXCEPT ![auth][pend.to] = pend]
    /\ pend' = None
    /\ UNCHANGED <<auth, listeners, fetches, dict, written, told, late>>

(* The server refuses it; what it hid comes back.                          *)
Refuse(p) ==
    /\ "refuse" \in MayHappen
    /\ pend # None
    /\ auth = pend.from
    /\ pend.to = p
    /\ pend' = None
    /\ UNCHANGED <<auth, remote, cache, listeners, dict, written, late>>
    /\ TellIfChanged(auth, p)

(* The SDK hears of the server's state; states in between may be skipped.  *)
Watch(a, p) ==
    /\ cache[a][p] # remote[a][p]
    /\ cache' = [cache EXCEPT ![a][p] = remote[a][p]]
    /\ UNCHANGED <<auth, remote, pend, listeners, dict, written, late>>
    /\ TellIfChanged(a, p)

-----------------------------------------------------------------------------
(* The controller.                                                         *)

(* Variant: a conversation that is in the list already stays as it is.     *)
MergeNew(rows, into) == [k \in Users |-> IF into[k] # None THEN into[k] ELSE rows[k]]

(* fetchConverations' closure: merge the whole array into the dictionary.  *)
Merge(rows, into) == [k \in Users |-> IF rows[k] # None THEN rows[k] ELSE into[k]]

(* The oldest request for the profile of k is answered; without data the   *)
(* completion is not called.                                               *)
Answer(k) ==
    /\ fetches[k] # <<>>
    /\ fetches' = [fetches EXCEPT ![k] = Tail(@)]
    /\ LET f == Head(fetches[k])
           row == [msg |-> f.msg, at |-> f.at]
       IN  /\ listeners' = [listeners EXCEPT ![f.by].rows[k] = row,
                                              ![f.by].lost = @ \ {k}]
           /\ dict' = Merge(listeners'[f.by].rows, dict)
           /\ late' = IF listeners[f.by].of = auth THEN late ELSE late \cup {k}
    /\ UNCHANGED <<auth, told, data>>

Fail(k) ==
    /\ "fail" \in MayHappen
    /\ fetches[k] # <<>>
    /\ fetches' = [fetches EXCEPT ![k] = Tail(@)]
    /\ listeners' = [listeners EXCEPT ![Head(fetches[k]).by].lost = @ \cup {k}]
    /\ UNCHANGED <<auth, dict, told, late, data>>

(* logout.  No listener is removed; the server may end those it no longer  *)
(* allows.  The SDK puts the account's pending writes aside.               *)
SignOut ==
    /\ "relogin" \in MayHappen
    /\ auth # None
    /\ Len(listeners) < MaxSessions
    /\ auth' = None
    /\ UNCHANGED <<dict, late, data>>
    /\ \/ /\ "survive" \in MayHappen
          /\ UNCHANGED listeners
          /\ IF pend = None \/ pend.from # auth THEN UNCHANGED <<fetches, told>>
             ELSE \E p \in Partners : p = pend.to /\ TellIfChanged(pend.from, p)
       \/ /\ listeners' = [i \in DOMAIN listeners |->
                             [listeners[i] EXCEPT !.alive = FALSE]]
          /\ UNCHANGED <<fetches, told>>

(* authenticationComplete: the account's pending writes are in sight       *)
(* again, and fetchConversations is called over the old rows.              *)
SignIn(a) ==
    /\ auth = None
    /\ auth' = a
    /\ late' = {}
    /\ UNCHANGED <<dict, data>>
    /\ LET back == pend # None /\ pend.from = a /\ pend # cache[a][pend.to]
       IN  Fetch(listeners, IF back THEN Notify(a, pend.to) ELSE fetches, told + 1)

(* The app is killed and starts: viewDidLoad calls fetchConverations.      *)
Relaunch ==
    /\ "relaunch" \in MayHappen
    /\ auth # None
    /\ dict' = NoRows
    /\ late' = {}
    /\ UNCHANGED <<auth, data>>
    /\ Fetch(<<>>, [k \in Users |-> <<>>], 0)

-----------------------------------------------------------------------------
Next ==
    \/ \E p \in Partners :
          \/ Send(p)
          \/ Refuse(p)
          \/ \E a \in Accounts : PartnerWrites(p, a) \/ Watch(a, p)
    \/ Commit
    \/ \E k \in Users : Answer(k) \/ Fail(k)
    \/ SignOut
    \/ \E a \in Accounts : SignIn(a)
    \/ Relaunch

Spec == Init /\ [][Next]_vars

(* The network comes back: the SDK hears of every document and profile     *)
(* requests are answered.                                                  *)
Fairness ==
    /\ \A a \in Accounts, p \in Partners : WF_vars(Watch(a, p))
    /\ \A k \in Users : WF_vars(Answer(k))
    /\ WF_vars(Commit)

FairSpec == Spec /\ Fairness

-----------------------------------------------------------------------------
(* What is stated about Conversations.                                     *)

TypeOK ==
    /\ auth \in Accounts \cup {None}
    /\ remote \in [Accounts -> [Partners -> Messages \cup {None}]]
    /\ cache \in [Accounts -> [Partners -> Messages \cup {None}]]
    /\ pend \in Messages \cup {None}
    /\ listeners \in Seq([of : Accounts, alive : BOOLEAN, rows : [Users -> Rows \cup {None}],
                          lost : SUBSET Users])
    /\ fetches \in [Users -> Seq([by : DOMAIN listeners, msg : Messages, at : Nat])]
    /\ dict \in [Users -> Rows \cup {None}]
    /\ written \in 0..MaxMessages
    /\ told \in Nat
    /\ late \subseteq Users

(* Nothing is under way for the account that is signed in.                 *)
Quiet == /\ auth # None /\ pend = None /\ cache[auth] = remote[auth]
         /\ \A k \in Users : fetches[k] = <<>>

(* Listeners of another account end with its logout, and the profiles that *)
(* still came for them are of users this account talks to as well.         *)
Undisturbed ==
    /\ \A i \in DOMAIN listeners : listeners[i].alive => listeners[i].of = auth
    /\ \A k \in late \cap Partners : remote[auth][k] # None

(* Requests for the partner's profile that nobody answered cost its row.   *)
Unanswered(p) == \E i \in DOMAIN listeners : p \in listeners[i].lost

(* When nothing is under way, every conversation of the account that is    *)
(* signed in has a row, and the row shows what its recent-messages         *)
(* document says: no late answer for one partner and no replay of an       *)
(* array, of this listener or of one left over from an earlier login,      *)
(* leaves an older message or one of another account - unless a listener   *)
(* of another account lives on, or its last answer is about somebody the   *)
(* new account does not talk to, whose array is then the last one merged.  *)
(* A request without an answer costs its own partner's row only; that      *)
(* holds for the rows of one login ("fail" and "relogin" together break    *)
(* it).                                                                    *)
CaughtUp ==
    Quiet /\ Undisturbed => \A p \in Partners :
        remote[auth][p] # None /\ ~Unanswered(p)
        => dict[p] # None /\ dict[p].msg = remote[auth][p]

(* With a single listener a row never goes back to what the document said  *)
(* before, although answers for different partners overtake each other.    *)
NoRegress ==
    [][\A k \in Users : dict[k] # None =>
          \/ dict' = NoRows
          \/ dict'[k].at >= dict[k].at]_vars

(* A message that reaches a conversation's document is shown in the list,  *)
(* unless a newer one takes its place or its request is not answered.      *)
EventuallyShown ==
    \A a \in Accounts, p \in Partners :
        \A m \in {m \in Messages : {m.from, m.to} = {a, p}} :
            (auth = a /\ remote[a][p] = m) ~> (
                \/ auth # a
                \/ remote[a][p] # m
                \/ dict[p] # None /\ dict[p].msg = m
                \/ Unanswered(p))
=============================================================================
