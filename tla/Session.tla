----------------------------- MODULE Session -----------------------------
(***************************************************************************)
(* Accounts and screens of one device: registration, login, logout,        *)
(* profile, new message and chats (LoginController, AuthService,           *)
(* RegistrationController, ProfileController, NewMessageController,        *)
(* ChatController, ConversationsController), and the loader they share.    *)
(*                                                                         *)
(* Registration is a chain of requests: store the photo, get its URL,      *)
(* create the account (which signs in), write the user document.  A user   *)
(* without a document is in nobody's list and has no profile.  Completions *)
(* come back whenever they like, on whatever screen is there by then.      *)
(*                                                                         *)
(* Auth and Firestore change their state on queues of their own and post   *)
(* the completion to the main queue; the login screen is presented from    *)
(* there, too.  Whatever is on the main queue finds a state that has moved *)
(* on.  (An answer whose post changes nothing is one step: it may as well  *)
(* have been posted at any time before it runs.)                           *)
(***************************************************************************)
EXTENDS Naturals, Sequences, FiniteSets, Hud

CONSTANTS
    Emails,       \* the accounts; an account's uid is its email
    Nobody,       \* Auth.auth().currentUser == nil
    MayHappen,    \* the events that are considered
    MaxJobs,      \* bound: requests begun between two launches
    MaxScreens    \* bound: the user opens no screen beyond this number

Environment == {"kill", "authFails", "fetchFails", "noUrl", "refuse", "news", "chats"}

ASSUME NobodyAssumption == Nobody \notin Emails
ASSUME MayHappenAssumption == MayHappen \subseteq Environment
ASSUME BoundsAssumption == MaxJobs \in Nat /\ MaxScreens \in Nat
ASSUME ViewAssumption == NoView \notin Nat

(* View 0 is the conversation list's, below every other screen.            *)
Views == Nat

(* A chain of requests for a screen, and how far it is.  "silent": its     *)
(* completion was not called.                                              *)
Steps == {"signIn", "signedIn", "photo", "url", "create", "created", "signedUp",
          "document", "stored", "rejected", "fetch", "done", "failed", "silent"}
Kinds == {"login", "register", "profile", "users", "chat"}
Jobs == [kind : Kinds, email : Emails \cup {Nobody}, step : Steps,
         view : Views]

(* The completion of these is on the main queue.                           *)
Posted == {"signedIn", "signedUp", "stored", "rejected"}

(* Blocks of the main queue: the notification Firestore listens to, a      *)
(* completion, and the block that presents the login screen.               *)
Credential(user) == [kind |-> "credential", user |-> user]
Answer(i) == [kind |-> "answer", job |-> i]
Form == [kind |-> "form"]

VARIABLES
    accounts,   \* accounts of the authentication server
    docs,       \* documents of the collection "users"
    current,    \* Auth.auth().currentUser
    fs,         \* the user Firestore works for
    writes,     \* user documents in write queues: [uid, by, job], by the user
                \*   of the queue, job 0 for a write whose closure is lost
    main,       \* blocks dispatched to the main queue
    jobs,       \* requests begun since launch
    top,        \* the screen: "list", "auth" (login and sign-up), "profile",
                \*   "users" (new message), "chat"
    chat,       \* the chat that is pushed over the list, 0 if there is none
    opened,     \* screens opened since launch
    transition, \* a screen is being presented or dismissed: "no", "runs", or
                \*   "logout" if the completion of the dismissal logs out
    formless,   \* UIKit turned the login screen away when it came last
    alert,      \* an error is shown over the form
    hud,        \* UIViewController.hud
    listening,  \* a conversations listener was added since launch
    due,        \* the answer to the last fetchConversations is to come
    rows,       \* the list has rows (perhaps of an earlier login)
    orphaned    \* accounts whose document was lost for good

server == <<accounts, docs>>
session == <<current, fs>>
screens == <<top, chat, opened, transition, formless, alert>>
feed == <<listening, due, rows>>
vars == <<server, session, writes, main, jobs, screens, hud, feed, orphaned>>

View == CASE top = "list" -> 0
          [] top = "chat" -> chat
          [] OTHER        -> opened

Running(job) == job.step \notin {"done", "failed", "silent"}

(* Views that exist: on screen, or under the form, or held by a completion *)
(* (that of a chat belongs to a listener, which is never removed).         *)
Alive ==
    {0, chat, View} \cup
        {jobs[i].view : i \in {k \in DOMAIN jobs :
            Running(jobs[k]) \/ (jobs[k].kind = "chat" /\ jobs[k].email # Nobody)}}

(* What happens to the loader, given what is on screen after the step.     *)
Loader(h) == hud' = Within(h, Alive')

Move(i, step) == jobs' = [jobs EXCEPT ![i].step = step]

-----------------------------------------------------------------------------
(* Screens.                                                                *)

(* While a screen comes or goes UIKit takes no touches, and turns away     *)
(* what is to be presented or dismissed.                                   *)
Still == transition = "no"

Present(screen) ==
    /\ top' = screen
    /\ opened' = opened + 1
    /\ transition' = "runs"

FormPosted == \E n \in DOMAIN main : main[n] = Form

(* authenticateUser, while user is signed in.                              *)
FormFor(user) == IF user = Nobody THEN <<Form>> ELSE <<>>

(* viewDidLoad of the list: the login screen if nobody is signed in, the   *)
(* loader either way, the listener if somebody is.                         *)
Boot(user) ==
    /\ main' = FormFor(user)
    /\ top' = "list"
    /\ chat' = 0
    /\ opened' = 0
    /\ transition' = "no"
    /\ formless' = FALSE
    /\ alert' = FALSE
    /\ hud' = ShowIn(Hidden, 0)
    /\ listening' = (user # Nobody)
    /\ due' = (user # Nobody)
    /\ rows' = FALSE
    /\ jobs' = <<>>

Init ==
    /\ accounts = {}
    /\ docs = {}
    /\ current = Nobody
    /\ fs = Nobody
    /\ writes = {}
    /\ main = <<Form>>
    /\ jobs = <<>>
    /\ top = "list"
    /\ chat = 0
    /\ opened = 0
    /\ transition = "no"
    /\ formless = FALSE
    /\ alert = FALSE
    /\ hud = ShowIn(Hidden, 0)
    /\ listening = FALSE
    /\ due = FALSE
    /\ rows = FALSE
    /\ orphaned = {}

(* A request of the screen on top, with or without showLoader(true).       *)
Ask(kind, email, step) ==
    /\ Len(jobs) < MaxJobs
    /\ jobs' = Append(jobs, [kind |-> kind, email |-> email, step |-> step,
                             view |-> View'])

Begin(kind, email, step) ==
    /\ Ask(kind, email, step)
    /\ Loader(ShowIn(hud, View'))

(* Variant: a form that is no longer on top still takes the tap.           *)
SubmitBehind(kind, email, step) ==
    /\ opened > 0
    /\ Still
    /\ ~alert
    /\ ~Covers(hud, View)
    /\ UNCHANGED <<server, session, writes, main, screens, feed, orphaned>>
    /\ Begin(kind, email, step)

(* handleLogin and handleRegistration: the form is there and not covered.  *)
Submit(kind, email, step) ==
    /\ top = "auth"
    /\ Still
    /\ ~alert
    /\ ~Covers(hud, View)
    /\ UNCHANGED <<server, session, writes, main, screens, feed, orphaned>>
    /\ Begin(kind, email, step)

Login(e) == Submit("login", e, "signIn")
Register(e) == Submit("register", e, "photo")

AcceptAlert ==
    /\ alert
    /\ alert' = FALSE
    /\ UNCHANGED <<server, session, writes, main, jobs, top, chat, opened, transition,
                   formless, hud, feed, orphaned>>

(* The user opens a screen.                                                *)
Opens ==
    /\ Still
    /\ opened < MaxScreens
    /\ UNCHANGED <<server, session, writes, main, formless, alert, feed, orphaned>>

(* showProfile; fetchUser asks for nothing when nobody is signed in.  Its  *)
(* button is in the navigation bar, beside the loader.                     *)
OpenProfile ==
    /\ top = "list"
    /\ Opens
    /\ Present("profile")
    /\ UNCHANGED chat
    /\ \/ current # Nobody /\ Begin("profile", current, "fetch")
       \/ current = Nobody /\ Ask("profile", Nobody, "silent") /\ Loader(hud)

(* shopNewMessage.  Its button is in the list's view.                      *)
OpenUsers ==
    /\ "chats" \in MayHappen
    /\ top = "list"
    /\ ~Covers(hud, View)
    /\ Opens
    /\ Present("users")
    /\ UNCHANGED chat
    /\ Begin("users", current, "fetch")

(* The screen on top is left for the list.  The profile's cross is in its  *)
(* view, Cancel and Back are in the navigation bar.                        *)
Leave(screen, then) ==
    /\ top = screen
    /\ Still
    /\ top' = "list"
    /\ chat' = 0
    /\ transition' = then
    /\ UNCHANGED <<server, session, writes, main, jobs, opened, formless, alert,
                   feed, orphaned>>
    /\ Loader(hud)

CloseProfile == ~Covers(hud, View) /\ Leave("profile", "runs")
CloseUsers == Leave("users", "runs")
CloseChat == Leave("chat", "no")

(* showChatController: the view loads, shows the loader and listens, if    *)
(* somebody is signed in.  A chat without messages is told nothing, for    *)
(* the time being.                                                         *)
ShowChat(step) ==
    /\ Opens
    /\ top' = "chat"
    /\ opened' = opened + 1
    /\ chat' = opened'
    /\ transition' = IF top = "users" THEN "runs" ELSE "no"
    /\ Begin("chat", current, IF current = Nobody THEN "silent" ELSE step)

(* A row of the list.                                                      *)
SelectConversation ==
    /\ "chats" \in MayHappen
    /\ top = "list"
    /\ rows
    /\ ~Covers(hud, View)
    /\ ShowChat("fetch")

(* A user of the new message screen, which is dismissed.                   *)
SelectUser ==
    /\ top = "users"
    /\ ~Covers(hud, View)
    /\ \E i \in DOMAIN jobs : jobs[i].view = View /\ jobs[i].step = "done"
    /\ \E step \in {"fetch", "silent"} : ShowChat(step)

(* handleLogout, once the sheet is confirmed: the profile is dismissed.    *)
Logout == ~Covers(hud, View) /\ Leave("profile", "logout")

EndTransition ==
    /\ transition = "runs"
    /\ transition' = "no"
    /\ UNCHANGED <<server, session, writes, main, jobs, top, chat, opened, formless,
                   alert, hud, feed, orphaned>>

SignOutNotice == IF current = Nobody THEN <<>> ELSE <<Credential(Nobody)>>

(* Then signOut changes currentUser at once and posts the notification,    *)
(* and logout posts the block that presents the login screen.              *)
SignOut ==
    /\ transition = "logout"
    /\ transition' = "no"
    /\ current' = Nobody
    /\ main' = main \o SignOutNotice \o <<Form>>
    /\ UNCHANGED <<server, fs, writes, jobs, top, chat, opened, formless, alert,
                   hud, feed, orphaned>>

EndAnimationOfHud ==
    /\ hud.moving # "no"
    /\ hud' = EndAnimation(hud)
    /\ UNCHANGED <<server, session, writes, main, jobs, screens, feed, orphaned>>

(* fetchConverations' closure runs: showLoader(false).  The first answer   *)
(* is due, more come with every message.                                   *)
ListAnswer ==
    /\ listening
    /\ due \/ "news" \in MayHappen
    /\ due' = FALSE
    /\ rows' = TRUE
    /\ hud' = Dismiss(hud)
    /\ UNCHANGED <<server, session, writes, main, jobs, screens, listening, orphaned>>

-----------------------------------------------------------------------------
(* The main queue.                                                         *)

Runs(block) == main # <<>> /\ Head(main) = block

(* Firestore hears who is signed in.                                       *)
RunCredential ==
    /\ main # <<>>
    /\ Head(main).kind = "credential"
    /\ fs' = Head(main).user
    /\ main' = Tail(main)
    /\ UNCHANGED <<server, current, writes, jobs, screens, hud, feed, orphaned>>

(* presentLoginScreen's block.  The list, or the chat pushed over it, does *)
(* not present a second screen over the first.                             *)
PresentForm ==
    /\ Runs(Form)
    /\ main' = Tail(main)
    /\ UNCHANGED <<server, session, writes, jobs, chat, alert, feed, orphaned>>
    /\ \/ top \in {"list", "chat"} /\ Still /\ Present("auth") /\ formless' = FALSE
       \/ top = "auth" /\ UNCHANGED <<top, opened, transition, formless>>
       \/ /\ top \in {"profile", "users"} \/ (top # "auth" /\ ~Still)
          /\ formless' = TRUE
          /\ UNCHANGED <<top, opened, transition>>
    /\ Loader(hud)

(* showLoader(false), showError: on a screen that is left it is not seen.  *)
Refused(i) ==
    /\ Move(i, "failed")
    /\ alert' = (alert \/ (top = "auth" /\ jobs[i].view = View))
    /\ UNCHANGED <<top, chat, opened, transition, formless, feed>>
    /\ Loader(Dismiss(hud))

(* dismiss: what is presented over the list goes, a pushed chat does not.  *)
DismissPresented ==
    LET dismissed == top \in {"auth", "profile", "users"} /\ Still
    IN  /\ top' = IF ~dismissed THEN top ELSE IF chat # 0 THEN "chat" ELSE "list"
        /\ transition' = IF dismissed THEN "runs" ELSE transition
        /\ alert' = (alert /\ ~dismissed)
        /\ UNCHANGED <<chat, opened, formless>>

(* fetchConverations: the loader either way, a listener for a user.        *)
FetchConversations ==
    /\ listening' = (listening \/ current # Nobody)
    /\ due' = (due \/ current # Nobody)
    /\ UNCHANGED rows
    /\ Loader(ShowIn(Dismiss(hud), 0))

(* Variant: whoever was let in is taken to be signed in.                   *)
EnterUnasked(i) ==
    /\ Move(i, "done")
    /\ DismissPresented
    /\ main' = Tail(main)
    /\ FetchConversations

(* showLoader(false), authenticationComplete: dismiss; authenticateUser    *)
(* asks who is signed in by now; fetchConverations.                        *)
Enter(i) ==
    /\ Move(i, "done")
    /\ DismissPresented
    /\ main' = Tail(main) \o FormFor(current)
    /\ FetchConversations

-----------------------------------------------------------------------------
(* How a request is answered.                                              *)

(* Auth changes currentUser on its own queue and posts the notification,   *)
(* then the completion.                                                    *)
Authenticated(i, step) ==
    /\ current' = jobs[i].email
    /\ main' = main \o <<Credential(jobs[i].email), Answer(i)>>
    /\ Move(i, step)
    /\ UNCHANGED <<server, fs, writes, screens, hud, feed, orphaned>>

(* An error that is told the completion.                                   *)
Fails(i) ==
    /\ Refused(i)
    /\ UNCHANGED <<server, session, writes, main>>

(* Login.                                                                  *)
SignIn(i) ==
    /\ jobs[i].step = "signIn"
    /\ jobs[i].email \in accounts
    /\ Authenticated(i, "signedIn")

SignInRefused(i) ==
    /\ jobs[i].step = "signIn"
    /\ jobs[i].email \notin accounts \/ "authFails" \in MayHappen
    /\ Fails(i)
    /\ UNCHANGED orphaned

SignInAnswer(i) ==
    /\ jobs[i].step = "signedIn"
    /\ Runs(Answer(i))
    /\ Enter(i)
    /\ UNCHANGED <<server, session, writes, orphaned>>

(* Registration.                                                           *)
PhotoStored(i) ==
    /\ jobs[i].step = "photo"
    /\ UNCHANGED orphaned
    /\ \/ /\ Move(i, "url")
          /\ UNCHANGED <<server, session, writes, main, screens, hud, feed>>
       \/ "authFails" \in MayHappen /\ Fails(i)

(* Without a URL createUser returns, and its completion is never called.   *)
UrlAnswer(i) ==
    /\ jobs[i].step = "url"
    /\ \/ Move(i, "create")
       \/ "noUrl" \in MayHappen /\ Move(i, "silent")
    /\ UNCHANGED <<server, session, writes, main, screens, feed, orphaned>>
    /\ Loader(hud)

(* The server creates the account, unless the email is taken.              *)
Create(i) ==
    /\ jobs[i].step = "create"
    /\ UNCHANGED orphaned
    /\ \/ /\ jobs[i].email \notin accounts
          /\ accounts' = accounts \cup {jobs[i].email}
          /\ Move(i, "created")
          /\ UNCHANGED <<docs, session, writes, main, screens, hud, feed>>
       \/ /\ jobs[i].email \in accounts \/ "authFails" \in MayHappen
          /\ Fails(i)

(* Auth hears of the new account, which is signed in.                      *)
SignUp(i) ==
    /\ jobs[i].step = "created"
    /\ Authenticated(i, "signedUp")

(* Its answer is lost: an error for an account that exists.                *)
CreatedUnheard(i) ==
    /\ "authFails" \in MayHappen
    /\ jobs[i].step = "created"
    /\ orphaned' = orphaned \cup {jobs[i].email}
    /\ Fails(i)

(* setData puts the document into the queue of Firestore's user.           *)
Document(i, job) == [uid |-> jobs[i].email, by |-> fs, job |-> job]

(* Variant: the list is entered before the document is stored.             *)
CreatedAndEntered(i) ==
    /\ jobs[i].step = "signedUp"
    /\ Runs(Answer(i))
    /\ writes' = writes \cup {Document(i, 0)}
    /\ Enter(i)
    /\ UNCHANGED <<server, session, orphaned>>

Created(i) ==
    /\ jobs[i].step = "signedUp"
    /\ Runs(Answer(i))
    /\ writes' = writes \cup {Document(i, i)}
    /\ main' = Tail(main)
    /\ Move(i, "document")
    /\ UNCHANGED <<server, session, screens, hud, feed, orphaned>>

(* A write leaves the queue of Firestore's user and its completion is      *)
(* posted; a write from before a kill has none.                            *)
Leaves(w, step) ==
    /\ w.by = fs
    /\ writes' = writes \ {w}
    /\ \/ w.job = 0 /\ UNCHANGED <<jobs, main>>
       \/ w.job # 0 /\ Move(w.job, step) /\ main' = Append(main, Answer(w.job))
    /\ UNCHANGED <<accounts, session, screens, hud, feed>>

WriteDocument(w) ==
    /\ Leaves(w, "stored")
    /\ docs' = docs \cup {w.uid}
    /\ UNCHANGED orphaned

RefuseDocument(w) ==
    /\ "refuse" \in MayHappen
    /\ Leaves(w, "rejected")
    /\ orphaned' = orphaned \cup {w.uid}
    /\ UNCHANGED docs

DocumentAnswer(i) ==
    /\ Runs(Answer(i))
    /\ \/ jobs[i].step = "stored" /\ Enter(i)
       \/ jobs[i].step = "rejected" /\ Refused(i) /\ main' = Tail(main)
    /\ UNCHANGED <<server, session, writes, orphaned>>

(* What the other screens fetch.  fetchUser of the profile and fetchUsers: *)
(* without the document, or an answer, nothing is called.                  *)
FetchAnswer(i) ==
    /\ jobs[i].kind # "chat"
    /\ jobs[i].step = "fetch"
    /\ UNCHANGED <<server, session, writes, main, screens, feed, orphaned>>
    /\ \/ /\ jobs[i].kind = "profile" => jobs[i].email \in docs
          /\ Move(i, "done")
          /\ Loader(Dismiss(hud))
       \/ /\ \/ jobs[i].kind = "profile" /\ jobs[i].email \notin docs
             \/ "fetchFails" \in MayHappen
          /\ Move(i, "silent")
          /\ Loader(hud)

(* The listener of a chat, on top or left long ago, brings messages.       *)
ChatAnswer(i) ==
    /\ jobs[i].kind = "chat"
    /\ jobs[i].email # Nobody
    /\ jobs[i].step = "fetch" \/ "news" \in MayHappen
    /\ Move(i, "done")
    /\ UNCHANGED <<server, session, writes, main, screens, feed, orphaned>>
    /\ Loader(Dismiss(hud))

-----------------------------------------------------------------------------
(* Variant: the write queue is kept in memory.                             *)
KeptNowhere(ws) == {}

(* The write queue is persistent, the closures are not.                    *)
Kept(ws) == {[w EXCEPT !.job = 0] : w \in ws}

(* The process dies and the app starts; the keychain knows who is signed   *)
(* in.  An account whose document is in no queue yet never gets it: the    *)
(* next registration finds the email taken.                                *)
Kill ==
    /\ "kill" \in MayHappen
    /\ writes' = Kept(writes)
    /\ orphaned' = orphaned \cup
          {jobs[i].email : i \in {k \in DOMAIN jobs :
                                     jobs[k].step \in {"created", "signedUp"}}}
    /\ fs' = current
    /\ Boot(current)
    /\ UNCHANGED <<server, current>>

User ==
    \/ \E e \in Emails : Login(e) \/ Register(e)
    \/ AcceptAlert
    \/ OpenProfile
    \/ OpenUsers
    \/ SelectConversation
    \/ SelectUser
    \/ CloseProfile
    \/ CloseUsers
    \/ CloseChat
    \/ Logout

(* UIKit ends what it has begun.                                           *)
UIKit == EndTransition \/ SignOut \/ EndAnimationOfHud

(* A request is answered elsewhere than on the main queue, or its answer   *)
(* changes nothing before it runs there.                                   *)
Network(i) ==
    \/ SignIn(i)
    \/ SignInRefused(i)
    \/ PhotoStored(i)
    \/ UrlAnswer(i)
    \/ Create(i)
    \/ SignUp(i)
    \/ FetchAnswer(i)

RunMain ==
    \/ RunCredential
    \/ PresentForm
    \/ \E i \in DOMAIN jobs : SignInAnswer(i) \/ Created(i) \/ DocumentAnswer(i)

Next ==
    \/ User
    \/ UIKit
    \/ ListAnswer
    \/ \E i \in DOMAIN jobs : Network(i) \/ CreatedUnheard(i) \/ ChatAnswer(i)
    \/ RunMain
    \/ \E w \in writes : WriteDocument(w) \/ RefuseDocument(w)
    \/ Kill

Spec == Init /\ [][Next]_vars

(* Requests are answered, the main queue is drained, animations end, and a *)
(* list that has conversations hears of them.  Nothing obliges the user.   *)
Fairness ==
    /\ \A i \in 1..MaxJobs :
          WF_vars(i \in DOMAIN jobs /\
                  (Network(i) \/ (jobs[i].step = "fetch" /\ ChatAnswer(i))))
    /\ WF_vars(RunMain)
    /\ WF_vars(EndTransition \/ SignOut)
    /\ WF_vars(EndAnimationOfHud)
    /\ WF_vars(ListAnswer /\ due)
    /\ WF_vars(\E w \in writes : WriteDocument(w))

FairSpec == Spec /\ Fairness

-----------------------------------------------------------------------------
(* What is stated about Session.                                           *)

(* The range of every variable; no block and no closure is kept for a job  *)
(* that is not there, and the loader is in no view that is gone.           *)
TypeOK ==
    /\ accounts \subseteq Emails
    /\ docs \subseteq Emails
    /\ current \in accounts \cup {Nobody}
    /\ fs \in Emails \cup {Nobody}
    /\ writes \subseteq [uid : Emails, by : Emails \cup {Nobody}, job : {0} \cup DOMAIN jobs]
    /\ main \in Seq([kind : {"credential"}, user : Emails \cup {Nobody}]
                    \cup [kind : {"answer"}, job : DOMAIN jobs]
                    \cup {Form})
    /\ jobs \in Seq(Jobs)
    /\ top \in {"list", "auth", "profile", "users", "chat"}
    /\ chat \in Views
    /\ opened \in Views
    /\ transition \in {"no", "runs", "logout"}
    /\ formless \in BOOLEAN
    /\ alert \in BOOLEAN
    /\ hud \in HudType(Alive)
    /\ listening \in BOOLEAN
    /\ due \in BOOLEAN /\ rows \in BOOLEAN
    /\ orphaned \subseteq Emails

(* When nobody is signed in the login screen is there, or on its way,      *)
(* whichever blocks were on the main queue when the user logged out and    *)
(* whatever he taps before it comes, unless it came upon a screen that was *)
(* opened, or one that was coming or going, and UIKit turned it away.      *)
ListNeedsUser ==
    top # "auth" => \/ current # Nobody
                    \/ FormPosted
                    \/ formless

(* A profile, a list of users or a chat is left when its user signs out;   *)
(* the account changes under an open screen only by the answer to a login  *)
(* or registration that was begun before the screen was opened (a second   *)
(* tap on a form that the loader did not cover).  A chat that the login    *)
(* screen was presented over is not considered.                            *)
ScreenOwner ==
    top \in {"profile", "users", "chat"} /\ View = opened =>
        \E i \in DOMAIN jobs :
            /\ jobs[i].kind = top /\ jobs[i].view = View
            /\ \/ jobs[i].email = current
               \/ \E j \in 1..(i - 1) : jobs[j].kind \in {"login", "register"}
                                       /\ jobs[j].email = current

(* Who enters the app by registration has a user document: the list is     *)
(* entered from the completion of that write.                              *)
EnteredWithDocument ==
    \A i \in DOMAIN jobs :
        jobs[i].kind = "register" /\ jobs[i].step = "done" => jobs[i].email \in docs

(* Every account has its document, or the document is on its way in the    *)
(* account's own write queue, or the answer that leads to it is; otherwise *)
(* that answer was lost, the app was killed before it, or the server       *)
(* refused the document.                                                   *)
NoOrphan ==
    \A e \in accounts \ docs :
        \/ \E w \in writes : w.uid = e /\ w.by = e
        \/ \E i \in DOMAIN jobs : jobs[i].email = e
                                  /\ jobs[i].step \in {"created", "signedUp"}
        \/ e \in orphaned

(* A request for this view whose completion is not called: a photo without *)
(* a URL, a profile without a document, users that cannot be fetched, a    *)
(* chat without messages or user.                                          *)
Unanswered(v) == \E i \in DOMAIN jobs : jobs[i].view = v /\ jobs[i].step = "silent"

(* A screen the loader covers is uncovered again, however the answers of   *)
(* several requests and the animations of the one loader fall together,    *)
(* unless the code leaves a request of that very screen without an answer, *)
(* or nobody is signed in and the login screen did not appear.             *)
(* (A list without conversations is not considered: it is never told.)     *)
Uncovered ==
    Covers(hud, View) ~> \/ ~Covers(hud, View)
                         \/ Unanswered(View)
                         \/ formless /\ current = Nobody
=============================================================================
