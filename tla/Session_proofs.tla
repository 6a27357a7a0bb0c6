-------------------------- MODULE Session_proofs --------------------------
(***************************************************************************)
(* Proofs about Session, for any accounts, requests and screens and any    *)
(* selection of the events.                                                *)
(***************************************************************************)
EXTENDS Session, SequenceTheorems, TLAPS

(***************************************************************************)
(* The inductive invariant.                                                *)
(***************************************************************************)
Forms == {"login", "register"}
Opened == {"profile", "users", "chat"}

(* Which steps belong to which chain, and what they rely on.               *)
Fits(kind, email, step, accs, ds) ==
  /\ step \in {"signIn", "signedIn"} => kind = "login"
  /\ step \in {"photo", "url", "create", "created", "signedUp", "document",
               "stored", "rejected"} => kind = "register"
  /\ step = "fetch" => kind \in Opened
  /\ kind \in Forms => email \in Emails
  /\ step \in {"created", "signedUp"} => email \in accs
  /\ kind = "register" /\ step \in {"stored", "done"} => email \in ds

JobOK(j) == Fits(j.kind, j.email, j.step, accounts, docs)
JobsOK == \A i \in 1..Len(jobs) : JobOK(jobs[i])

(* Blocks of the main queue, for a number of requests.                     *)
Blocks(n) == [kind : {"credential"}, user : Emails \cup {Nobody}]
             \cup [kind : {"answer"}, job : 1..n]
             \cup {Form}

(* A completion on the main queue is that of a request that waits for it,  *)
(* each has one, and Firestore hears of a new account right before it.     *)
QueueOK(q, js, f) ==
  \A n \in 1..Len(q) : q[n].kind = "answer" =>
      /\ js[q[n].job].step \in Posted
      /\ \A m \in 1..Len(q) : q[m].kind = "answer" /\ q[m].job = q[n].job => m = n
      /\ js[q[n].job].step = "signedUp" =>
            IF n = 1 THEN f = js[q[n].job].email
                     ELSE q[n - 1] = Credential(js[q[n].job].email)

(* No completion of request i is on the queue.                             *)
Free(q, i) == \A n \in 1..Len(q) : q[n].kind = "answer" => q[n].job # i

(* A write with a closure is that of a registration that waits for it.     *)
WritesOK ==
  \A w \in writes : w.job # 0 =>
      /\ jobs[w.job].step = "document" /\ jobs[w.job].email = w.uid
      /\ \A v \in writes : v.job = w.job => v = w

(* A chat under another screen was opened before it; a logout goes on over *)
(* the list; nothing was begun since the screen that was opened last.      *)
ChatBelow ==
  /\ chat <= opened
  /\ top # "chat" /\ chat # 0 => chat < opened
LogoutOverList == transition = "logout" => top = "list"
ScreenJob ==
  top \in Opened /\ View = opened =>
      Len(jobs) > 0 /\ jobs[Len(jobs)].kind = top /\ jobs[Len(jobs)].view = View

(* Its request is of the present user, or he came by an earlier one.       *)
LastOwner ==
  top \in Opened /\ View = opened =>
      \/ jobs[Len(jobs)].email = current
      \/ \E j \in 1..(Len(jobs) - 1) : jobs[j].kind \in Forms /\ jobs[j].email = current

ScreensOK == ChatBelow /\ LogoutOverList /\ ScreenJob /\ LastOwner

IInv ==
  /\ TypeOK
  /\ JobsOK
  /\ QueueOK(main, jobs, fs)
  /\ WritesOK
  /\ ScreensOK
  /\ ListNeedsUser
  /\ NoOrphan

-----------------------------------------------------------------------------
(***************************************************************************)
(* The main queue.                                                         *)
(***************************************************************************)
(* Blocks are told apart by their kind.                                    *)
LEMMA BlockKinds ==
  /\ \A i : Answer(i).kind = "answer" /\ Answer(i).job = i
  /\ \A u : Credential(u).kind = "credential" /\ Credential(u).user = u
  /\ Form.kind = "form"
BY DEF Answer, Credential, Form

LEMMA BlockTypes ==
  ASSUME NEW n \in Nat
  PROVE  /\ \A i \in 1..n : Answer(i) \in Blocks(n)
         /\ \A u \in Emails \cup {Nobody} : Credential(u) \in Blocks(n)
         /\ Form \in Blocks(n)
         /\ \A b \in Blocks(n) : /\ b.kind = "answer" => b.job \in 1..n
                                 /\ b.kind = "credential" => b.user \in Emails \cup {Nobody}
         /\ Blocks(n) \subseteq Blocks(n + 1)
<1>1. /\ \A i \in 1..n : Answer(i) \in Blocks(n)
      /\ \A u \in Emails \cup {Nobody} : Credential(u) \in Blocks(n)
      /\ Form \in Blocks(n)
  BY DEF Blocks, Answer, Credential
<1>2. \A b \in Blocks(n) : /\ b.kind = "answer" => b.job \in 1..n
                           /\ b.kind = "credential" => b.user \in Emails \cup {Nobody}
  BY BlockKinds DEF Blocks
<1>3. Blocks(n) \subseteq Blocks(n + 1)
  BY DEF Blocks
<1> QED BY <1>1, <1>2, <1>3

(* A block at the end.                                                     *)
LEMMA PushShape ==
  ASSUME NEW B, NEW q \in Seq(B), NEW b \in B
  PROVE  /\ Append(q, b) \in Seq(B) /\ Len(q) \in Nat
         /\ Len(Append(q, b)) = Len(q) + 1
         /\ Append(q, b)[Len(q) + 1] = b
         /\ \A n \in 1..Len(q) : Append(q, b)[n] = q[n]
         /\ \A n \in 1..(Len(q) + 1) : n \in 1..Len(q) \/ n = Len(q) + 1
         /\ q \o <<b>> = Append(q, b)
         /\ q \o <<>> = q
<1>1. Len(q) \in Nat
  BY LenProperties
<1>2. q \o <<b>> = Append(q, b)
  BY AppendIsConcat
<1>3. q \o <<>> = q
  BY ConcatEmptySeq
<1> QED BY <1>1, <1>2, <1>3, AppendProperties

LEMMA PushPlain ==
  ASSUME NEW B, NEW q \in Seq(B), NEW b \in B, b.kind # "answer",
         NEW js, NEW f, QueueOK(q, js, f)
  PROVE  QueueOK(Append(q, b), js, f)
<1>1. /\ Len(q) \in Nat
      /\ Len(Append(q, b)) = Len(q) + 1
      /\ Append(q, b)[Len(q) + 1] = b
      /\ \A n \in 1..Len(q) : Append(q, b)[n] = q[n]
      /\ \A n \in 1..(Len(q) + 1) : n \in 1..Len(q) \/ n = Len(q) + 1
  BY PushShape
<1> DEFINE r == Append(q, b)
<1> HIDE DEF r
<1>2. ASSUME NEW n \in 1..Len(q)  PROVE n = 1 \/ n - 1 \in 1..Len(q)
  BY <1>1
<1> QED BY <1>1, <1>2 DEF QueueOK, r

LEMMA PushAnswer ==
  ASSUME NEW B, NEW q \in Seq(B), NEW i, Answer(i) \in B,
         NEW js, NEW f, QueueOK(q, js, f), Free(q, i), js[i].step \in Posted,
         js[i].step = "signedUp" => Len(q) > 0 /\ q[Len(q)] = Credential(js[i].email)
  PROVE  QueueOK(Append(q, Answer(i)), js, f)
<1>1. /\ Len(q) \in Nat
      /\ Len(Append(q, Answer(i))) = Len(q) + 1
      /\ Append(q, Answer(i))[Len(q) + 1] = Answer(i)
      /\ \A n \in 1..Len(q) : Append(q, Answer(i))[n] = q[n]
      /\ \A n \in 1..(Len(q) + 1) : n \in 1..Len(q) \/ n = Len(q) + 1
  BY PushShape
<1> DEFINE r == Append(q, Answer(i))
<1>2. Answer(i).kind = "answer" /\ Answer(i).job = i
  BY BlockKinds
<1>3. ASSUME NEW n \in 1..Len(q)  PROVE n = 1 \/ n - 1 \in 1..Len(q)
  BY <1>1
<1>4. Len(q) > 0 => (Len(q) + 1) # 1 /\ (Len(q) + 1) - 1 = Len(q) /\ Len(q) \in 1..Len(q)
  BY <1>1
<1> HIDE DEF r
<1>5. ASSUME NEW n \in 1..(Len(q) + 1), r[n].kind = "answer"
      PROVE  /\ js[r[n].job].step \in Posted
             /\ \A m \in 1..(Len(q) + 1) : r[m].kind = "answer" /\ r[m].job = r[n].job => m = n
             /\ js[r[n].job].step = "signedUp" =>
                   IF n = 1 THEN f = js[r[n].job].email
                            ELSE r[n - 1] = Credential(js[r[n].job].email)
  <2>1. CASE n \in 1..Len(q)
    BY <1>1, <1>2, <1>3, <1>5, <2>1 DEF QueueOK, Free, r
  <2>2. CASE n = Len(q) + 1
    <3>1. r[n] = Answer(i)
      BY <1>1, <2>2 DEF r
    <3>2. \A m \in 1..(Len(q) + 1) : r[m].kind = "answer" /\ r[m].job = r[n].job => m = n
      BY <1>1, <1>2, <2>2, <3>1 DEF Free, r
    <3>3. js[i].step = "signedUp" => n # 1 /\ r[n - 1] = q[Len(q)]
      BY <1>1, <1>4, <2>2 DEF r
    <3> QED BY <1>2, <3>1, <3>2, <3>3
  <2> QED BY <1>1, <2>1, <2>2
<1> QED BY <1>1, <1>5 DEF QueueOK, r

(* The first block runs; after a credential Firestore's user is its own.   *)
LEMMA PopShape ==
  ASSUME NEW B, NEW q \in Seq(B), q # <<>>
  PROVE  /\ Head(q) = q[1] /\ q[1] \in B /\ Len(q) \in Nat /\ Len(q) > 0 /\ 1 \in 1..Len(q)
         /\ Tail(q) \in Seq(B) /\ Len(Tail(q)) = Len(q) - 1
         /\ \A n \in 1..(Len(q) - 1) : Tail(q)[n] = q[n + 1] /\ n + 1 \in 1..Len(q)
BY HeadTailProperties, LenProperties, ElementOfSeq, EmptySeq

LEMMA Popped ==
  ASSUME NEW B, NEW q \in Seq(B), q # <<>>, NEW js, NEW f, NEW g, QueueOK(q, js, f),
         q[1].kind = "credential" => g = q[1].user
  PROVE  QueueOK(Tail(q), js, g)
<1>1. /\ Len(q) \in Nat /\ Len(Tail(q)) = Len(q) - 1
      /\ \A n \in 1..(Len(q) - 1) : Tail(q)[n] = q[n + 1] /\ n + 1 \in 1..Len(q)
  BY PopShape
<1> DEFINE r == Tail(q)
<1> HIDE DEF r
<1>2. ASSUME NEW n \in 1..(Len(q) - 1), r[n].kind = "answer"
      PROVE  /\ js[r[n].job].step \in Posted
             /\ \A m \in 1..(Len(q) - 1) : r[m].kind = "answer" /\ r[m].job = r[n].job => m = n
             /\ js[r[n].job].step = "signedUp" =>
                   IF n = 1 THEN g = js[r[n].job].email
                            ELSE r[n - 1] = Credential(js[r[n].job].email)
  <2>1. /\ r[n] = q[n + 1] /\ n + 1 \in 1..Len(q) /\ q[n + 1].kind = "answer"
        /\ n + 1 # 1 /\ (n + 1) - 1 = n
    BY <1>1, <1>2 DEF r
  <2>2. /\ js[q[n + 1].job].step \in Posted
        /\ \A m \in 1..Len(q) : q[m].kind = "answer" /\ q[m].job = q[n + 1].job => m = n + 1
        /\ js[q[n + 1].job].step = "signedUp" => q[n] = Credential(js[q[n + 1].job].email)
    BY <2>1 DEF QueueOK
  <2>3. \A m \in 1..(Len(q) - 1) : r[m].kind = "answer" /\ r[m].job = r[n].job => m = n
    BY <1>1, <2>1, <2>2 DEF r
  <2>4. CASE n = 1
    BY <2>1, <2>2, <2>3, <2>4, BlockKinds
  <2>5. CASE n # 1
    <3>1. n - 1 \in 1..(Len(q) - 1) /\ (n - 1) + 1 = n
      BY <1>1, <2>5
    <3>2. r[n - 1] = q[n]
      BY <1>1, <3>1 DEF r
    <3> QED BY <2>1, <2>2, <2>3, <2>5, <3>2
  <2> QED BY <2>4, <2>5
<1> QED BY <1>1, <1>2 DEF QueueOK, r

(* A completion that runs was the only one of its request.                 *)
LEMMA PoppedFree ==
  ASSUME NEW B, NEW q \in Seq(B), q # <<>>, NEW js, NEW f, NEW i, QueueOK(q, js, f),
         Head(q) = Answer(i)
  PROVE  Free(Tail(q), i) /\ js[i].step \in Posted
         /\ (js[i].step = "signedUp" => f = js[i].email)
<1>1. /\ q[1] = Answer(i) /\ 1 \in 1..Len(q)
      /\ Len(q) \in Nat /\ Len(Tail(q)) = Len(q) - 1
      /\ \A n \in 1..(Len(q) - 1) : Tail(q)[n] = q[n + 1] /\ n + 1 \in 1..Len(q)
  BY PopShape
<1>2. q[1].kind = "answer" /\ q[1].job = i
  BY <1>1, BlockKinds
<1>3. js[i].step \in Posted /\ (js[i].step = "signedUp" => f = js[i].email)
  BY <1>1, <1>2 DEF QueueOK
<1>4. \A n \in 1..Len(q) : q[n].kind = "answer" /\ q[n].job = i => n = 1
  BY <1>1, <1>2 DEF QueueOK
<1>5. \A n \in 1..(Len(q) - 1) : n + 1 # 1
  BY <1>1
<1> QED BY <1>1, <1>3, <1>4, <1>5 DEF Free

(* The queue does not mind what becomes of other requests.                 *)
LEMMA OtherJobs ==
  ASSUME NEW q, NEW js, NEW ks, NEW f, QueueOK(q, js, f),
         \A n \in 1..Len(q) : q[n].kind = "answer" =>
             /\ ks[q[n].job].step = js[q[n].job].step
             /\ ks[q[n].job].email = js[q[n].job].email
  PROVE  QueueOK(q, ks, f)
BY DEF QueueOK

(* Forms on the queue.                                                     *)
HasForm(q) == \E n \in DOMAIN q : q[n] = Form

LEMMA FormPushed ==
  ASSUME NEW B, NEW q \in Seq(B), NEW b \in B, b = Form \/ HasForm(q)
  PROVE  HasForm(Append(q, b))
<1>1. /\ Append(q, b) \in Seq(B) /\ Len(q) \in Nat /\ Len(Append(q, b)) = Len(q) + 1
      /\ Append(q, b)[Len(q) + 1] = b
      /\ \A n \in 1..Len(q) : Append(q, b)[n] = q[n]
  BY PushShape
<1>2. DOMAIN q = 1..Len(q) /\ DOMAIN Append(q, b) = 1..(Len(q) + 1)
  BY <1>1, LenProperties
<1>3. Len(q) + 1 \in 1..(Len(q) + 1) /\ \A n \in 1..Len(q) : n \in 1..(Len(q) + 1)
  BY <1>1
<1> QED BY <1>1, <1>2, <1>3 DEF HasForm

LEMMA FormStays ==
  ASSUME NEW B, NEW q \in Seq(B), q # <<>>, Head(q) # Form, HasForm(q)
  PROVE  HasForm(Tail(q))
<1>1. /\ Head(q) = q[1] /\ Len(q) \in Nat
      /\ Tail(q) \in Seq(B) /\ Len(Tail(q)) = Len(q) - 1
      /\ \A n \in 1..(Len(q) - 1) : Tail(q)[n] = q[n + 1]
  BY PopShape
<1>2. DOMAIN q = 1..Len(q) /\ DOMAIN Tail(q) = 1..(Len(q) - 1)
  BY <1>1, LenProperties
<1>3. PICK n \in 1..Len(q) : q[n] = Form
  BY <1>2 DEF HasForm
<1>4. n # 1
  BY <1>1, <1>3
<1>5. n - 1 \in 1..(Len(q) - 1) /\ (n - 1) + 1 = n
  BY <1>1, <1>4
<1> QED BY <1>1, <1>2, <1>3, <1>5 DEF HasForm

-----------------------------------------------------------------------------
(***************************************************************************)
(* Requests and the loader.                                                *)
(***************************************************************************)

(* A request that gets to its next step.                                   *)
LEMMA MoveShape ==
  ASSUME jobs \in Seq(Jobs), NEW i \in DOMAIN jobs, NEW s \in Steps, Move(i, s)
  PROVE  /\ jobs' \in Seq(Jobs) /\ Len(jobs') = Len(jobs)
         /\ DOMAIN jobs = 1..Len(jobs) /\ DOMAIN jobs' = 1..Len(jobs)
         /\ jobs[i] \in Jobs /\ jobs'[i].step = s
         /\ \A k \in 1..Len(jobs) : /\ jobs'[k].kind = jobs[k].kind
                                    /\ jobs'[k].email = jobs[k].email
                                    /\ jobs'[k].view = jobs[k].view
                                    /\ k # i => jobs'[k] = jobs[k]
<1>1. /\ Len(jobs) \in Nat /\ DOMAIN jobs = 1..Len(jobs)
      /\ \A k \in 1..Len(jobs) : jobs[k] \in Jobs
      /\ jobs \in [1..Len(jobs) -> Jobs]
  BY ElementOfSeq, LenProperties
<1>2. /\ [jobs[i] EXCEPT !.step = s] \in Jobs
      /\ [jobs[i] EXCEPT !.step = s].step = s
      /\ [jobs[i] EXCEPT !.step = s].kind = jobs[i].kind
      /\ [jobs[i] EXCEPT !.step = s].email = jobs[i].email
      /\ [jobs[i] EXCEPT !.step = s].view = jobs[i].view
  BY <1>1 DEF Jobs
<1>3. jobs' = [jobs EXCEPT ![i] = [jobs[i] EXCEPT !.step = s]]
  BY DEF Move
<1>4. /\ jobs'[i] = [jobs[i] EXCEPT !.step = s]
      /\ \A k \in 1..Len(jobs) : k # i => jobs'[k] = jobs[k]
  BY <1>1, <1>3
<1>5. jobs' \in [1..Len(jobs) -> Jobs]
  BY <1>1, <1>2, <1>3
<1>6. jobs' \in Seq(Jobs) /\ Len(jobs') = Len(jobs) /\ DOMAIN jobs' = 1..Len(jobs)
  BY <1>1, <1>5
<1> QED BY <1>1, <1>2, <1>4, <1>6

(* A request that is begun.                                                *)
LEMMA AppendShape ==
  ASSUME jobs \in Seq(Jobs), NEW j \in Jobs, jobs' = Append(jobs, j)
  PROVE  /\ jobs' \in Seq(Jobs) /\ Len(jobs) \in Nat /\ Len(jobs') = Len(jobs) + 1
         /\ DOMAIN jobs = 1..Len(jobs) /\ DOMAIN jobs' = 1..Len(jobs')
         /\ jobs'[Len(jobs')] = j
         /\ \A k \in 1..Len(jobs) : jobs'[k] = jobs[k]
BY AppendProperties, LenProperties

(* The views that are alive are views.                                     *)
LEMMA AliveViews ==
  ASSUME jobs \in Seq(Jobs), chat \in Nat, opened \in Nat
  PROVE  Alive \subseteq Nat /\ View \in Nat
<1>1. \A k \in DOMAIN jobs : jobs[k].view \in Nat
  <2>1. \A k \in DOMAIN jobs : jobs[k] \in Jobs
    BY ElementOfSeq
  <2> QED BY <2>1 DEF Jobs, Views
<1>2. View \in Nat
  BY DEF View
<1> QED BY <1>1, <1>2 DEF Alive

(* What the calls do to the loader; Within puts it into a view alive.      *)
LEMMA HudCalls ==
  ASSUME NEW V, V \subseteq Nat, NEW h \in HudType(V)
  PROVE  /\ h \in HudType(Nat)
         /\ Dismiss(h) \in HudType(V)
         /\ EndAnimation(h) \in HudType(V)
         /\ \A v \in V : ShowIn(h, v) \in HudType(V)
<1>1. h \in HudType(Nat)
  BY DEF HudType
<1>2. ASSUME NEW g \in HudType(V)  PROVE Dismiss(g) \in HudType(V)
  BY DEF HudType, Dismiss
<1>3. \A v \in V : ShowIn(h, v) \in HudType(V)
  BY DEF HudType, ShowIn
<1>4. Hidden \in HudType(V) /\ [h EXCEPT !.moving = "no", !.then = FALSE] \in HudType(V)
  BY DEF HudType, Hidden
<1>5. EndAnimation(h) \in HudType(V)
  BY <1>2, <1>4 DEF EndAnimation
<1> QED BY <1>1, <1>2, <1>3, <1>5

(* Within leaves no view that is gone.                                     *)
LEMMA HudWithin ==
  ASSUME NEW V, NEW h \in HudType(Nat)
  PROVE  Within(h, V) \in HudType(V)
BY DEF HudType, Within

(* A hidden loader is shown where it is asked for.                         *)
LEMMA HudHidden == \A v \in Nat : ShowIn(Hidden, v) \in HudType({v})
BY DEF HudType, ShowIn, Hidden

(* The loader as Loader leaves it.                                         *)
LEMMA LoaderType ==
  ASSUME NEW h \in HudType(Nat), Loader(h)
  PROVE  hud' \in HudType(Alive')
BY HudWithin DEF Loader

(* The loader of a state is in some view.                                  *)
LEMMA HudOf ==
  ASSUME TypeOK
  PROVE  /\ hud \in HudType(Nat)
         /\ Dismiss(hud) \in HudType(Nat)
         /\ View \in Nat
         /\ \A v \in Nat : /\ ShowIn(hud, v) \in HudType(Nat)
                           /\ ShowIn(Dismiss(hud), v) \in HudType(Nat)
<1>1. View \in Nat /\ Alive \subseteq Nat
  BY AliveViews DEF TypeOK, Views
<1>2. hud \in HudType(Nat)
  BY <1>1, HudCalls DEF TypeOK
<1>3. Dismiss(hud) \in HudType(Nat) /\ \A v \in Nat : ShowIn(hud, v) \in HudType(Nat)
  BY <1>2, HudCalls
<1>4. \A v \in Nat : ShowIn(Dismiss(hud), v) \in HudType(Nat)
  BY <1>3, HudCalls
<1> QED BY <1>1, <1>2, <1>3, <1>4

(* A view does not go while its request goes on.                           *)
LEMMA AliveKept ==
  ASSUME IInv, NEW i \in DOMAIN jobs, NEW s \in Steps, Move(i, s),
         s \notin {"done", "failed", "silent"}, UNCHANGED <<top, chat, opened>>
  PROVE  hud \in HudType(Alive')
<1>1. /\ DOMAIN jobs = 1..Len(jobs) /\ DOMAIN jobs' = 1..Len(jobs)
      /\ jobs'[i].step = s
      /\ \A k \in 1..Len(jobs) : /\ jobs'[k].kind = jobs[k].kind
                                 /\ jobs'[k].email = jobs[k].email
                                 /\ jobs'[k].view = jobs[k].view
                                 /\ k # i => jobs'[k] = jobs[k]
  BY MoveShape DEF IInv, TypeOK
<1>2. View' = View
  BY DEF View
<1>3. Alive \subseteq Alive'
  <2> SUFFICES ASSUME NEW k \in DOMAIN jobs,
                      Running(jobs[k]) \/ (jobs[k].kind = "chat" /\ jobs[k].email # Nobody)
               PROVE  jobs[k].view \in Alive'
    BY <1>2 DEF Alive
  <2>1. Running(jobs'[k]) \/ (jobs'[k].kind = "chat" /\ jobs'[k].email # Nobody)
    BY <1>1 DEF Running
  <2> QED BY <1>1, <2>1 DEF Alive
<1> QED BY <1>3 DEF HudType, IInv, TypeOK

(* The requests of a state.                                                *)
LEMMA JobOf ==
  ASSUME IInv, NEW i \in DOMAIN jobs
  PROVE  /\ i \in 1..Len(jobs) /\ i # 0 /\ jobs[i] \in Jobs
         /\ jobs[i].kind \in Kinds /\ jobs[i].step \in Steps
         /\ jobs[i].email \in Emails \cup {Nobody}
         /\ Fits(jobs[i].kind, jobs[i].email, jobs[i].step, accounts, docs)
<1>1. jobs[i] \in Jobs /\ i \in 1..Len(jobs) /\ i # 0
  BY ElementOfSeq, LenProperties DEF IInv, TypeOK
<1>2. jobs[i].kind \in Kinds /\ jobs[i].step \in Steps
      /\ jobs[i].email \in Emails \cup {Nobody}
  BY <1>1 DEF Jobs
<1> QED BY <1>1, <1>2 DEF IInv, JobsOK, JobOK

(* The queue of a state.                                                   *)
LEMMA MainOf ==
  ASSUME IInv
  PROVE  /\ main \in Seq(Blocks(Len(jobs))) /\ QueueOK(main, jobs, fs)
         /\ Len(jobs) \in Nat /\ DOMAIN jobs = 1..Len(jobs)
         /\ \A n \in 1..Len(main) : /\ main[n] \in Blocks(Len(jobs))
                                    /\ main[n].kind = "answer" => main[n].job \in DOMAIN jobs
         /\ FormPosted = HasForm(main)
<1>1. Len(jobs) \in Nat /\ DOMAIN jobs = 1..Len(jobs)
  BY LenProperties DEF IInv, TypeOK
<1>2. main \in Seq(Blocks(Len(jobs)))
  BY <1>1 DEF IInv, TypeOK, Blocks
<1>3. \A n \in 1..Len(main) : main[n] \in Blocks(Len(jobs))
  BY <1>2, ElementOfSeq
<1> QED BY <1>1, <1>2, <1>3, BlockTypes DEF IInv, FormPosted, HasForm

-----------------------------------------------------------------------------
(***************************************************************************)
(* Steps of a request.                                                     *)
(***************************************************************************)
(* What such a step may do to the screens and the user.                    *)
ScreenStep(i) ==
  /\ UNCHANGED <<opened, chat>>
  /\ \/ UNCHANGED <<top, transition>>
     \/ top' = "list" /\ transition' = "runs" /\ (chat = 0 \/ chat < opened)
     \/ top' = "chat" /\ top # "chat" /\ chat # 0 /\ transition' = "runs"
  /\ \/ UNCHANGED current
     \/ current' = jobs[i].email /\ jobs[i].kind \in Forms

(* It keeps what is known of screens.                                      *)
LEMMA MoveKeepsScreens ==
  ASSUME IInv, NEW i \in DOMAIN jobs, NEW s \in Steps, Move(i, s), ScreenStep(i)
  PROVE  ScreensOK'
<1>1. /\ Len(jobs') = Len(jobs) /\ DOMAIN jobs = 1..Len(jobs) /\ Len(jobs) \in Nat
      /\ \A k \in 1..Len(jobs) : /\ jobs'[k].kind = jobs[k].kind
                                 /\ jobs'[k].email = jobs[k].email
                                 /\ jobs'[k].view = jobs[k].view
  BY MoveShape, LenProperties DEF IInv, TypeOK
<1>2. chat \in Nat /\ opened \in Nat
  BY DEF IInv, TypeOK, Views
<1>3. ChatBelow'
  BY <1>2 DEF ScreenStep, ChatBelow, IInv, ScreensOK
<1>4. LogoutOverList'
  BY DEF ScreenStep, LogoutOverList, IInv, ScreensOK
<1>5. ASSUME top' \in Opened, View' = opened'
      PROVE  /\ top' = top /\ top \in Opened /\ View' = View /\ View = opened
             /\ Len(jobs) > 0 /\ Len(jobs) \in 1..Len(jobs)
             /\ jobs[Len(jobs)].kind = top /\ jobs[Len(jobs)].view = View
  <2>1. CASE top' = "chat" /\ top # "chat" /\ chat # 0
    <3>1. View' = chat /\ opened' = opened /\ chat < opened
      BY <2>1 DEF View, ScreenStep, IInv, ScreensOK, ChatBelow
    <3>2. chat = opened
      BY <1>5, <3>1
    <3> QED BY <1>2, <3>1, <3>2
  <2>2. CASE top' = top
    <3>1. View' = View /\ opened' = opened
      BY <2>2 DEF View, ScreenStep
    <3>2. top \in Opened /\ View = opened
      BY <1>5, <2>2, <3>1
    <3>3. Len(jobs) > 0 /\ jobs[Len(jobs)].kind = top /\ jobs[Len(jobs)].view = View
      BY <3>2 DEF IInv, ScreensOK, ScreenJob
    <3>4. Len(jobs) \in 1..Len(jobs)
      BY <1>1, <3>3
    <3> QED BY <2>2, <3>1, <3>2, <3>3, <3>4
  <2> QED BY <1>5, <2>1, <2>2 DEF ScreenStep, Opened
<1>6. ScreenJob'
  BY <1>1, <1>5 DEF ScreenJob
<1>7. LastOwner'
  <2> SUFFICES ASSUME top' \in Opened, View' = opened'
               PROVE  \/ jobs'[Len(jobs)].email = current'
                      \/ \E j \in 1..(Len(jobs) - 1) :
                            jobs'[j].kind \in Forms /\ jobs'[j].email = current'
    BY <1>1 DEF LastOwner
  <2>1. \A j \in 1..(Len(jobs) - 1) : j \in 1..Len(jobs)
    BY <1>1
  <2>2. CASE current' = current
    BY <1>1, <1>5, <2>1, <2>2 DEF IInv, ScreensOK, LastOwner
  <2>3. CASE current' = jobs[i].email /\ jobs[i].kind \in Forms
    <3>1. i # Len(jobs)
      BY <1>5, <2>3 DEF Opened, Forms
    <3>2. i \in 1..(Len(jobs) - 1)
      BY <1>1, <1>5, <3>1
    <3> QED BY <1>1, <2>1, <2>3, <3>2
  <2> QED BY <2>2, <2>3 DEF ScreenStep
<1> QED BY <1>3, <1>4, <1>6, <1>7 DEF ScreensOK

(* What becomes of the account and the documents of a request.             *)
AccountStep(i, s) ==
  /\ Fits(jobs[i].kind, jobs[i].email, s, accounts', docs')
  /\ accounts \subseteq accounts' /\ accounts' \subseteq Emails
  /\ docs \subseteq docs' /\ docs' \subseteq Emails
  /\ orphaned \subseteq orphaned' /\ orphaned' \subseteq Emails
  /\ accounts' \subseteq accounts \cup {jobs[i].email}
  /\ accounts' # accounts => s = "created"
  /\ jobs[i].step \in {"created", "signedUp"} =>
        \/ s \in {"created", "signedUp"}
        \/ jobs[i].email \in orphaned'
        \/ \E w \in writes' : w.uid = jobs[i].email /\ w.by = jobs[i].email
  /\ \A w \in writes : w \in writes' \/ w.uid \in docs' \cup orphaned'

LEMMA MoveKeepsAccounts ==
  ASSUME IInv, NEW i \in DOMAIN jobs, NEW s \in Steps, Move(i, s), AccountStep(i, s)
  PROVE  JobsOK' /\ NoOrphan'
<1>1. /\ Len(jobs') = Len(jobs)
      /\ DOMAIN jobs = 1..Len(jobs) /\ DOMAIN jobs' = 1..Len(jobs)
      /\ jobs'[i].step = s
      /\ \A k \in 1..Len(jobs) : /\ jobs'[k].kind = jobs[k].kind
                                 /\ jobs'[k].email = jobs[k].email
                                 /\ k # i => jobs'[k] = jobs[k]
  BY MoveShape DEF IInv, TypeOK
<1>2. JobsOK'
  <2> SUFFICES ASSUME NEW k \in 1..Len(jobs)  PROVE JobOK(jobs[k])'
    BY <1>1 DEF JobsOK
  <2>1. CASE k = i
    BY <1>1, <2>1 DEF JobOK, AccountStep
  <2>2. CASE k # i
    <3>1. Fits(jobs[k].kind, jobs[k].email, jobs[k].step, accounts, docs)
      BY DEF IInv, JobsOK, JobOK
    <3>2. Fits(jobs[k].kind, jobs[k].email, jobs[k].step, accounts', docs')
      BY <3>1 DEF Fits, AccountStep
    <3> QED BY <1>1, <2>2, <3>2 DEF JobOK
  <2> QED BY <2>1, <2>2
<1>3. NoOrphan'
  <2> SUFFICES ASSUME NEW e \in accounts' \ docs'
               PROVE  \/ \E w \in writes' : w.uid = e /\ w.by = e
                      \/ \E k \in 1..Len(jobs) : jobs'[k].email = e
                                                 /\ jobs'[k].step \in {"created", "signedUp"}
                      \/ e \in orphaned'
    BY <1>1 DEF NoOrphan
  <2>1. CASE e \in accounts
    <3>1. \/ \E w \in writes : w.uid = e /\ w.by = e
          \/ \E k \in 1..Len(jobs) : jobs[k].email = e
                                     /\ jobs[k].step \in {"created", "signedUp"}
          \/ e \in orphaned
      BY <1>1, <2>1 DEF AccountStep, IInv, NoOrphan
    <3>2. CASE \E w \in writes : w.uid = e /\ w.by = e
      BY <3>2 DEF AccountStep
    <3>3. CASE \E k \in 1..Len(jobs) : jobs[k].email = e
                                       /\ jobs[k].step \in {"created", "signedUp"}
      <4>1. PICK k \in 1..Len(jobs) : jobs[k].email = e
                                      /\ jobs[k].step \in {"created", "signedUp"}
        BY <3>3
      <4>2. CASE k # i
        BY <1>1, <4>1, <4>2
      <4>3. CASE k = i
        BY <1>1, <4>1, <4>3 DEF AccountStep
      <4> QED BY <4>2, <4>3
    <3>4. CASE e \in orphaned
      BY <3>4 DEF AccountStep
    <3> QED BY <3>1, <3>2, <3>3, <3>4
  <2>2. CASE e \notin accounts
    BY <1>1, <2>2 DEF AccountStep
  <2> QED BY <2>1, <2>2
<1> QED BY <1>2, <1>3

(* A request moves on.                                                     *)
LEMMA MoveInv ==
  ASSUME IInv, NEW i \in DOMAIN jobs, NEW s \in Steps, Move(i, s),
         AccountStep(i, s), ScreenStep(i),
         writes' \subseteq [uid : Emails, by : Emails \cup {Nobody}, job : {0} \cup DOMAIN jobs],
         WritesOK',
         main' \in Seq(Blocks(Len(jobs))), QueueOK(main', jobs', fs'),
         fs' \in Emails \cup {Nobody},
         current' \in accounts' \cup {Nobody},
         formless' \in BOOLEAN, alert' \in BOOLEAN, listening' \in BOOLEAN,
         due' \in BOOLEAN, rows' \in BOOLEAN,
         ListNeedsUser', hud' \in HudType(Alive')
  PROVE  IInv'
<1>1. /\ jobs' \in Seq(Jobs) /\ DOMAIN jobs = 1..Len(jobs) /\ DOMAIN jobs' = 1..Len(jobs)
  BY MoveShape DEF IInv, TypeOK
<1>2. main' \in Seq([kind : {"credential"}, user : Emails \cup {Nobody}]
                    \cup [kind : {"answer"}, job : DOMAIN jobs']
                    \cup {Form})
  BY <1>1 DEF Blocks
<1>3. /\ top' \in {"list", "auth", "profile", "users", "chat"}
      /\ chat' \in Views /\ opened' \in Views /\ transition' \in {"no", "runs", "logout"}
  BY DEF ScreenStep, IInv, TypeOK
<1>4. accounts' \subseteq Emails /\ docs' \subseteq Emails /\ orphaned' \subseteq Emails
  BY DEF AccountStep
<1>5. TypeOK'
  BY <1>1, <1>2, <1>3, <1>4 DEF TypeOK
<1> QED BY <1>5, MoveKeepsScreens, MoveKeepsAccounts DEF IInv

(* A request that no block waits for moves on.                             *)
LEMMA QueueQuiet ==
  ASSUME IInv, NEW i \in DOMAIN jobs, NEW s \in Steps, Move(i, s),
         jobs[i].step \notin Posted
  PROVE  QueueOK(main, jobs', fs) /\ Free(main, i)
<1>1. \A k \in DOMAIN jobs : k # i => jobs'[k] = jobs[k]
  BY MoveShape DEF IInv, TypeOK
<1>2. Free(main, i)
  BY DEF IInv, QueueOK, Free
<1>3. \A n \in 1..Len(main) : main[n].kind = "answer" =>
          main[n].job \in DOMAIN jobs /\ main[n].job # i
  BY <1>2, MainOf DEF Free
<1> QED BY <1>1, <1>2, <1>3, OtherJobs DEF IInv

(* No document waits for it.                                               *)
LEMMA WritesQuiet ==
  ASSUME IInv, NEW i \in DOMAIN jobs, NEW s \in Steps, Move(i, s),
         jobs[i].step # "document", writes' = writes
  PROVE  /\ WritesOK'
         /\ writes' \subseteq [uid : Emails, by : Emails \cup {Nobody}, job : {0} \cup DOMAIN jobs]
<1>1. \A k \in DOMAIN jobs : k # i => jobs'[k] = jobs[k]
  BY MoveShape DEF IInv, TypeOK
<1>2. \A w \in writes : w.job # 0 => w.job \in DOMAIN jobs /\ w.job # i
  BY DEF IInv, TypeOK, WritesOK
<1>3. WritesOK'
  BY <1>1, <1>2 DEF IInv, WritesOK
<1> QED BY <1>3 DEF IInv, TypeOK

(* Neither the main queue nor the user is touched.                         *)
LEMMA QuietMove ==
  ASSUME IInv, NEW i \in DOMAIN jobs, NEW s \in Steps, Move(i, s), AccountStep(i, s),
         UNCHANGED <<current, fs, writes, main, top, chat, opened, transition, formless>>,
         jobs[i].step \notin Posted, jobs[i].step # "document",
         alert' \in BOOLEAN, listening' \in BOOLEAN, due' \in BOOLEAN, rows' \in BOOLEAN,
         hud' \in HudType(Alive')
  PROVE  IInv'
<1>1. QueueOK(main', jobs', fs') /\ main' \in Seq(Blocks(Len(jobs)))
  BY QueueQuiet, MainOf
<1>2. /\ WritesOK'
      /\ writes' \subseteq [uid : Emails, by : Emails \cup {Nobody}, job : {0} \cup DOMAIN jobs]
  BY WritesQuiet
<1>3. ScreenStep(i)
  BY DEF ScreenStep
<1>4. ListNeedsUser'
  BY DEF IInv, ListNeedsUser, FormPosted
<1>5. /\ fs' \in Emails \cup {Nobody} /\ formless' \in BOOLEAN
      /\ current' \in accounts' \cup {Nobody}
  BY DEF IInv, TypeOK, AccountStep
<1> QED BY <1>1, <1>2, <1>3, <1>4, <1>5, MoveInv

(* An error is shown.                                                      *)
LEMMA RefusedShape ==
  ASSUME IInv, NEW i \in DOMAIN jobs, Refused(i)
  PROVE  /\ Move(i, "failed")
         /\ UNCHANGED <<top, chat, opened, transition, formless, listening, due, rows>>
         /\ alert' \in BOOLEAN /\ listening' \in BOOLEAN /\ due' \in BOOLEAN
         /\ rows' \in BOOLEAN
         /\ hud' \in HudType(Alive')
<1>1. hud' \in HudType(Alive')
  BY HudOf, LoaderType DEF Refused, IInv
<1>2. alert' \in BOOLEAN
  BY DEF Refused, IInv, TypeOK
<1>3. /\ Move(i, "failed")
      /\ UNCHANGED <<top, chat, opened, transition, formless, listening, due, rows>>
  BY DEF Refused, feed
<1> QED BY <1>1, <1>2, <1>3 DEF IInv, TypeOK

(* An error that is told right away.                                       *)
LEMMA FailsInv ==
  ASSUME IInv, NEW i \in DOMAIN jobs, Fails(i),
         jobs[i].step \in {"signIn", "photo", "create", "created"},
         orphaned \subseteq orphaned', orphaned' \subseteq Emails,
         jobs[i].step = "created" => jobs[i].email \in orphaned'
  PROVE  IInv'
<1>1. PICK s \in Steps : s = "failed"
  BY DEF Steps
<1>2. /\ Move(i, s)
      /\ UNCHANGED <<accounts, docs, current, fs, writes, main>>
      /\ UNCHANGED <<top, chat, opened, transition, formless>>
      /\ alert' \in BOOLEAN /\ listening' \in BOOLEAN /\ due' \in BOOLEAN
      /\ rows' \in BOOLEAN
      /\ hud' \in HudType(Alive')
  BY <1>1, RefusedShape DEF Fails, server, session
<1>3. AccountStep(i, s)
  <2>1. Fits(jobs[i].kind, jobs[i].email, s, accounts, docs)
    BY <1>1, JobOf DEF Fits
  <2> QED BY <1>1, <1>2, <2>1 DEF AccountStep, IInv, TypeOK
<1>4. jobs[i].step \notin Posted /\ jobs[i].step # "document"
  BY DEF Posted
<1> QED BY <1>2, <1>3, <1>4, QuietMove

LEMMA SignInRefusedInv ==
  ASSUME IInv, NEW i \in DOMAIN jobs, SignInRefused(i)
  PROVE  IInv'
BY FailsInv DEF SignInRefused, IInv, TypeOK

LEMMA CreatedUnheardInv ==
  ASSUME IInv, NEW i \in DOMAIN jobs, CreatedUnheard(i)
  PROVE  IInv'
<1>1. /\ jobs[i].step = "created" /\ orphaned' = orphaned \cup {jobs[i].email} /\ Fails(i)
  BY DEF CreatedUnheard
<1>2. jobs[i].email \in Emails
  BY <1>1, JobOf DEF Fits, Forms
<1>3. orphaned' \subseteq Emails
  BY <1>1, <1>2 DEF IInv, TypeOK
<1> QED BY <1>1, <1>3, FailsInv

(* Registration goes on; what the loader covers stays.                     *)
LEMMA NextRequestInv ==
  ASSUME IInv, NEW i \in DOMAIN jobs, NEW s \in {"url", "create", "created", "silent"},
         Move(i, s), jobs[i].step \in {"photo", "url", "create"},
         IF s = "created" THEN accounts' = accounts \cup {jobs[i].email}
                          ELSE accounts' = accounts,
         UNCHANGED <<docs, current, fs, writes, main, screens, feed, orphaned>>,
         Loader(hud) \/ (hud' = hud /\ s # "silent")
  PROVE  IInv'
<1>0. s \in Steps
  BY DEF Steps
<1>1. /\ UNCHANGED <<top, chat, opened, transition, formless>>
      /\ alert' \in BOOLEAN /\ listening' \in BOOLEAN /\ due' \in BOOLEAN
      /\ rows' \in BOOLEAN
  BY DEF screens, feed, IInv, TypeOK
<1>2. AccountStep(i, s)
  <2>1. jobs[i].kind = "register" /\ jobs[i].email \in Emails
    BY JobOf DEF Fits, Forms
  <2>2. Fits(jobs[i].kind, jobs[i].email, s, accounts', docs')
    BY <2>1 DEF Fits
  <2> QED BY <2>1, <2>2 DEF AccountStep, IInv, TypeOK
<1>3. hud' \in HudType(Alive')
  <2>1. CASE Loader(hud)
    BY <2>1, HudOf, LoaderType DEF IInv
  <2>2. CASE hud' = hud /\ s # "silent"
    <3>1. s \notin {"done", "failed", "silent"}
      BY <2>2
    <3>2. hud \in HudType(Alive')
      BY <1>0, <1>1, <3>1, AliveKept
    <3> QED BY <2>2, <3>2
  <2> QED BY <2>1, <2>2
<1>4. jobs[i].step \notin Posted /\ jobs[i].step # "document"
  BY DEF Posted
<1> QED BY <1>0, <1>1, <1>2, <1>3, <1>4, QuietMove

LEMMA RegistrationInv ==
  ASSUME IInv, NEW i \in DOMAIN jobs, PhotoStored(i) \/ UrlAnswer(i) \/ Create(i)
  PROVE  IInv'
<1>1. CASE PhotoStored(i)
  <2>1. CASE Fails(i)
    BY <1>1, <2>1, FailsInv DEF PhotoStored, IInv, TypeOK
  <2>2. CASE Move(i, "url") /\ UNCHANGED <<server, session, writes, main, screens, hud, feed>>
    BY <1>1, <2>2, NextRequestInv DEF PhotoStored, server, session
  <2> QED BY <1>1, <2>1, <2>2 DEF PhotoStored
<1>2. CASE UrlAnswer(i)
  BY <1>2, NextRequestInv DEF UrlAnswer, server, session
<1>3. CASE Create(i)
  <2>1. CASE Fails(i)
    BY <1>3, <2>1, FailsInv DEF Create, IInv, TypeOK
  <2>2. CASE /\ accounts' = accounts \cup {jobs[i].email} /\ Move(i, "created")
             /\ UNCHANGED <<docs, session, writes, main, screens, hud, feed>>
    BY <1>3, <2>2, NextRequestInv DEF Create, session
  <2> QED BY <1>3, <2>1, <2>2 DEF Create
<1> QED BY <1>1, <1>2, <1>3

(* What the other screens asked for.                                       *)
LEMMA FetchAnswerInv ==
  ASSUME IInv, NEW i \in DOMAIN jobs, FetchAnswer(i) \/ ChatAnswer(i)
  PROVE  IInv'
<1>1. jobs[i].kind \in Opened
  BY JobOf DEF FetchAnswer, ChatAnswer, Fits, Opened
<1>2. jobs[i].step \notin Posted /\ jobs[i].step \notin {"document", "created", "signedUp"}
  BY <1>1, JobOf DEF Fits, Posted, Opened
<1>3. PICK s \in {"done", "silent"} : Move(i, s) /\ (Loader(hud) \/ Loader(Dismiss(hud)))
  BY DEF FetchAnswer, ChatAnswer
<1>4. UNCHANGED <<accounts, docs, current, fs, writes, main, top, chat, opened,
                  transition, formless, alert, listening, due, rows, orphaned>>
  BY DEF FetchAnswer, ChatAnswer, server, session, screens, feed
<1>5. hud' \in HudType(Alive')
  BY <1>3, HudOf, LoaderType DEF IInv
<1>6. AccountStep(i, s)
  <2>1. Fits(jobs[i].kind, jobs[i].email, s, accounts, docs)
    BY <1>1 DEF Fits, Opened, Forms
  <2> QED BY <1>2, <1>4, <2>1 DEF AccountStep, IInv, TypeOK
<1>7. s \in Steps
  BY DEF Steps
<1>8. alert' \in BOOLEAN /\ listening' \in BOOLEAN /\ due' \in BOOLEAN /\ rows' \in BOOLEAN
  BY <1>4 DEF IInv, TypeOK
<1> QED BY <1>2, <1>3, <1>4, <1>5, <1>6, <1>7, <1>8, QuietMove

(* Auth has a new user, and posts what follows.                            *)
LEMMA AuthenticatedInv ==
  ASSUME IInv, NEW i \in DOMAIN jobs, SignIn(i) \/ SignUp(i)
  PROVE  IInv'
<1>1. PICK s \in {"signedIn", "signedUp"} :
        /\ Authenticated(i, s)
        /\ \/ s = "signedIn" /\ jobs[i].step = "signIn" /\ jobs[i].email \in accounts
           \/ s = "signedUp" /\ jobs[i].step = "created"
  BY DEF SignIn, SignUp
<1>2. /\ jobs[i].kind \in Forms /\ jobs[i].email \in Emails /\ jobs[i].email \in accounts
      /\ s = "signedUp" => jobs[i].kind = "register"
      /\ s = "signedIn" => jobs[i].kind = "login"
      /\ i \in 1..Len(jobs)
  BY <1>1, JobOf DEF Fits, Forms
<1>3. /\ current' = jobs[i].email /\ Move(i, s)
      /\ main' = main \o <<Credential(jobs[i].email), Answer(i)>>
      /\ UNCHANGED <<accounts, docs, fs, writes, top, chat, opened, transition, formless,
                     alert, hud, listening, due, rows, orphaned>>
  BY <1>1 DEF Authenticated, server, screens, feed
<1>4. s \in Steps /\ s \in Posted /\ s # "created"
      /\ s \notin {"done", "failed", "silent"}
      /\ jobs[i].step \notin Posted /\ jobs[i].step # "document"
  BY <1>1 DEF Steps, Posted
<1>5. AccountStep(i, s)
  <2>1. Fits(jobs[i].kind, jobs[i].email, s, accounts, docs)
    BY <1>1, <1>2 DEF Fits
  <2> QED BY <1>1, <1>3, <2>1 DEF AccountStep, IInv, TypeOK
<1>6. ScreenStep(i)
  BY <1>2, <1>3 DEF ScreenStep
<1>7. /\ WritesOK'
      /\ writes' \subseteq [uid : Emails, by : Emails \cup {Nobody}, job : {0} \cup DOMAIN jobs]
  BY <1>3, <1>4, WritesQuiet
<1>8. hud' \in HudType(Alive')
  <2>1. hud \in HudType(Alive')
    BY <1>3, <1>4, AliveKept
  <2> QED BY <1>3, <2>1
<1> DEFINE B == Blocks(Len(jobs))
           c == Credential(jobs[i].email)
           q == Append(main, c)
<1>9. /\ main \in Seq(B) /\ Answer(i) \in B /\ c \in B
      /\ c.kind = "credential"
  BY <1>2, MainOf, BlockTypes, BlockKinds
<1> HIDE DEF B, c
<1>10. /\ q \in Seq(B) /\ Len(q) = Len(main) + 1 /\ Len(main) \in Nat /\ q[Len(q)] = c
       /\ \A n \in 1..Len(main) : q[n] = main[n]
       /\ \A n \in 1..Len(q) : n \in 1..Len(main) \/ n = Len(q)
  BY <1>9, PushShape
<1>11. /\ QueueOK(main, jobs', fs) /\ Free(main, i)
  BY <1>3, <1>4, QueueQuiet
<1>12. QueueOK(q, jobs', fs)
  BY <1>9, <1>11, PushPlain
<1>13. Free(q, i)
  BY <1>9, <1>10, <1>11 DEF Free
<1>14. jobs'[i].step = s /\ jobs'[i].email = jobs[i].email
  BY <1>2, <1>3, <1>4, MoveShape DEF IInv, TypeOK
<1>15. main' = Append(q, Answer(i)) /\ main' \in Seq(B)
  <2>1. main' = Append(q, Answer(i))
    BY <1>3, <1>9 DEF c
  <2> HIDE DEF q
  <2> QED BY <1>9, <1>10, <2>1, PushShape
<1>16. Len(q) > 0
  BY <1>10
<1> HIDE DEF q
<1>17. QueueOK(main', jobs', fs')
  <2>1. jobs'[i].step = "signedUp" => Len(q) > 0 /\ q[Len(q)] = Credential(jobs'[i].email)
    BY <1>10, <1>14, <1>16 DEF c
  <2>2. QueueOK(Append(q, Answer(i)), jobs', fs)
    BY <1>4, <1>9, <1>10, <1>12, <1>13, <1>14, <2>1, PushAnswer
  <2> QED BY <1>3, <1>15, <2>2
<1>18. ListNeedsUser'
  BY <1>2, <1>3, NobodyAssumption DEF ListNeedsUser
<1>19. /\ fs' \in Emails \cup {Nobody} /\ current' \in accounts' \cup {Nobody}
       /\ formless' \in BOOLEAN /\ alert' \in BOOLEAN /\ listening' \in BOOLEAN
       /\ due' \in BOOLEAN /\ rows' \in BOOLEAN
  BY <1>2, <1>3 DEF IInv, TypeOK
<1>20. main' \in Seq(Blocks(Len(jobs)))
  BY <1>15 DEF B
<1> QED BY <1>3, <1>4, <1>5, <1>6, <1>7, <1>8, <1>17, <1>18, <1>19, <1>20, MoveInv

-----------------------------------------------------------------------------
(***************************************************************************)
(* Completions on the main queue.                                          *)
(***************************************************************************)
(* What is left of the queue after the completion of request i.            *)
LEMMA AnswerRuns ==
  ASSUME IInv, NEW i \in DOMAIN jobs, NEW s \in Steps, Move(i, s), Runs(Answer(i))
  PROVE  /\ jobs[i].step \in Posted
         /\ jobs[i].step = "signedUp" => fs = jobs[i].email
         /\ Tail(main) \in Seq(Blocks(Len(jobs)))
         /\ QueueOK(Tail(main), jobs', fs)
         /\ FormPosted => HasForm(Tail(main))
<1> DEFINE B == Blocks(Len(jobs))
<1>1. main \in Seq(B) /\ main # <<>> /\ Head(main) = Answer(i) /\ QueueOK(main, jobs, fs)
  BY MainOf DEF Runs
<1>2. Answer(i).kind = "answer" /\ Answer(i).kind # Form.kind
  BY BlockKinds
<1> HIDE DEF B
<1>3. Head(main) = main[1] /\ Tail(main) \in Seq(B)
  BY <1>1, PopShape
<1>4. /\ Free(Tail(main), i) /\ jobs[i].step \in Posted
      /\ jobs[i].step = "signedUp" => fs = jobs[i].email
  BY <1>1, PoppedFree
<1>5. QueueOK(Tail(main), jobs, fs)
  <2>1. main[1].kind # "credential"
    BY <1>1, <1>2, <1>3
  <2> QED BY <1>1, <2>1, Popped
<1>6. QueueOK(Tail(main), jobs', fs)
  <2>1. \A k \in DOMAIN jobs : k # i => jobs'[k] = jobs[k]
    BY MoveShape DEF IInv, TypeOK
  <2>2. \A n \in 1..Len(Tail(main)) : Tail(main)[n].kind = "answer" =>
            Tail(main)[n].job \in DOMAIN jobs /\ Tail(main)[n].job # i
    <3>1. \A n \in 1..Len(Tail(main)) : Tail(main)[n] \in B
      BY <1>3, ElementOfSeq
    <3>2. \A b \in B : b.kind = "answer" => b.job \in DOMAIN jobs
      BY MainOf, BlockTypes DEF B
    <3> QED BY <1>4, <3>1, <3>2 DEF Free
  <2> QED BY <1>5, <2>1, <2>2, OtherJobs
<1>7. FormPosted => HasForm(Tail(main))
  <2>1. Head(main) # Form
    BY <1>1, <1>2
  <2> QED BY <1>1, <2>1, FormStays, MainOf
<1> QED BY <1>3, <1>4, <1>6, <1>7 DEF B

(* The list is entered.                                                    *)
LEMMA EnterShape ==
  ASSUME IInv, NEW i \in DOMAIN jobs, Enter(i), Runs(Answer(i)), UNCHANGED <<current, fs>>
  PROVE  /\ Move(i, "done") /\ ScreenStep(i)
         /\ main' \in Seq(Blocks(Len(jobs))) /\ QueueOK(main', jobs', fs')
         /\ ListNeedsUser'
         /\ formless' \in BOOLEAN /\ alert' \in BOOLEAN /\ listening' \in BOOLEAN
         /\ due' \in BOOLEAN /\ rows' \in BOOLEAN
         /\ hud' \in HudType(Alive')
<1>1. PICK s \in Steps : s = "done"
  BY DEF Steps
<1>2. Move(i, s) /\ main' = Tail(main) \o FormFor(current) /\ fs' = fs
  BY <1>1 DEF Enter
<1>3. /\ Tail(main) \in Seq(Blocks(Len(jobs)))
      /\ QueueOK(Tail(main), jobs', fs)
      /\ FormPosted => HasForm(Tail(main))
  BY <1>2, AnswerRuns
<1>4. ScreenStep(i)
  <2>1. UNCHANGED <<opened, chat, current>>
    BY DEF Enter, DismissPresented
  <2>2. \/ UNCHANGED <<top, transition>>
        \/ top' = "list" /\ transition' = "runs" /\ chat = 0
        \/ top' = "chat" /\ top # "chat" /\ chat # 0 /\ transition' = "runs"
    BY DEF Enter, DismissPresented
  <2> QED BY <2>1, <2>2 DEF ScreenStep
<1>5. alert' \in BOOLEAN /\ formless' = formless /\ formless' \in BOOLEAN
  BY DEF Enter, DismissPresented, IInv, TypeOK
<1>6. listening' \in BOOLEAN /\ due' \in BOOLEAN /\ rows' \in BOOLEAN
  BY DEF Enter, FetchConversations, IInv, TypeOK
<1>7. hud' \in HudType(Alive')
  <2>1. ShowIn(Dismiss(hud), 0) \in HudType(Nat)
    BY HudOf DEF IInv
  <2> QED BY <2>1, LoaderType DEF Enter, FetchConversations
<1> DEFINE B == Blocks(Len(jobs))
           q == Tail(main)
<1>8. q \in Seq(B) /\ Form \in B /\ Form.kind # "answer"
  BY <1>3, MainOf, BlockTypes, BlockKinds
<1>9. /\ main' \in Seq(B) /\ QueueOK(main', jobs', fs')
      /\ current = Nobody => HasForm(main')
  <2>1. QueueOK(q, jobs', fs) /\ (current # Nobody => main' = q \o <<>>)
        /\ (current = Nobody => main' = q \o <<Form>>)
    BY <1>2, <1>3 DEF FormFor
  <2> HIDE DEF q, B
  <2>2. q \o <<>> = q /\ q \o <<Form>> = Append(q, Form) /\ Append(q, Form) \in Seq(B)
    BY <1>8, PushShape
  <2>3. QueueOK(Append(q, Form), jobs', fs) /\ HasForm(Append(q, Form))
    BY <1>8, <2>1, PushPlain, FormPushed
  <2> QED BY <1>2, <1>8, <2>1, <2>2, <2>3
<1>10. ListNeedsUser'
  BY <1>9 DEF ListNeedsUser, FormPosted, HasForm
<1> QED BY <1>1, <1>2, <1>4, <1>5, <1>6, <1>7, <1>9, <1>10

(* A completion lets the user in.                                          *)
LEMMA EnteredInv ==
  ASSUME IInv, NEW i \in DOMAIN jobs, SignInAnswer(i) \/ (DocumentAnswer(i) /\ Enter(i)),
         jobs[i].step \in {"signedIn", "stored"}
  PROVE  IInv'
<1>1. PICK s \in Steps : s = "done"
  BY DEF Steps
<1>2. /\ Enter(i) /\ Runs(Answer(i))
      /\ UNCHANGED <<accounts, docs, current, fs, writes, orphaned>>
  BY DEF SignInAnswer, DocumentAnswer, server, session
<1>3. /\ Move(i, s) /\ ScreenStep(i)
      /\ main' \in Seq(Blocks(Len(jobs))) /\ QueueOK(main', jobs', fs')
      /\ ListNeedsUser'
      /\ formless' \in BOOLEAN /\ alert' \in BOOLEAN /\ listening' \in BOOLEAN
      /\ due' \in BOOLEAN /\ rows' \in BOOLEAN
      /\ hud' \in HudType(Alive')
  BY <1>1, <1>2, EnterShape
<1>4. /\ WritesOK'
      /\ writes' \subseteq [uid : Emails, by : Emails \cup {Nobody}, job : {0} \cup DOMAIN jobs]
  BY <1>2, <1>3, WritesQuiet
<1>5. AccountStep(i, s)
  <2>1. Fits(jobs[i].kind, jobs[i].email, s, accounts, docs)
    BY <1>1, JobOf DEF Fits
  <2> QED BY <1>2, <2>1 DEF AccountStep, IInv, TypeOK
<1>6. fs' \in Emails \cup {Nobody} /\ current' \in accounts' \cup {Nobody}
  BY <1>2 DEF IInv, TypeOK
<1> QED BY <1>3, <1>4, <1>5, <1>6, MoveInv

(* A completion shows the server's refusal.                                *)
LEMMA RejectedInv ==
  ASSUME IInv, NEW i \in DOMAIN jobs, DocumentAnswer(i), Refused(i),
         jobs[i].step = "rejected", main' = Tail(main)
  PROVE  IInv'
<1>1. PICK s \in Steps : s = "failed"
  BY DEF Steps
<1>2. /\ Runs(Answer(i))
      /\ UNCHANGED <<accounts, docs, current, fs, writes, orphaned>>
  BY DEF DocumentAnswer, server, session
<1>3. /\ Move(i, s)
      /\ UNCHANGED <<top, chat, opened, transition, formless, listening, due, rows>>
      /\ alert' \in BOOLEAN /\ listening' \in BOOLEAN /\ due' \in BOOLEAN
      /\ rows' \in BOOLEAN
      /\ hud' \in HudType(Alive')
  BY <1>1, RefusedShape
<1>4. /\ main' \in Seq(Blocks(Len(jobs))) /\ QueueOK(main', jobs', fs')
      /\ FormPosted => HasForm(main')
  BY <1>2, <1>3, AnswerRuns
<1>5. /\ WritesOK'
      /\ writes' \subseteq [uid : Emails, by : Emails \cup {Nobody}, job : {0} \cup DOMAIN jobs]
  BY <1>2, <1>3, WritesQuiet
<1>6. AccountStep(i, s)
  <2>1. Fits(jobs[i].kind, jobs[i].email, s, accounts, docs)
    BY <1>1, JobOf DEF Fits
  <2> QED BY <1>2, <2>1 DEF AccountStep, IInv, TypeOK
<1>7. ListNeedsUser'
  BY <1>2, <1>3, <1>4 DEF IInv, ListNeedsUser, FormPosted, HasForm
<1>8. /\ ScreenStep(i) /\ fs' \in Emails \cup {Nobody} /\ current' \in accounts' \cup {Nobody}
      /\ formless' \in BOOLEAN
  BY <1>2, <1>3 DEF ScreenStep, IInv, TypeOK
<1> QED BY <1>3, <1>4, <1>5, <1>6, <1>7, <1>8, MoveInv

(* The document of a new account goes into its own write queue.            *)
LEMMA CreatedInv ==
  ASSUME IInv, NEW i \in DOMAIN jobs, Created(i)
  PROVE  IInv'
<1>1. PICK s \in Steps : s = "document"
  BY DEF Steps
<1>2. /\ jobs[i].step = "signedUp" /\ Runs(Answer(i)) /\ Move(i, s) /\ main' = Tail(main)
      /\ writes' = writes \cup {Document(i, i)}
      /\ UNCHANGED <<accounts, docs, current, fs, top, chat, opened, transition, formless,
                     alert, hud, listening, due, rows, orphaned>>
  BY <1>1 DEF Created, server, session, screens, feed
<1>3. /\ main' \in Seq(Blocks(Len(jobs))) /\ QueueOK(main', jobs', fs')
      /\ FormPosted => HasForm(main')
      /\ fs = jobs[i].email
  BY <1>2, AnswerRuns
<1>4. jobs[i].kind = "register" /\ jobs[i].email \in Emails /\ i \in 1..Len(jobs)
  BY <1>2, JobOf DEF Fits, Forms
<1> DEFINE d == Document(i, i)
<1>5. /\ d.uid = jobs[i].email /\ d.by = jobs[i].email /\ d.job = i
      /\ d \in [uid : Emails, by : Emails \cup {Nobody}, job : {0} \cup DOMAIN jobs]
  <2>1. fs = jobs[i].email
    BY <1>3
  <2>2. d = [uid |-> jobs[i].email, by |-> fs, job |-> i]
    BY DEF Document
  <2> HIDE DEF d
  <2> QED BY <1>4, <2>1, <2>2
<1>6. writes' = writes \cup {d}
  BY <1>2
<1> HIDE DEF d
<1>7. /\ jobs'[i].step = s /\ jobs'[i].email = jobs[i].email
      /\ \A k \in DOMAIN jobs : k # i => jobs'[k] = jobs[k]
  BY <1>2, <1>4, MoveShape DEF IInv, TypeOK
<1>8. \A w \in writes : w.job # 0 => w.job \in DOMAIN jobs /\ w.job # i
  BY <1>2 DEF IInv, TypeOK, WritesOK
<1>9. WritesOK'
  <2> SUFFICES ASSUME NEW w \in writes', w.job # 0
               PROVE  /\ jobs'[w.job].step = "document" /\ jobs'[w.job].email = w.uid
                      /\ \A v \in writes' : v.job = w.job => v = w
    BY DEF WritesOK
  <2>1. CASE w \in writes
    BY <1>5, <1>6, <1>7, <1>8, <2>1 DEF IInv, WritesOK
  <2>2. CASE w = d
    BY <1>1, <1>4, <1>5, <1>6, <1>7, <1>8, <2>2, JobOf
  <2> QED BY <1>6, <2>1, <2>2
<1>10. writes' \subseteq [uid : Emails, by : Emails \cup {Nobody}, job : {0} \cup DOMAIN jobs]
  BY <1>5, <1>6 DEF IInv, TypeOK
<1>11. AccountStep(i, s)
  <2>1. Fits(jobs[i].kind, jobs[i].email, s, accounts, docs)
    BY <1>1, <1>4 DEF Fits
  <2> QED BY <1>2, <1>5, <1>6, <2>1 DEF AccountStep, IInv, TypeOK
<1>12. hud' \in HudType(Alive')
  <2>1. hud \in HudType(Alive')
    BY <1>1, <1>2, AliveKept
  <2> QED BY <1>2, <2>1
<1>13. ListNeedsUser'
  BY <1>2, <1>3 DEF IInv, ListNeedsUser, FormPosted, HasForm
<1>14. /\ ScreenStep(i) /\ fs' \in Emails \cup {Nobody} /\ current' \in accounts' \cup {Nobody}
       /\ formless' \in BOOLEAN /\ alert' \in BOOLEAN /\ listening' \in BOOLEAN
       /\ due' \in BOOLEAN /\ rows' \in BOOLEAN
  BY <1>2 DEF ScreenStep, IInv, TypeOK
<1> QED BY <1>2, <1>3, <1>9, <1>10, <1>11, <1>12, <1>13, <1>14, MoveInv

LEMMA CompletionInv ==
  ASSUME IInv, NEW i \in DOMAIN jobs, SignInAnswer(i) \/ Created(i) \/ DocumentAnswer(i)
  PROVE  IInv'
<1>1. CASE SignInAnswer(i)
  BY <1>1, EnteredInv DEF SignInAnswer
<1>2. CASE Created(i)
  BY <1>2, CreatedInv
<1>3. CASE DocumentAnswer(i)
  <2>1. CASE jobs[i].step = "stored" /\ Enter(i)
    BY <1>3, <2>1, EnteredInv
  <2>2. CASE jobs[i].step = "rejected" /\ Refused(i) /\ main' = Tail(main)
    BY <1>3, <2>2, RejectedInv
  <2> QED BY <1>3, <2>1, <2>2 DEF DocumentAnswer
<1> QED BY <1>1, <1>2, <1>3

-----------------------------------------------------------------------------
(***************************************************************************)
(* Documents.                                                              *)
(***************************************************************************)
(* The server takes a document, or refuses it, and its completion is       *)
(* posted.                                                                 *)
LEMMA AnsweredWriteInv ==
  ASSUME IInv, NEW w \in writes, WriteDocument(w) \/ RefuseDocument(w), w.job # 0
  PROVE  IInv'
<1> DEFINE i == w.job
<1>1. /\ i \in DOMAIN jobs /\ jobs[i].step = "document" /\ jobs[i].email = w.uid
      /\ \A v \in writes : v.job = i => v = w
  BY DEF IInv, WritesOK, TypeOK
<1>2. w.uid \in Emails
  BY DEF IInv, TypeOK
<1>3. PICK s \in {"stored", "rejected"} :
        /\ Leaves(w, s)
        /\ IF s = "stored" THEN docs' = docs \cup {w.uid} /\ orphaned' = orphaned
                           ELSE docs' = docs /\ orphaned' = orphaned \cup {w.uid}
  BY DEF WriteDocument, RefuseDocument
<1>4. /\ Move(i, s) /\ main' = Append(main, Answer(i)) /\ writes' = writes \ {w}
      /\ UNCHANGED <<accounts, current, fs, top, chat, opened, transition, formless,
                     alert, hud, listening, due, rows>>
  BY <1>3 DEF Leaves, session, screens, feed
<1> HIDE DEF i
<1>5. /\ s \in Steps /\ s \in Posted /\ s # "created" /\ s # "signedUp"
      /\ s \notin {"done", "failed", "silent"} /\ jobs[i].step \notin Posted
  BY <1>1 DEF Steps, Posted
<1>6. /\ jobs'[i].step = s
      /\ \A k \in DOMAIN jobs : k # i => jobs'[k] = jobs[k]
  BY <1>1, <1>4, <1>5, MoveShape DEF IInv, TypeOK
<1>7. WritesOK'
  <2> SUFFICES ASSUME NEW v \in writes', v.job # 0
               PROVE  /\ jobs'[v.job].step = "document" /\ jobs'[v.job].email = v.uid
                      /\ \A u \in writes' : u.job = v.job => u = v
    BY DEF WritesOK
  <2>1. v \in writes /\ v # w /\ v.job # i /\ v.job \in DOMAIN jobs
    BY <1>1, <1>4 DEF IInv, TypeOK
  <2> QED BY <1>4, <1>6, <2>1 DEF IInv, WritesOK
<1>8. writes' \subseteq [uid : Emails, by : Emails \cup {Nobody}, job : {0} \cup DOMAIN jobs]
  BY <1>4 DEF IInv, TypeOK
<1>9. AccountStep(i, s)
  <2>1. jobs[i].kind = "register"
    BY <1>1, JobOf DEF Fits
  <2>2. docs \subseteq docs' /\ docs' \subseteq Emails
        /\ orphaned \subseteq orphaned' /\ orphaned' \subseteq Emails
        /\ w.uid \in docs' \cup orphaned' /\ (s = "stored" => w.uid \in docs')
    BY <1>2, <1>3 DEF IInv, TypeOK
  <2>3. Fits(jobs[i].kind, jobs[i].email, s, accounts', docs')
    BY <1>1, <1>2, <1>3, <1>5, <2>1, <2>2 DEF Fits
  <2>4. \A v \in writes : v \in writes' \/ v.uid \in docs' \cup orphaned'
    BY <1>4, <2>2
  <2> QED BY <1>1, <1>4, <2>2, <2>3, <2>4 DEF AccountStep, IInv, TypeOK
<1>10. QueueOK(main', jobs', fs') /\ main' \in Seq(Blocks(Len(jobs)))
  <2>1. QueueOK(main, jobs', fs) /\ Free(main, i)
    BY <1>1, <1>4, <1>5, QueueQuiet
  <2>2. Answer(i) \in Blocks(Len(jobs)) /\ main \in Seq(Blocks(Len(jobs)))
    BY <1>1, MainOf, BlockTypes
  <2>3. QueueOK(Append(main, Answer(i)), jobs', fs)
    BY <1>5, <1>6, <2>1, <2>2, PushAnswer
  <2>4. Append(main, Answer(i)) \in Seq(Blocks(Len(jobs)))
    BY <2>2, PushShape
  <2> QED BY <1>4, <2>3, <2>4
<1>11. ListNeedsUser'
  <2>1. FormPosted => HasForm(main')
    <3>1. Answer(i) \in Blocks(Len(jobs)) /\ main \in Seq(Blocks(Len(jobs)))
          /\ FormPosted = HasForm(main)
      BY <1>1, MainOf, BlockTypes
    <3> QED BY <1>4, <3>1, FormPushed
  <2> QED BY <1>4, <2>1 DEF IInv, ListNeedsUser, FormPosted, HasForm
<1>12. hud' \in HudType(Alive')
  <2>1. hud \in HudType(Alive')
    BY <1>1, <1>4, <1>5, AliveKept
  <2> QED BY <1>4, <2>1
<1>13. /\ ScreenStep(i) /\ fs' \in Emails \cup {Nobody} /\ current' \in accounts' \cup {Nobody}
       /\ formless' \in BOOLEAN /\ alert' \in BOOLEAN /\ listening' \in BOOLEAN
       /\ due' \in BOOLEAN /\ rows' \in BOOLEAN
  BY <1>4 DEF ScreenStep, IInv, TypeOK
<1> QED BY <1>1, <1>4, <1>5, <1>7, <1>8, <1>9, <1>10, <1>11, <1>12, <1>13, MoveInv

(* What is alive where neither requests nor screens change.                *)
LEMMA AliveSame ==
  ASSUME TypeOK, UNCHANGED <<jobs, top, chat, opened>>
  PROVE  /\ View' = View
         /\ hud \in HudType(Alive') /\ Dismiss(hud) \in HudType(Alive')
         /\ EndAnimation(hud) \in HudType(Alive')
<1>1. View' = View
  BY DEF View
<1>2. Alive' = Alive
  BY <1>1 DEF Alive
<1>3. Alive \subseteq Nat /\ hud \in HudType(Alive)
  BY AliveViews DEF TypeOK, Views
<1>4. Dismiss(hud) \in HudType(Alive) /\ EndAnimation(hud) \in HudType(Alive)
  BY <1>3, HudCalls
<1> QED BY <1>1, <1>2, <1>3, <1>4

(* A write from before a kill leaves its queue unheard.                    *)
LEMMA UnheardWriteInv ==
  ASSUME IInv, NEW w \in writes, WriteDocument(w) \/ RefuseDocument(w), w.job = 0
  PROVE  IInv'
<1>1. /\ writes' = writes \ {w}
      /\ UNCHANGED <<accounts, current, fs, main, jobs, top, chat, opened, transition,
                     formless, alert, hud, listening, due, rows>>
  BY DEF WriteDocument, RefuseDocument, Leaves, session, screens, feed
<1>2. /\ docs \subseteq docs' /\ docs' \subseteq Emails
      /\ orphaned \subseteq orphaned' /\ orphaned' \subseteq Emails
      /\ w.uid \in docs' \cup orphaned'
  BY DEF WriteDocument, RefuseDocument, IInv, TypeOK
<1>3. TypeOK'
  <2>1. hud' \in HudType(Alive')
    BY <1>1, AliveSame DEF IInv
  <2> QED BY <1>1, <1>2, <2>1 DEF IInv, TypeOK
<1>4. JobsOK'
  BY <1>1, <1>2 DEF IInv, JobsOK, JobOK, Fits
<1>5. QueueOK(main', jobs', fs') /\ WritesOK'
  BY <1>1 DEF IInv, WritesOK
<1>6. ScreensOK' /\ ListNeedsUser'
  BY <1>1 DEF IInv, ScreensOK, ChatBelow, LogoutOverList, ScreenJob, LastOwner, View,
              ListNeedsUser, FormPosted
<1>7. NoOrphan'
  BY <1>1, <1>2 DEF IInv, NoOrphan
<1> QED BY <1>3, <1>4, <1>5, <1>6, <1>7 DEF IInv

-----------------------------------------------------------------------------
(***************************************************************************)
(* Steps of the user.                                                      *)
(***************************************************************************)
(* What is begun: on a form, or with the screen that is opened for it.     *)
OnForm(kind, email, step) ==
  /\ <<kind, step>> \in {<<"login", "signIn">>, <<"register", "photo">>}
  /\ email \in Emails /\ top = "auth"
  /\ UNCHANGED <<top, chat, opened, transition>>

OnScreen(kind, email, step) ==
  /\ kind \in Opened /\ step \in {"fetch", "silent"}
  /\ email = current /\ top # "auth"
  /\ top' = kind /\ opened' = opened + 1
  /\ transition' \in {"no", "runs"}
  /\ IF kind = "chat" THEN chat' = opened' ELSE chat' = chat

(* A request is begun.                                                     *)
LEMMA BeginInv ==
  ASSUME IInv, NEW kind, NEW email, NEW step,
         Ask(kind, email, step),
         OnForm(kind, email, step) \/ OnScreen(kind, email, step),
         UNCHANGED <<accounts, docs, current, fs, writes, main, formless, alert,
                     listening, due, rows, orphaned>>,
         hud' \in HudType(Alive')
  PROVE  IInv'
<1> DEFINE j == [kind |-> kind, email |-> email, step |-> step, view |-> View']
           n == Len(jobs)
<1>1. /\ chat \in Nat /\ opened \in Nat /\ current \in Emails \cup {Nobody}
      /\ chat' \in Nat /\ opened' \in Nat
  BY DEF OnForm, OnScreen, IInv, TypeOK, Views
<1>2. View' \in Nat
  BY <1>1 DEF View
<1>3. /\ kind \in Kinds /\ step \in Steps /\ email \in Emails \cup {Nobody}
      /\ kind \in Forms => email \in Emails
      /\ Fits(kind, email, step, accounts, docs)
  BY <1>1 DEF OnForm, OnScreen, Kinds, Steps, Fits, Forms, Opened
<1>4. /\ j \in Jobs
      /\ j.kind = kind /\ j.email = email /\ j.step = step /\ j.view = View'
  <2> DEFINE r(v) == [kind |-> kind, email |-> email, step |-> step, view |-> v]
  <2>1. \A v \in Nat : /\ r(v) \in Jobs
                      /\ r(v).kind = kind /\ r(v).email = email
                      /\ r(v).step = step /\ r(v).view = v
    BY <1>3 DEF Jobs, Views
  <2>2. j = r(View')
    OBVIOUS
  <2> HIDE DEF r
  <2> QED BY <1>2, <2>1, <2>2
<1>5. jobs' = Append(jobs, j)
  BY DEF Ask
<1> HIDE DEF j
<1>6. /\ jobs' \in Seq(Jobs) /\ n \in Nat /\ Len(jobs') = n + 1
      /\ DOMAIN jobs = 1..n /\ DOMAIN jobs' = 1..(n + 1)
      /\ jobs'[n + 1] = j
      /\ \A k \in 1..n : jobs'[k] = jobs[k]
  BY <1>4, <1>5, AppendShape DEF IInv, TypeOK
<1>7. \A k \in 1..(n + 1) : k \in 1..n \/ k = n + 1
  BY <1>6
<1>8. JobsOK'
  <2> SUFFICES ASSUME NEW k \in 1..(n + 1)  PROVE JobOK(jobs[k])'
    BY <1>6 DEF JobsOK
  <2>1. CASE k = n + 1
    BY <1>3, <1>4, <1>6, <2>1 DEF JobOK
  <2>2. CASE k \in 1..n
    BY <1>6, <2>2 DEF IInv, JobsOK, JobOK
  <2> QED BY <1>7, <2>1, <2>2
<1>9. QueueOK(main', jobs', fs')
  <2>1. \A k \in 1..Len(main) : main[k].kind = "answer" => main[k].job \in 1..n
    BY <1>6, MainOf
  <2> QED BY <1>6, <2>1, OtherJobs DEF IInv
<1>10. WritesOK'
  BY <1>6 DEF IInv, WritesOK, TypeOK
<1>11. NoOrphan'
  BY <1>6 DEF IInv, NoOrphan
<1>12. ListNeedsUser'
  BY DEF IInv, ListNeedsUser, FormPosted, OnForm, OnScreen, Opened
<1>13. ScreensOK'
  <2>1. ChatBelow /\ LogoutOverList
    BY DEF IInv, ScreensOK
  <2>2. CASE OnForm(kind, email, step)
    <3>1. ChatBelow' /\ LogoutOverList'
      BY <2>1, <2>2 DEF OnForm, ChatBelow, LogoutOverList
    <3>2. ScreenJob' /\ LastOwner'
      BY <2>2 DEF OnForm, ScreenJob, LastOwner, Opened
    <3> QED BY <3>1, <3>2 DEF ScreensOK
  <2>3. CASE OnScreen(kind, email, step)
    <3>1. ChatBelow' /\ LogoutOverList'
      BY <1>1, <2>1, <2>3 DEF OnScreen, ChatBelow, LogoutOverList
    <3>2. ScreenJob'
      <4>1. top' = kind
        BY <2>3 DEF OnScreen
      <4>2. jobs'[n + 1].kind = top' /\ jobs'[n + 1].view = View'
        BY <1>4, <1>6, <4>1
      <4>3. n + 1 > 0
        BY <1>6
      <4> QED BY <1>6, <4>2, <4>3 DEF ScreenJob
    <3>3. LastOwner'
      <4>1. jobs'[n + 1].email = current'
        BY <1>4, <1>6, <2>3 DEF OnScreen
      <4> QED BY <1>6, <4>1 DEF LastOwner
    <3> QED BY <3>1, <3>2, <3>3 DEF ScreensOK
  <2> QED BY <2>2, <2>3
<1>14. TypeOK'
  <2>1. main' \in Seq([kind : {"credential"}, user : Emails \cup {Nobody}]
                      \cup [kind : {"answer"}, job : DOMAIN jobs']
                      \cup {Form})
    <3>1. Blocks(n) \subseteq Blocks(n + 1) /\ main \in Seq(Blocks(n))
      BY MainOf, BlockTypes
    <3>2. main \in Seq(Blocks(n + 1))
      BY <3>1
    <3> QED BY <1>6, <3>2 DEF Blocks
  <2>2. writes' \subseteq [uid : Emails, by : Emails \cup {Nobody}, job : {0} \cup DOMAIN jobs']
    BY <1>6 DEF IInv, TypeOK
  <2>3. /\ top' \in {"list", "auth", "profile", "users", "chat"}
        /\ transition' \in {"no", "runs", "logout"}
    BY DEF OnForm, OnScreen, Opened, IInv, TypeOK
  <2> QED BY <1>1, <1>6, <2>1, <2>2, <2>3 DEF IInv, TypeOK, Views
<1> QED BY <1>8, <1>9, <1>10, <1>11, <1>12, <1>13, <1>14 DEF IInv

(* A form is submitted.                                                    *)
LEMMA SubmitInv ==
  ASSUME IInv, NEW e \in Emails, Login(e) \/ Register(e)
  PROVE  IInv'
<1>1. PICK kind, step :
        /\ Submit(kind, e, step)
        /\ <<kind, step>> \in {<<"login", "signIn">>, <<"register", "photo">>}
  BY DEF Login, Register
<1>2. /\ OnForm(kind, e, step) /\ Begin(kind, e, step)
      /\ UNCHANGED <<accounts, docs, current, fs, writes, main, formless, alert,
                     listening, due, rows, orphaned>>
  BY <1>1 DEF Submit, OnForm, server, session, screens, feed
<1>3. View' \in Nat
  BY <1>2 DEF OnForm, View, IInv, TypeOK, Views
<1>4. hud' \in HudType(Alive')
  <2> DEFINE v == View'
  <2>1. v \in Nat
    BY <1>3
  <2> HIDE DEF v
  <2>2. ShowIn(hud, v) \in HudType(Nat)
    BY <2>1, HudOf DEF IInv
  <2> QED BY <1>2, <2>2, LoaderType DEF Begin, v
<1> QED BY <1>2, <1>4, BeginInv DEF Begin

(* A screen is opened with its request.                                    *)
LEMMA OpenInv ==
  ASSUME IInv, OpenProfile \/ OpenUsers \/ SelectConversation \/ SelectUser
  PROVE  IInv'
<1>1. opened \in Nat /\ chat \in Nat
  BY DEF IInv, TypeOK, Views
<1>2. PICK kind \in Opened, step \in {"fetch", "silent"} :
        /\ OnScreen(kind, current, step)
        /\ Ask(kind, current, step)
        /\ Loader(hud) \/ Loader(ShowIn(hud, View'))
        /\ UNCHANGED <<accounts, docs, current, fs, writes, main, formless, alert,
                       listening, due, rows, orphaned>>
  <2>1. CASE OpenProfile
    BY <2>1 DEF OpenProfile, Opens, Present, Begin, OnScreen, Opened, server, session, feed
  <2>2. CASE OpenUsers
    BY <2>2 DEF OpenUsers, Opens, Present, Begin, OnScreen, Opened, server, session, feed
  <2>3. CASE SelectConversation \/ SelectUser
    <3>1. PICK st \in {"fetch", "silent"} : ShowChat(st) /\ top # "auth"
      BY <2>3 DEF SelectConversation, SelectUser
    <3> QED BY <3>1 DEF ShowChat, Opens, Begin, OnScreen, Opened, server, session, feed
  <2> QED BY <2>1, <2>2, <2>3
<1>3. View' \in Nat
  BY <1>1, <1>2 DEF OnScreen, View
<1>4. hud' \in HudType(Alive')
  <2> DEFINE v == View'
  <2>1. v \in Nat
    BY <1>3
  <2> HIDE DEF v
  <2>2. ShowIn(hud, v) \in HudType(Nat) /\ hud \in HudType(Nat)
    BY <2>1, HudOf DEF IInv
  <2> QED BY <1>2, <2>2, LoaderType DEF v
<1> QED BY <1>2, <1>4, BeginInv

-----------------------------------------------------------------------------
(***************************************************************************)
(* Steps without a request.                                                *)
(***************************************************************************)
(* No request, account or write is touched.                                *)
LEMMA ScreenInv ==
  ASSUME IInv, UNCHANGED <<accounts, docs, writes, jobs, orphaned>>,
         current' \in {current, Nobody}, fs' \in Emails \cup {Nobody},
         main' \in Seq(Blocks(Len(jobs))), QueueOK(main', jobs, fs'),
         top' \in {"list", "auth", "profile", "users", "chat"},
         chat' \in Views, opened' \in Views, transition' \in {"no", "runs", "logout"},
         formless' \in BOOLEAN, alert' \in BOOLEAN, listening' \in BOOLEAN,
         due' \in BOOLEAN, rows' \in BOOLEAN,
         hud' \in HudType(Alive'), ScreensOK', ListNeedsUser'
  PROVE  IInv'
<1>1. TypeOK'
  <2>1. main' \in Seq([kind : {"credential"}, user : Emails \cup {Nobody}]
                      \cup [kind : {"answer"}, job : DOMAIN jobs']
                      \cup {Form})
    BY MainOf DEF Blocks
  <2>2. current' \in accounts' \cup {Nobody}
    BY DEF IInv, TypeOK
  <2> QED BY <2>1, <2>2 DEF IInv, TypeOK
<1>2. JobsOK' /\ WritesOK' /\ NoOrphan'
  BY DEF IInv, JobsOK, JobOK, WritesOK, NoOrphan
<1> QED BY <1>1, <1>2 DEF IInv

(* Screens, user and main queue stay, a transition may end.                *)
LEMMA QuietInv ==
  ASSUME IInv, UNCHANGED <<accounts, docs, writes, jobs, orphaned, current, fs, main,
                           top, chat, opened, formless>>,
         transition' \in {transition, "no"},
         alert' \in BOOLEAN, listening' \in BOOLEAN, due' \in BOOLEAN, rows' \in BOOLEAN,
         hud' \in HudType(Alive')
  PROVE  IInv'
<1>1. ScreensOK'
  BY DEF IInv, ScreensOK, ChatBelow, LogoutOverList, ScreenJob, LastOwner, View
<1>2. ListNeedsUser'
  BY DEF IInv, ListNeedsUser, FormPosted
<1>3. main' \in Seq(Blocks(Len(jobs))) /\ QueueOK(main', jobs, fs')
  BY MainOf
<1>4. current' \in {current, Nobody} /\ transition' \in {"no", "runs", "logout"}
  BY DEF IInv, TypeOK
<1> QED BY <1>1, <1>2, <1>3, <1>4, ScreenInv DEF IInv, TypeOK

(* The alert is accepted, UIKit is done, the loader moves, the list hears. *)
LEMMA SmallStepInv ==
  ASSUME IInv, AcceptAlert \/ EndTransition \/ EndAnimationOfHud \/ ListAnswer
  PROVE  IInv'
<1>1. /\ UNCHANGED <<accounts, docs, writes, jobs, orphaned, current, fs, main,
                     top, chat, opened, formless>>
      /\ transition' \in {transition, "no"}
  BY DEF AcceptAlert, EndTransition, EndAnimationOfHud, ListAnswer, server, session,
         screens, feed
<1>2. alert' \in BOOLEAN /\ listening' \in BOOLEAN /\ due' \in BOOLEAN /\ rows' \in BOOLEAN
  BY DEF AcceptAlert, EndTransition, EndAnimationOfHud, ListAnswer, screens, feed,
         IInv, TypeOK
<1>3. hud' \in HudType(Alive')
  <2>1. hud' \in {hud, Dismiss(hud), EndAnimation(hud)}
    BY DEF AcceptAlert, EndTransition, EndAnimationOfHud, ListAnswer
  <2> QED BY <1>1, <2>1, AliveSame DEF IInv
<1> QED BY <1>1, <1>2, <1>3, QuietInv

(* A screen is left.                                                       *)
LEMMA LeaveInv ==
  ASSUME IInv, CloseProfile \/ CloseUsers \/ CloseChat \/ Logout
  PROVE  IInv'
<1>1. PICK screen \in Opened, then \in {"no", "runs", "logout"} : Leave(screen, then)
  BY DEF CloseProfile, CloseUsers, CloseChat, Logout, Opened
<1>2. /\ top # "auth" /\ top' = "list" /\ chat' = 0 /\ transition' = then
      /\ UNCHANGED <<accounts, docs, current, fs, writes, main, jobs, opened, formless,
                     alert, listening, due, rows, orphaned>>
      /\ Loader(hud)
  BY <1>1 DEF Leave, Opened, server, session, feed
<1>3. hud' \in HudType(Alive')
  BY <1>2, HudOf, LoaderType DEF IInv
<1>4. ScreensOK'
  <2>1. opened \in Nat
    BY DEF IInv, TypeOK, Views
  <2>2. ChatBelow' /\ LogoutOverList'
    BY <1>2, <2>1 DEF ChatBelow, LogoutOverList
  <2>3. ScreenJob' /\ LastOwner'
    BY <1>2 DEF ScreenJob, LastOwner, Opened
  <2> QED BY <2>2, <2>3 DEF ScreensOK
<1>5. ListNeedsUser'
  BY <1>2 DEF IInv, ListNeedsUser, FormPosted
<1>6. main' \in Seq(Blocks(Len(jobs))) /\ QueueOK(main', jobs, fs')
  BY <1>2, MainOf
<1>7. /\ top' \in {"list", "auth", "profile", "users", "chat"} /\ chat' \in Views
      /\ transition' \in {"no", "runs", "logout"}
  BY <1>2 DEF Views
<1> QED BY <1>2, <1>3, <1>4, <1>5, <1>6, <1>7, ScreenInv DEF IInv, TypeOK

(* The user is signed out, and the login screen is posted.                 *)
LEMMA SignOutInv ==
  ASSUME IInv, SignOut
  PROVE  IInv'
<1>1. /\ top = "list" /\ transition' = "no" /\ current' = Nobody
      /\ main' = main \o SignOutNotice \o <<Form>>
      /\ UNCHANGED <<accounts, docs, fs, writes, jobs, top, chat, opened, formless,
                     alert, hud, listening, due, rows, orphaned>>
  BY DEF SignOut, IInv, ScreensOK, LogoutOverList, server, feed
<1> DEFINE B == Blocks(Len(jobs))
           q == main \o SignOutNotice
<1>2. main \in Seq(B) /\ QueueOK(main, jobs, fs) /\ Form \in B /\ Credential(Nobody) \in B
      /\ Form.kind # "answer" /\ Credential(Nobody).kind # "answer"
  BY MainOf, BlockTypes, BlockKinds
<1> HIDE DEF B
<1>3. q \in Seq(B) /\ QueueOK(q, jobs, fs)
  <2>1. q = main \o <<>> \/ q = main \o <<Credential(Nobody)>>
    BY DEF SignOutNotice
  <2> HIDE DEF q
  <2>2. main \o <<>> = main
    BY <1>2, PushShape
  <2>3. /\ main \o <<Credential(Nobody)>> = Append(main, Credential(Nobody))
        /\ Append(main, Credential(Nobody)) \in Seq(B)
    BY <1>2, PushShape
  <2>4. QueueOK(Append(main, Credential(Nobody)), jobs, fs)
    BY <1>2, PushPlain
  <2> QED BY <1>2, <2>1, <2>2, <2>3, <2>4
<1>4. main' = q \o <<Form>>
  BY <1>1
<1> HIDE DEF q
<1>5. main' \in Seq(B) /\ QueueOK(main', jobs, fs') /\ HasForm(main')
  <2>1. q \o <<Form>> = Append(q, Form) /\ Append(q, Form) \in Seq(B)
    BY <1>2, <1>3, PushShape
  <2>2. QueueOK(Append(q, Form), jobs, fs) /\ HasForm(Append(q, Form))
    BY <1>2, <1>3, PushPlain, FormPushed
  <2> QED BY <1>1, <1>4, <2>1, <2>2
<1>6. ListNeedsUser'
  BY <1>5 DEF ListNeedsUser, FormPosted, HasForm
<1>7. ScreensOK'
  <2>1. ChatBelow' /\ LogoutOverList'
    BY <1>1 DEF IInv, ScreensOK, ChatBelow, LogoutOverList
  <2>2. ScreenJob' /\ LastOwner'
    BY <1>1 DEF ScreenJob, LastOwner, Opened
  <2> QED BY <2>1, <2>2 DEF ScreensOK
<1>8. hud' \in HudType(Alive')
  <2>1. hud \in HudType(Alive')
    BY <1>1, AliveSame DEF IInv
  <2> QED BY <1>1, <2>1
<1>9. main' \in Seq(Blocks(Len(jobs)))
  BY <1>5 DEF B
<1>10. /\ current' \in {current, Nobody} /\ fs' \in Emails \cup {Nobody}
       /\ top' \in {"list", "auth", "profile", "users", "chat"} /\ chat' \in Views
       /\ opened' \in Views /\ transition' \in {"no", "runs", "logout"}
       /\ formless' \in BOOLEAN /\ alert' \in BOOLEAN /\ listening' \in BOOLEAN
       /\ due' \in BOOLEAN /\ rows' \in BOOLEAN
  BY <1>1 DEF IInv, TypeOK
<1> QED BY <1>1, <1>5, <1>6, <1>7, <1>8, <1>9, <1>10, ScreenInv

(* Firestore hears who is signed in.                                       *)
LEMMA RunCredentialInv ==
  ASSUME IInv, RunCredential
  PROVE  IInv'
<1>1. /\ main # <<>> /\ Head(main).kind = "credential" /\ fs' = Head(main).user
      /\ main' = Tail(main)
      /\ UNCHANGED <<accounts, docs, current, writes, jobs, top, chat, opened, transition,
                     formless, alert, hud, listening, due, rows, orphaned>>
  BY DEF RunCredential, server, screens, feed
<1> DEFINE B == Blocks(Len(jobs))
<1>2. main \in Seq(B) /\ QueueOK(main, jobs, fs) /\ FormPosted = HasForm(main)
  BY MainOf
<1>3. \A b \in B : b.kind = "credential" => b.user \in Emails \cup {Nobody}
  BY MainOf, BlockTypes
<1> HIDE DEF B
<1>4. Head(main) = main[1] /\ main[1] \in B /\ Tail(main) \in Seq(B)
  BY <1>1, <1>2, PopShape
<1>5. QueueOK(main', jobs, fs') /\ main' \in Seq(B) /\ fs' \in Emails \cup {Nobody}
  <2>1. QueueOK(Tail(main), jobs, Head(main).user)
    BY <1>1, <1>2, <1>4, Popped
  <2> QED BY <1>1, <1>3, <1>4, <2>1
<1>6. HasForm(main) => HasForm(main')
  <2>1. Head(main) # Form
    BY <1>1, BlockKinds
  <2> QED BY <1>1, <1>2, <2>1, FormStays
<1>7. ListNeedsUser'
  BY <1>1, <1>2, <1>6 DEF IInv, ListNeedsUser, FormPosted, HasForm
<1>8. ScreensOK'
  BY <1>1 DEF IInv, ScreensOK, ChatBelow, LogoutOverList, ScreenJob, LastOwner, View
<1>9. hud' \in HudType(Alive')
  <2>1. hud \in HudType(Alive')
    BY <1>1, AliveSame DEF IInv
  <2> QED BY <1>1, <2>1
<1>10. main' \in Seq(Blocks(Len(jobs)))
  BY <1>5 DEF B
<1>11. /\ current' \in {current, Nobody}
       /\ top' \in {"list", "auth", "profile", "users", "chat"} /\ chat' \in Views
       /\ opened' \in Views /\ transition' \in {"no", "runs", "logout"}
       /\ formless' \in BOOLEAN /\ alert' \in BOOLEAN /\ listening' \in BOOLEAN
       /\ due' \in BOOLEAN /\ rows' \in BOOLEAN
  BY <1>1 DEF IInv, TypeOK
<1> QED BY <1>1, <1>5, <1>7, <1>8, <1>9, <1>10, <1>11, ScreenInv

(* The block that presents the login screen.                               *)
LEMMA PresentFormInv ==
  ASSUME IInv, PresentForm
  PROVE  IInv'
<1>1. /\ main # <<>> /\ Head(main) = Form /\ main' = Tail(main) /\ Loader(hud)
      /\ UNCHANGED <<accounts, docs, current, fs, writes, jobs, chat, alert, listening,
                     due, rows, orphaned>>
  BY DEF PresentForm, Runs, server, session, feed
<1>2. \/ /\ top \in {"list", "chat"} /\ top' = "auth" /\ opened' = opened + 1
         /\ transition' = "runs" /\ formless' = FALSE
      \/ top = "auth" /\ UNCHANGED <<top, opened, transition, formless>>
      \/ formless' = TRUE /\ UNCHANGED <<top, opened, transition>>
  BY DEF PresentForm, Present
<1>3. opened \in Nat /\ chat \in Nat
  BY DEF IInv, TypeOK, Views
<1>4. ListNeedsUser'
  BY <1>2 DEF ListNeedsUser
<1>5. ScreensOK'
  <2>1. CASE UNCHANGED <<top, opened, transition>>
    BY <1>1, <2>1 DEF IInv, ScreensOK, ChatBelow, LogoutOverList, ScreenJob, LastOwner, View
  <2>2. CASE top' = "auth" /\ opened' = opened + 1 /\ transition' = "runs"
    <3>1. ChatBelow' /\ LogoutOverList'
      BY <1>1, <1>3, <2>2 DEF IInv, ScreensOK, ChatBelow, LogoutOverList
    <3>2. ScreenJob' /\ LastOwner'
      BY <2>2 DEF ScreenJob, LastOwner, Opened
    <3> QED BY <3>1, <3>2 DEF ScreensOK
  <2> QED BY <1>2, <2>1, <2>2
<1>6. main' \in Seq(Blocks(Len(jobs))) /\ QueueOK(main', jobs, fs')
  <2> DEFINE B == Blocks(Len(jobs))
  <2>1. main \in Seq(B) /\ QueueOK(main, jobs, fs)
    BY MainOf
  <2> HIDE DEF B
  <2>2. Head(main) = main[1] /\ Tail(main) \in Seq(B)
    BY <1>1, <2>1, PopShape
  <2>3. main[1].kind # "credential"
    BY <1>1, <2>2, BlockKinds
  <2>4. QueueOK(Tail(main), jobs, fs)
    BY <1>1, <2>1, <2>3, Popped
  <2> QED BY <1>1, <2>2, <2>4 DEF B
<1>7. hud' \in HudType(Alive')
  BY <1>1, HudOf, LoaderType DEF IInv
<1>8. /\ current' \in {current, Nobody} /\ fs' \in Emails \cup {Nobody}
      /\ top' \in {"list", "auth", "profile", "users", "chat"} /\ chat' \in Views
      /\ opened' \in Views /\ transition' \in {"no", "runs", "logout"}
      /\ formless' \in BOOLEAN /\ alert' \in BOOLEAN /\ listening' \in BOOLEAN
      /\ due' \in BOOLEAN /\ rows' \in BOOLEAN
  <2>1. opened + 1 \in Views /\ opened \in Views
    BY <1>3 DEF Views
  <2>2. opened' \in Views
    BY <1>2, <2>1
  <2>3. /\ top' \in {"list", "auth", "profile", "users", "chat"}
        /\ transition' \in {"no", "runs", "logout"} /\ formless' \in BOOLEAN
    BY <1>2 DEF IInv, TypeOK
  <2> QED BY <1>1, <2>2, <2>3 DEF IInv, TypeOK
<1> QED BY <1>1, <1>4, <1>5, <1>6, <1>7, <1>8, ScreenInv

(* A launch, with whoever is signed in.                                    *)
LEMMA Booted ==
  ASSUME NEW user \in Emails \cup {Nobody}
  PROVE  /\ FormFor(user) \in Seq(Blocks(0))
         /\ \A js, f : QueueOK(FormFor(user), js, f)
         /\ user = Nobody => HasForm(FormFor(user))
<1>1. CASE user # Nobody
  <2>1. FormFor(user) = <<>> /\ Len(<<>>) = 0 /\ <<>> \in Seq(Blocks(0))
    BY <1>1 DEF FormFor
  <2> QED BY <1>1, <2>1 DEF QueueOK
<1>2. CASE user = Nobody
  <2>1. FormFor(user) = <<Form>> /\ Form \in Blocks(0)
    BY <1>2, BlockTypes DEF FormFor
  <2>2. /\ Len(<<Form>>) = 1 /\ <<Form>>[1] = Form /\ DOMAIN <<Form>> = 1..1
        /\ \A n \in 1..1 : n = 1
    OBVIOUS
  <2>3. <<Form>> \in Seq(Blocks(0))
    BY <2>1
  <2>4. \A n \in 1..1 : <<Form>>[n].kind # "answer"
    BY <2>2, BlockKinds
  <2>5. \A js, f : QueueOK(<<Form>>, js, f)
    BY <2>2, <2>4 DEF QueueOK
  <2> QED BY <2>1, <2>2, <2>3, <2>5 DEF HasForm
<1> QED BY <1>1, <1>2

LEMMA BootType ==
  ASSUME TypeOK, Boot(current)
  PROVE  hud' \in HudType(Alive')
<1>1. hud' \in HudType({0})
  BY HudHidden DEF Boot
<1>2. 0 \in Alive'
  BY DEF Alive
<1> QED BY <1>1, <1>2 DEF HudType

(* The app dies and starts again.                                          *)
LEMMA KillInv ==
  ASSUME IInv, Kill
  PROVE  IInv'
<1> DEFINE lost == {jobs[i].email : i \in {k \in DOMAIN jobs :
                                           jobs[k].step \in {"created", "signedUp"}}}
<1>1. /\ writes' = {[w EXCEPT !.job = 0] : w \in writes}
      /\ orphaned' = orphaned \cup lost
      /\ UNCHANGED <<accounts, docs, current>>
      /\ fs' = current /\ main' = FormFor(current)
      /\ top' = "list" /\ chat' = 0 /\ opened' = 0 /\ transition' = "no"
      /\ formless' = FALSE /\ alert' = FALSE
      /\ listening' = (current # Nobody) /\ due' = (current # Nobody)
      /\ rows' = FALSE /\ jobs' = <<>>
  BY DEF Kill, Kept, Boot, server
<1>2. \A w \in writes : /\ [w EXCEPT !.job = 0] \in [uid : Emails, by : Emails \cup {Nobody}, job : {0}]
                        /\ [w EXCEPT !.job = 0].uid = w.uid
                        /\ [w EXCEPT !.job = 0].by = w.by
                        /\ [w EXCEPT !.job = 0].job = 0
  BY DEF IInv, TypeOK
<1>3. lost \subseteq Emails
  <2>1. \A k \in DOMAIN jobs : jobs[k].step \in {"created", "signedUp"} =>
            jobs[k].email \in Emails
    BY JobOf DEF Fits, Forms
  <2> QED BY <2>1
<1>4. hud' \in HudType(Alive')
  BY BootType DEF Kill, IInv
<1>5. current \in Emails \cup {Nobody}
  BY DEF IInv, TypeOK
<1>6. Len(jobs') = 0 /\ DOMAIN jobs' = {} /\ jobs' \in Seq(Jobs)
  BY <1>1
<1>7. main' \in Seq(Blocks(0)) /\ QueueOK(main', jobs', fs')
      /\ (current = Nobody => HasForm(main'))
  BY <1>1, <1>5, Booted
<1>8. TypeOK'
  <2>1. main' \in Seq([kind : {"credential"}, user : Emails \cup {Nobody}]
                      \cup [kind : {"answer"}, job : DOMAIN jobs']
                      \cup {Form})
    <3>1. DOMAIN jobs' = 1..0
      BY <1>6
    <3> QED BY <1>7, <3>1 DEF Blocks
  <2>2. writes' \subseteq [uid : Emails, by : Emails \cup {Nobody}, job : {0} \cup DOMAIN jobs']
    BY <1>1, <1>2
  <2>3. orphaned' \subseteq Emails
    BY <1>1, <1>3 DEF IInv, TypeOK
  <2> HIDE DEF lost
  <2> QED BY <1>1, <1>4, <1>5, <1>6, <2>1, <2>2, <2>3 DEF IInv, TypeOK, Views
<1>9. JobsOK' /\ WritesOK'
  BY <1>1, <1>2, <1>6 DEF JobsOK, WritesOK
<1>10. ListNeedsUser'
  BY <1>1, <1>7 DEF ListNeedsUser, FormPosted, HasForm
<1>11. ScreensOK'
  BY <1>1 DEF ScreensOK, ChatBelow, LogoutOverList, ScreenJob, LastOwner, Opened
<1>12. NoOrphan'
  <2> SUFFICES ASSUME NEW e \in accounts \ docs
               PROVE  (\E w \in writes' : w.uid = e /\ w.by = e) \/ e \in orphaned'
    BY <1>1 DEF NoOrphan
  <2>1. CASE \E w \in writes : w.uid = e /\ w.by = e
    BY <1>1, <1>2, <2>1
  <2>2. CASE \E i \in DOMAIN jobs : jobs[i].email = e /\ jobs[i].step \in {"created", "signedUp"}
    BY <1>1, <2>2
  <2>3. CASE e \in orphaned
    BY <1>1, <2>3
  <2> QED BY <2>1, <2>2, <2>3 DEF IInv, NoOrphan
<1> QED BY <1>7, <1>8, <1>9, <1>10, <1>11, <1>12 DEF IInv

-----------------------------------------------------------------------------
(***************************************************************************)
(* The theorems.                                                           *)
(***************************************************************************)
(* The invariant holds at first.                                           *)
LEMMA Initially ==
  ASSUME Init
  PROVE  IInv
<1>1. hud \in HudType(Alive)
  <2>1. hud \in HudType({0})
    BY HudHidden DEF Init
  <2>2. 0 \in Alive
    BY DEF Alive
  <2> QED BY <2>1, <2>2 DEF HudType
<1>2. jobs \in Seq(Jobs) /\ Len(jobs) = 0 /\ DOMAIN jobs = {} /\ DOMAIN jobs = 1..0
  BY DEF Init
<1>3. main = FormFor(Nobody)
  BY DEF Init, FormFor
<1>4. main \in Seq(Blocks(0)) /\ QueueOK(main, jobs, fs) /\ HasForm(main)
  BY <1>3, Booted
<1>5. TypeOK
  <2>1. main \in Seq([kind : {"credential"}, user : Emails \cup {Nobody}]
                     \cup [kind : {"answer"}, job : DOMAIN jobs]
                     \cup {Form})
    BY <1>2, <1>4 DEF Blocks
  <2> QED BY <1>1, <1>2, <2>1 DEF Init, TypeOK, Views
<1>6. ScreensOK
  BY DEF Init, ScreensOK, ChatBelow, LogoutOverList, ScreenJob, LastOwner, Opened
<1>7. ListNeedsUser
  BY <1>4 DEF ListNeedsUser, FormPosted, HasForm
<1>8. JobsOK /\ WritesOK /\ NoOrphan
  BY <1>2 DEF Init, JobsOK, WritesOK, NoOrphan
<1> QED BY <1>4, <1>5, <1>6, <1>7, <1>8 DEF IInv

(* Every step keeps it.                                                    *)
LEMMA StepKeeps ==
  ASSUME IInv, [Next]_vars
  PROVE  IInv'
<1>1. CASE UNCHANGED vars
  <2>1. /\ UNCHANGED <<accounts, docs, writes, jobs, orphaned, current, fs, main,
                       top, chat, opened, formless>>
        /\ UNCHANGED <<transition, alert, listening, due, rows, hud>>
    BY <1>1 DEF vars, server, session, screens, feed
  <2>2. hud' \in HudType(Alive')
    <3>1. hud \in HudType(Alive')
      BY <2>1, AliveSame DEF IInv
    <3> QED BY <2>1, <3>1
  <2>3. alert' \in BOOLEAN /\ listening' \in BOOLEAN /\ due' \in BOOLEAN /\ rows' \in BOOLEAN
    BY <2>1 DEF IInv, TypeOK
  <2> QED BY <2>1, <2>2, <2>3, QuietInv
<1>2. ASSUME NEW i \in DOMAIN jobs, Network(i) \/ CreatedUnheard(i) \/ ChatAnswer(i)
      PROVE  IInv'
  BY <1>2, SignInRefusedInv, CreatedUnheardInv, RegistrationInv, FetchAnswerInv,
     AuthenticatedInv DEF Network
<1>3. CASE RunMain
  BY <1>3, RunCredentialInv, PresentFormInv, CompletionInv DEF RunMain
<1>4. ASSUME NEW w \in writes, WriteDocument(w) \/ RefuseDocument(w)
      PROVE  IInv'
  BY <1>4, AnsweredWriteInv, UnheardWriteInv
<1>5. CASE User
  BY <1>5, SubmitInv, OpenInv, LeaveInv, SmallStepInv DEF User
<1>6. CASE UIKit \/ ListAnswer
  BY <1>6, SmallStepInv, SignOutInv DEF UIKit
<1>7. CASE Kill
  BY <1>7, KillInv
<1> QED BY <1>1, <1>2, <1>3, <1>4, <1>5, <1>6, <1>7 DEF Next

(* The inductive invariant holds in every reachable state.                 *)
THEOREM Invariance == Spec => []IInv
<1>1. Init => IInv
  BY Initially
<1>2. IInv /\ [Next]_vars => IInv'
  BY StepKeeps
<1> QED BY <1>1, <1>2, PTL DEF Spec

(* Every variable keeps to its range, the loader to a view that is alive.  *)
THEOREM TypeCorrect == Spec => []TypeOK
<1>1. IInv => TypeOK
  BY DEF IInv
<1> QED BY <1>1, Invariance, PTL

(* authenticateUser, logout, presentLoginScreen: with nobody signed in the *)
(* login screen is there or on the main queue, whatever is on that queue   *)
(* already and whatever the user opens before it comes, unless UIKit       *)
(* turned it away.                                                         *)
THEOREM ListIsForUsers == Spec => []ListNeedsUser
<1>1. IInv => ListNeedsUser
  BY DEF IInv
<1> QED BY <1>1, Invariance, PTL

(* The account changes under an open screen only by the answer to a form   *)
(* submitted before.                                                       *)
THEOREM ScreensAreOwned == Spec => []ScreenOwner
<1>1. IInv => ScreenOwner
  <2> SUFFICES ASSUME IInv, top \in Opened, View = opened
               PROVE  \E i \in DOMAIN jobs :
                         /\ jobs[i].kind = top /\ jobs[i].view = View
                         /\ \/ jobs[i].email = current
                            \/ \E j \in 1..(i - 1) :
                                  /\ jobs[j].kind \in Forms
                                  /\ jobs[j].email = current
    BY DEF ScreenOwner, Opened, Forms
  <2>1. Len(jobs) \in DOMAIN jobs
    BY LenProperties DEF IInv, TypeOK, ScreensOK, ScreenJob
  <2>2. ScreenJob /\ LastOwner
    BY DEF IInv, ScreensOK
  <2> QED BY <2>1, <2>2 DEF ScreenJob, LastOwner
<1> QED BY <1>1, Invariance, PTL

(* createUser: whoever enters the app by registration has a document.      *)
THEOREM EntrantsHaveDocuments == Spec => []EnteredWithDocument
<1>1. IInv => EnteredWithDocument
  BY JobOf DEF EnteredWithDocument, Fits
<1> QED BY <1>1, Invariance, PTL

(* createUser: an account without a document is about to get it from its   *)
(* own write queue, or one of three things went wrong.                     *)
THEOREM OrphansAreAccountedFor == Spec => []NoOrphan
<1>1. IInv => NoOrphan
  BY DEF IInv
<1> QED BY <1>1, Invariance, PTL
=============================================================================
