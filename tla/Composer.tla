----------------------------- MODULE Composer -----------------------------
(***************************************************************************)
(* The input field of a chat: CustomInputAccessoryView and the completion  *)
(* ChatController passes to Service.uploadMessage.                         *)
(*                                                                         *)
(* Send neither empties nor disables the field: the field is emptied when  *)
(* the upload reports success, whatever it holds by then.  Each chat that  *)
(* is opened has a field of its own, and a completion keeps the field it   *)
(* was made for.  Uploads go through one write queue and report in order,  *)
(* or not at all when the app is killed (see Messaging).                   *)
(***************************************************************************)
EXTENDS Naturals, Sequences, FiniteSets

CONSTANTS
    MaxTexts,   \* bound: changes of the text, each makes a new text
    MaxSends,   \* bound: taps on Send
    MaxChats    \* bound: chats opened

ASSUME BoundsAssumption == MaxTexts \in Nat /\ MaxSends \in Nat /\ MaxChats \in Nat

Empty == 0
Texts == 1..MaxTexts
Chats == 1..MaxChats

Uploads == [text : Texts \cup {Empty}, chat : Chats]

VARIABLES
    chat,     \* the chats opened so far; the last one has the field
    open,     \* it is on screen
    field,    \* messageInputTextView.text
    hint,     \* the placeholder is shown
    uploads,  \* uploads whose completion is to come, oldest first
    typed,    \* texts so far
    sends,    \* taps on Send so far
    sent,     \* texts handed to uploadMessage
    hasty,    \* texts typed while an upload from the same field was under way
    lost,     \* texts that a completion threw away and nobody sent
    unheard   \* texts whose upload failed, or was under way in a kill

shown == <<chat, open>>
user == <<typed, sends, sent, hasty>>
vars == <<chat, open, field, hint, uploads, typed, sends, sent, hasty, lost, unheard>>

-----------------------------------------------------------------------------
(* An upload from the field on screen is under way.                        *)
UnderWay == \E i \in DOMAIN uploads : uploads[i].chat = chat

Init ==
    /\ chat = 0
    /\ open = FALSE
    /\ field = Empty
    /\ hint = TRUE
    /\ uploads = <<>>
    /\ typed = 0
    /\ sends = 0
    /\ sent = {}
    /\ hasty = {}
    /\ lost = {}
    /\ unheard = {}

(* Variant: the field of the chat before is kept.                          *)
OpenWithOldText ==
    /\ ~open
    /\ chat < MaxChats
    /\ chat' = chat + 1
    /\ open' = TRUE
    /\ hint' = TRUE
    /\ UNCHANGED <<field, uploads, user, lost, unheard>>

(* A new ChatController, with a new field.                                 *)
Open ==
    /\ ~open
    /\ chat < MaxChats
    /\ chat' = chat + 1
    /\ open' = TRUE
    /\ field' = Empty
    /\ hint' = TRUE
    /\ UNCHANGED <<uploads, user, lost, unheard>>

(* The chat is left, and the text in it.                                   *)
Leave ==
    /\ open
    /\ open' = FALSE
    /\ UNCHANGED <<chat, field, hint, uploads, user, lost, unheard>>

(* The user changes the text, or deletes it; handleTextInputChange.        *)
Type ==
    /\ open
    /\ typed < MaxTexts
    /\ typed' = typed + 1
    /\ \E text \in {Empty, typed'} : field' = text
    /\ hint' = (field' = Empty)
    /\ hasty' = IF UnderWay THEN hasty \cup {typed'} ELSE hasty
    /\ UNCHANGED <<shown, uploads, sends, sent, lost, unheard>>

(* Variant: no completion is passed.                                       *)
SendAndForget ==
    /\ open
    /\ sends < MaxSends
    /\ sends' = sends + 1
    /\ sent' = sent \cup {field}
    /\ UNCHANGED <<shown, field, hint, uploads, typed, hasty, lost, unheard>>

(* handleSendMessage: whatever is in the field, also nothing.              *)
Send ==
    /\ open
    /\ sends < MaxSends
    /\ sends' = sends + 1
    /\ uploads' = Append(uploads, [text |-> field, chat |-> chat])
    /\ sent' = sent \cup {field}
    /\ UNCHANGED <<shown, field, hint, typed, hasty, lost, unheard>>

(* Variant: whatever field is on screen.                                   *)
ClearCurrent(c) ==
    /\ field' = Empty
    /\ hint' = TRUE
    /\ lost' = lost \cup ({field} \ (sent \cup {Empty}))

(* clearMessageText, in the field of chat c.  Fields of earlier chats are  *)
(* out of sight.                                                           *)
ClearMessageText(c) ==
    IF c = chat /\ open
    THEN /\ field' = Empty
         /\ hint' = TRUE
         /\ lost' = lost \cup ({field} \ (sent \cup {Empty}))
    ELSE UNCHANGED <<field, hint, lost>>

(* The completion: the field is emptied unless there was an error.         *)
Succeed ==
    /\ uploads # <<>>
    /\ uploads' = Tail(uploads)
    /\ ClearMessageText(Head(uploads).chat)
    /\ UNCHANGED <<shown, user, unheard>>

Fail ==
    /\ uploads # <<>>
    /\ uploads' = Tail(uploads)
    /\ unheard' = unheard \cup {Head(uploads).text}
    /\ UNCHANGED <<shown, field, hint, user, lost>>

(* The app dies: fields and closures are gone, the write queue is not.     *)
Kill ==
    /\ open' = FALSE
    /\ uploads' = <<>>
    /\ unheard' = unheard \cup {uploads[i].text : i \in DOMAIN uploads}
    /\ UNCHANGED <<chat, field, hint, user, lost>>

Next == Open \/ Leave \/ Type \/ Send \/ Succeed \/ Fail \/ Kill

Spec == Init /\ [][Next]_vars

(* Uploads report: the write queue is drained and completions run.         *)
FairSpec == Spec /\ WF_vars(Succeed \/ Fail)

-----------------------------------------------------------------------------
(* What is stated about Composer.                                          *)

(* The range of every variable; the placeholder is there exactly when the  *)
(* field is empty.                                                         *)
TypeOK ==
    /\ chat \in {0} \cup Chats
    /\ open \in BOOLEAN /\ (open => chat \in Chats)
    /\ field \in Texts \cup {Empty}
    /\ hint \in BOOLEAN /\ (hint <=> field = Empty)
    /\ uploads \in Seq(Uploads)
    /\ typed \in 0..MaxTexts
    /\ sends \in 0..MaxSends
    /\ sent \subseteq Texts \cup {Empty}
    /\ hasty \subseteq Texts
    /\ lost \subseteq Texts
    /\ unheard \subseteq Texts \cup {Empty}

(* Only a text typed while an upload from the same field was under way can *)
(* be thrown away unsent: neither a failed upload, nor one of a chat that  *)
(* was left, nor a completion that comes late costs any other text.        *)
LostOnlyInHaste == lost \subseteq hasty

(* A text that was sent leaves its field, unless its upload is not heard   *)
(* of or failed (then it stays there for another try).                     *)
EventuallyEmptied ==
    \A t \in Texts :
        (open /\ field = t /\ t \in sent) ~> (~open \/ field # t \/ t \in unheard)
=============================================================================
