-------------------------- MODULE Composer_proofs --------------------------
(***************************************************************************)
(* Proofs about Composer, for any number of texts, taps and chats.         *)
(***************************************************************************)
EXTENDS Composer, SequenceTheorems, TLAPS

(* No upload belongs to a chat that is not opened yet.                     *)
UploadsOfThePast == \A i \in 1..Len(uploads) : uploads[i].chat <= chat

(* While an upload from the field on screen is under way, what the field   *)
(* holds was sent, or typed in haste.                                      *)
SentOrHasty ==
  open /\ (\E i \in 1..Len(uploads) : uploads[i].chat = chat)
    => field \in sent \cup hasty \cup {Empty}

IInv == TypeOK /\ UploadsOfThePast /\ SentOrHasty /\ LostOnlyInHaste

(* What is left of the uploads when the oldest one reports.                *)
LEMMA Rest ==
  ASSUME uploads \in Seq(Uploads), uploads # <<>>
  PROVE  /\ Head(uploads) \in Uploads
         /\ Head(uploads) = uploads[1] /\ 1 \in 1..Len(uploads)
         /\ Tail(uploads) \in Seq(Uploads)
         /\ \A i \in 1..Len(Tail(uploads)) :
               i + 1 \in 1..Len(uploads) /\ Tail(uploads)[i] = uploads[i + 1]
BY HeadTailProperties

(* The oldest upload reports.                                              *)
LEMMA ReportKeeps ==
  ASSUME IInv, uploads # <<>>, uploads' = Tail(uploads), UNCHANGED <<shown, user>>,
         \/ UNCHANGED <<field, hint, lost>>
         \/ ClearMessageText(Head(uploads).chat),
         unheard' \subseteq Texts \cup {Empty}
  PROVE  IInv'
<1>1. /\ uploads'\in Seq(Uploads)
      /\ \A i \in 1..Len(uploads') :
            i + 1 \in 1..Len(uploads) /\ uploads'[i] = uploads[i + 1]
  BY Rest DEF IInv, TypeOK
<1>2. UploadsOfThePast'
  BY <1>1 DEF IInv, UploadsOfThePast, shown
<1>3. CASE UNCHANGED <<field, hint, lost>>
  <2>1. TypeOK'
    BY <1>1, <1>3 DEF IInv, TypeOK, shown, user
  <2>2. SentOrHasty'
    BY <1>1, <1>3 DEF IInv, SentOrHasty, shown, user
  <2>3. LostOnlyInHaste'
    BY <1>3 DEF IInv, LostOnlyInHaste, user
  <2> QED BY <1>2, <2>1, <2>2, <2>3 DEF IInv
<1>4. CASE /\ open /\ Head(uploads).chat = chat
           /\ field' = Empty /\ hint' = TRUE
           /\ lost' = lost \cup ({field} \ (sent \cup {Empty}))
  <2>1. field \in sent \cup hasty \cup {Empty}
    BY <1>4, Rest DEF IInv, TypeOK, SentOrHasty
  <2>2. LostOnlyInHaste'
    BY <1>4, <2>1 DEF IInv, LostOnlyInHaste, user
  <2>3. TypeOK'
    BY <1>1, <1>4, <2>1 DEF IInv, TypeOK, shown, user
  <2>4. SentOrHasty'
    BY <1>4 DEF SentOrHasty
  <2> QED BY <1>2, <2>2, <2>3, <2>4 DEF IInv
<1> QED BY <1>3, <1>4 DEF ClearMessageText

(* The invariant holds at first.                                           *)
LEMMA Initially == Init => IInv
<1> SUFFICES ASSUME Init
             PROVE  IInv
  OBVIOUS
<1>1. uploads \in Seq(Uploads) /\ Len(uploads) = 0
  BY DEF Init
<1>2. TypeOK
  <2>1. hint \in BOOLEAN /\ (hint <=> field = Empty) /\ open = FALSE
    BY DEF Init
  <2>2. typed \in 0..MaxTexts /\ sends \in 0..MaxSends
    BY BoundsAssumption DEF Init
  <2> QED BY <1>1, <2>1, <2>2 DEF Init, TypeOK
<1>3. UploadsOfThePast /\ SentOrHasty /\ LostOnlyInHaste
  BY <1>1 DEF Init, UploadsOfThePast, SentOrHasty, LostOnlyInHaste
<1> QED BY <1>2, <1>3 DEF IInv

(* Every step keeps it.                                                    *)
LEMMA StepKeeps == IInv /\ [Next]_vars => IInv'
<1> SUFFICES ASSUME IInv, [Next]_vars
             PROVE  IInv'
  OBVIOUS
<1> USE BoundsAssumption
<1>1. CASE Open
  <2>1. TypeOK'
    BY <1>1 DEF Open, IInv, TypeOK, Chats, user
  <2>2. \A i \in 1..Len(uploads) : uploads[i].chat \in Nat /\ uploads[i].chat < chat'
    <3> TAKE i \in 1..Len(uploads)
    <3>1. uploads[i] \in Uploads
      BY ElementOfSeq DEF IInv, TypeOK
    <3>2. uploads[i].chat <= chat
      BY DEF IInv, UploadsOfThePast
    <3> QED BY <1>1, <3>1, <3>2 DEF Open, IInv, TypeOK, Uploads, Chats
  <2>3. UploadsOfThePast'
    BY <1>1, <2>1, <2>2 DEF Open, UploadsOfThePast, TypeOK, Chats
  <2>4. SentOrHasty' /\ LostOnlyInHaste'
    BY <1>1 DEF Open, IInv, SentOrHasty, LostOnlyInHaste, user
  <2> QED BY <2>1, <2>3, <2>4 DEF IInv
<1>2. CASE Leave
  <2>1. TypeOK' /\ UploadsOfThePast' /\ SentOrHasty' /\ LostOnlyInHaste'
    BY <1>2 DEF Leave, IInv, TypeOK, UploadsOfThePast, SentOrHasty,
       LostOnlyInHaste, user
  <2> QED BY <2>1 DEF IInv
<1>3. CASE Type
  <2>1. typed' \in 1..MaxTexts /\ typed' \in Texts
    BY <1>3 DEF Type, IInv, TypeOK, Texts
  <2>2. field' \in {Empty, typed'} /\ hint' = (field' = Empty)
    BY <1>3 DEF Type
  <2>3. hasty' \subseteq Texts /\ hasty \subseteq hasty'
    BY <1>3, <2>1 DEF Type, IInv, TypeOK
  <2>4. TypeOK'
    <3>1. hint' \in BOOLEAN /\ (hint' <=> field' = Empty)
      BY <2>2
    <3>2. field' \in Texts \cup {Empty} /\ typed' \in 0..MaxTexts
      BY <2>1, <2>2
    <3> QED BY <1>3, <2>3, <3>1, <3>2 DEF Type, IInv, TypeOK, shown
  <2>5. UploadsOfThePast'
    BY <1>3 DEF Type, IInv, UploadsOfThePast, shown
  <2>6. SentOrHasty'
    <3>1. uploads \in Seq(Uploads) /\ DOMAIN uploads = 1..Len(uploads)
      BY LenProperties DEF IInv, TypeOK
    <3>2. CASE UnderWay
      BY <1>3, <2>2, <3>2 DEF Type, SentOrHasty
    <3>3. CASE ~UnderWay
      BY <1>3, <3>1, <3>3 DEF Type, UnderWay, SentOrHasty, shown
    <3> QED BY <3>2, <3>3
  <2>7. LostOnlyInHaste'
    BY <1>3, <2>3 DEF Type, IInv, LostOnlyInHaste
  <2> QED BY <2>4, <2>5, <2>6, <2>7 DEF IInv
<1>4. CASE Send
  <2> DEFINE new == [text |-> field, chat |-> chat]
  <2>1. new \in Uploads
    <3>1. chat \in Chats
      BY <1>4 DEF IInv, TypeOK, Send, Chats
    <3> QED BY <3>1 DEF IInv, TypeOK, Uploads
  <2>2. /\ uploads' \in Seq(Uploads)
        /\ Len(uploads') = Len(uploads) + 1
        /\ \A i \in 1..Len(uploads) : uploads'[i] = uploads[i]
        /\ uploads'[Len(uploads) + 1] = new
    BY <1>4, <2>1, AppendProperties DEF Send, IInv, TypeOK
  <2>3. TypeOK'
    BY <1>4, <2>2 DEF Send, IInv, TypeOK, shown
  <2>4. UploadsOfThePast'
    <3>1. \A i \in 1..Len(uploads') : i \in 1..Len(uploads) \/ i = Len(uploads) + 1
      BY <2>2, LenProperties DEF IInv, TypeOK
    <3>2. chat' = chat /\ chat <= chat
      BY <1>4 DEF Send, shown, IInv, TypeOK, Chats
    <3> QED BY <2>2, <3>1, <3>2 DEF IInv, UploadsOfThePast
  <2>5. SentOrHasty' /\ LostOnlyInHaste'
    BY <1>4 DEF Send, IInv, SentOrHasty, LostOnlyInHaste, shown
  <2> QED BY <2>3, <2>4, <2>5 DEF IInv
<1>5. CASE Succeed
  BY <1>5, ReportKeeps DEF Succeed, IInv, TypeOK
<1>6. CASE Fail
  <2>1. unheard' \subseteq Texts \cup {Empty}
    BY <1>6, Rest DEF Fail, IInv, TypeOK, Uploads
  <2> QED BY <1>6, <2>1, ReportKeeps DEF Fail
<1>7. CASE Kill
  <2>1. \A i \in DOMAIN uploads : uploads[i].text \in Texts \cup {Empty}
    <3> TAKE i \in DOMAIN uploads
    <3>1. uploads[i] \in Uploads
      BY ElementOfSeq, LenProperties DEF IInv, TypeOK
    <3> QED BY <3>1 DEF Uploads
  <2>2. TypeOK'
    <3>1. uploads' \in Seq(Uploads) /\ open' = FALSE
      BY <1>7 DEF Kill
    <3>2. unheard' \subseteq Texts \cup {Empty}
      BY <1>7, <2>1 DEF Kill, IInv, TypeOK
    <3> QED BY <1>7, <3>1, <3>2 DEF Kill, IInv, TypeOK, user
  <2>3. UploadsOfThePast' /\ SentOrHasty' /\ LostOnlyInHaste'
    BY <1>7 DEF Kill, IInv, UploadsOfThePast, SentOrHasty, LostOnlyInHaste, user
  <2> QED BY <2>2, <2>3 DEF IInv
<1>8. CASE UNCHANGED vars
  BY <1>8 DEF vars, IInv, TypeOK, UploadsOfThePast, SentOrHasty, LostOnlyInHaste
<1> QED BY <1>1, <1>2, <1>3, <1>4, <1>5, <1>6, <1>7, <1>8 DEF Next

-----------------------------------------------------------------------------
(* The inductive invariant of Composer.                                    *)
THEOREM Invariance == Spec => []IInv
<1>1. Init => IInv
  BY Initially
<1>2. IInv /\ [Next]_vars => IInv'
  BY StepKeeps
<1> QED BY <1>1, <1>2, PTL DEF Spec

(* The ranges, and the placeholder that is there exactly when the field is *)
(* empty.                                                                  *)
THEOREM TypeCorrect == Spec => []TypeOK
<1>1. IInv => TypeOK
  BY DEF IInv
<1> QED BY <1>1, Invariance, PTL

(* Whatever the completions of ChatController do, and whenever they come,  *)
(* the only text they throw away unsent is one typed during an upload.     *)
THEOREM OnlyHasteLoses == Spec => []LostOnlyInHaste
<1>1. IInv => LostOnlyInHaste
  BY DEF IInv
<1> QED BY <1>1, Invariance, PTL
=============================================================================
