--------------------------- MODULE FrontEndProofs ----------------------------
(***************************************************************************)
(* FrontEnd for every number of accounts, remarks and messages.            *)
(*   - LoginInv: how the dialog keeps the user from the login until the    *)
(*     agreement is ticked.                                                *)
(*   - MailInv: what was pulled is what was handled, then the batch.       *)
(*   - RowInv: one row per conversation, with its remark and its count;    *)
(*     and ModalInv: what an open dialog holds on to is still there.       *)
(*   - WindowInv: an open window shows what came since it was opened.      *)
(* Together they are inductive (FrontEndInductive).                        *)
(***************************************************************************)
EXTENDS FrontEnd, FilterProofs, FiniteSetTheorems

(* Only the second page's button logs in, and only while it is enabled.    *)
LoginInv ==
    /\ <<account, password, agreed, enabled>> \in BOOLEAN \X BOOLEAN \X BOOLEAN \X BOOLEAN
    /\ loggedIn \in BOOLEAN /\ polling \in BOOLEAN
    /\ page \in {"simple", "account"}
    /\ page = "simple" => ~password
    /\ page = "account" /\ enabled => agreed
    /\ stage = "login" => ~polling /\ ~loggedIn
    /\ loggedIn => agreed

(* The dialog opens on its first page, with no password entered.           *)
LEMMA InitLoginInv == FrontEndInit => LoginInv
BY DEF FrontEndInit, BackendInit, LoginInit, LoginInv

(* Every change of a field ends in updateLoginEnabled, and the first page  *)
(* has no password: handleLogin logs nobody in there.                      *)
LEMMA NextLoginInv ==
    ASSUME LoginInv, [FrontEndNext]_vars
    PROVE  LoginInv'
<1> USE DEF LoginInv
<1>1. CASE LoginStep
  <2>1. CASE Edit
    BY <2>1 DEF Edit, UpdateLoginEnabled, Open, backendVars, coreVars
  <2>2. CASE PressLabel
    BY <2>2 DEF PressLabel, LabelsShown, SwitchToAccountPage, UpdateLoginEnabled,
                Open, backendVars, coreVars
  <2>3. CASE HandleLogin
    <3>1. CASE page = "simple"
      BY <2>3, <3>1 DEF HandleLogin, UpdateLoginEnabled, Open, backendVars, coreVars
    <3>2. CASE page = "account"
      <4>1. /\ TryLogin /\ enabled /\ stage = "login"
            /\ UNCHANGED <<account, password, agreed>>
        BY <2>3, <3>2 DEF HandleLogin, Open
      <4>2. PICK ok \in BOOLEAN :
               /\ Login(account, password, ok)
               /\ stage' = IF ok THEN "accepted" ELSE stage
               /\ UNCHANGED <<page, enabled>>
        BY <4>1 DEF TryLogin
      <4>3. /\ loggedIn' \in {loggedIn, ok}
            /\ polling' = (polling \/ ok)
        BY <4>2 DEF Login, coreVars
      <4> QED
        BY <3>2, <4>1, <4>2, <4>3
    <3> QED
      BY <3>1, <3>2
  <2>4. CASE CloseWarning
    BY <2>4 DEF CloseWarning, backendVars, coreVars
  <2>5. CASE Reject
    BY <2>5 DEF Reject, Open, loginVars, coreVars
  <2> QED
    BY <1>1, <2>1, <2>2, <2>3, <2>4, <2>5 DEF LoginStep
<1>2. ASSUME UNCHANGED <<loginVars, loggedIn, polling>>,
             stage' = stage \/ stage' \in {"main", "ended"}
      PROVE  LoginInv'
  BY <1>2 DEF loginVars
<1>3. CASE WindowStep
  BY <1>2, <1>3 DEF WindowStep, BuildList, OpenChat, CloseChat, CloseList, CallCore, backendVars, coreVars
<1>4. CASE SendStep
  BY <1>2, <1>4 DEF SendStep, SendMessage, ChooseFile, SendFile, CallCore, AfterCall, backendVars,
                    coreVars
<1>5. CASE DialogStep
  BY <1>2, <1>5 DEF DialogStep, ShowMenu, SetRemark, PressAdd, EnterName, AddFriend,
                    Dismiss, CallCore, AfterCall, backendVars, coreVars
<1>6. CASE Outside
  BY <1>2, <1>6 DEF Outside, Arrive, coreVars
<1>7. CASE PollStep
  BY <1>2, <1>7 DEF PollStep, Poll, CallCore
<1>8. CASE FaultStep
  BY <1>2, <1>8 DEF FaultStep, PollFails, CallCore
<1>9. CASE HandleStep
  BY <1>2, <1>9 DEF HandleStep, HandleOfflineMessage, coreVars
<1>10. CASE UNCHANGED vars
  BY <1>2, <1>10 DEF vars, backendVars, coreVars
<1> QED
  BY <1>1, <1>3, <1>4, <1>5, <1>6, <1>7, <1>8, <1>9, <1>10 DEF FrontEndNext

(* Nobody is logged in without having ticked the agreement, although       *)
(* handleLogin looks at it on the second page only.                        *)
THEOREM AgreementFirst == FrontEndSpec => []AgreedBeforeLogin
<1>1. LoginInv => AgreedBeforeLogin
  BY DEF LoginInv, AgreedBeforeLogin
<1> QED
  BY <1>1, InitLoginInv, NextLoginInv, PTL DEF FrontEndSpec

-----------------------------------------------------------------------------
(* Mail: the batch is the end of what was pulled, and nothing is pulled    *)
(* before the login.                                                       *)
Handled == SubSeq(pulled, 1, Len(pulled) - Len(batch))
Of(c) == {m \in Parsed : m.conv = c}

MailInv ==
    /\ inbox \in Seq(Payloads) /\ batch \in Seq(Parsed) /\ pulled \in Seq(Parsed)
    /\ arrived \in 0..MaxArrived
    /\ Len(batch) <= Len(pulled)
    /\ \A i \in 1..Len(batch) : pulled[Len(pulled) - Len(batch) + i] = batch[i]
    /\ stage \in {"login", "accepted"} => pulled = << >>

(* The handled messages are the first ones of those pulled.                *)
LEMMA HandledType ==
    ASSUME MailInv
    PROVE  /\ Handled \in Seq(Parsed) /\ Len(Handled) = Len(pulled) - Len(batch)
           /\ \A i \in 1..Len(Handled) : Handled[i] = pulled[i]
<1>1. PICK p \in Nat, b \in Nat : p = Len(pulled) /\ b = Len(batch) /\ b <= p
  BY LenProperties DEF MailInv
<1>2. p - b \in Nat /\ p - b <= p
  BY <1>1
<1>3. /\ SubSeq(pulled, 1, p - b) \in Seq(Parsed) /\ Len(SubSeq(pulled, 1, p - b)) = p - b
      /\ \A i \in 1..(p - b) : SubSeq(pulled, 1, p - b)[i] = pulled[i]
  <2>1. pulled \in Seq(Parsed)
    BY DEF MailInv
  <2> QED
    BY <1>1, <1>2, <2>1
<1> QED
  BY <1>1, <1>3 DEF Handled

(* A payload without a CONV line belongs to the system's conversation.     *)
LEMMA PayloadParsed ==
    ASSUME NEW p \in Payloads
    PROVE  ParsePayload(p) \in Parsed
BY DEF Payloads, Parsed, ParsePayload, Conversations

(* The messages of one Poll. *)
Messages == [i \in DOMAIN inbox |-> ParsePayload(inbox[i])]

(* One pollOffline parses as many messages as wait.                        *)
LEMMA MessagesType ==
    ASSUME inbox \in Seq(Payloads)
    PROVE  Messages \in Seq(Parsed) /\ Len(Messages) = Len(inbox)
<1>1. /\ Len(inbox) \in Nat /\ DOMAIN inbox = 1..Len(inbox)
      /\ \A i \in 1..Len(inbox) : inbox[i] \in Payloads
  BY LenProperties, ElementOfSeq
<1>2. Messages \in [1..Len(inbox) -> Parsed]
  BY <1>1, PayloadParsed DEF Messages
<1> QED
  BY <1>1, <1>2

(* pollOffline runs in an event loop, so nothing is left of the batch      *)
(* before: the new batch follows what was handled.                         *)
LEMMA PollMail ==
    ASSUME MailInv, LoginInv, Poll
    PROVE  MailInv' /\ Handled' = Handled
<1>1. /\ batch = << >> /\ batch' = Messages /\ pulled' = pulled \o Messages
      /\ inbox' = << >> /\ UNCHANGED <<stage, arrived>> /\ stage = "main"
  BY DEF Poll, Idle, LoginInv, Messages
<1>2. /\ Messages \in Seq(Parsed) /\ pulled \in Seq(Parsed)
  BY MessagesType DEF MailInv
<1>3. PICK p \in Nat, b \in Nat : p = Len(pulled) /\ b = Len(Messages)
  BY <1>2, LenProperties
<1>4. /\ pulled \o Messages \in Seq(Parsed) /\ Len(pulled \o Messages) = p + b
      /\ \A i \in 1..(p + b) : (pulled \o Messages)[i] = IF i <= p THEN pulled[i]
                                                        ELSE Messages[i - p]
  BY <1>2, <1>3, ConcatProperties
<1>5. \A i \in 1..b : p + i \in 1..(p + b) /\ ~(p + i <= p) /\ (p + i) - p = i
  BY <1>3
<1>6. \A i \in 1..b : (pulled \o Messages)[p + i] = Messages[i]
  BY <1>4, <1>5
<1>7. (p + b) - b = p /\ b <= p + b
  BY <1>3
<1>8. MailInv'
  BY <1>1, <1>2, <1>3, <1>4, <1>6, <1>7 DEF MailInv
<1>9. Len(<< >>) = 0 /\ p - 0 = p
  BY EmptySeq
<1>10. Handled = SubSeq(pulled, 1, p)
  BY <1>1, <1>3, <1>9 DEF Handled
<1>11. Handled = pulled
  BY <1>2, <1>3, <1>10, SubSeqFull
<1>12. Handled' = SubSeq(pulled \o Messages, 1, p)
  BY <1>1, <1>3, <1>4, <1>7 DEF Handled
<1>13. SubSeq(pulled \o Messages, 1, p) = pulled
  <2>1. /\ SubSeq(pulled \o Messages, 1, p) \in Seq(Parsed)
        /\ Len(SubSeq(pulled \o Messages, 1, p)) = p
        /\ \A i \in 1..p : SubSeq(pulled \o Messages, 1, p)[i] = (pulled \o Messages)[i]
    <3> DEFINE s == pulled \o Messages
    <3>1. s \in Seq(Parsed) /\ Len(s) = p + b
      BY <1>4
    <3> HIDE DEF s
    <3>2. /\ SubSeq(s, 1, p) \in Seq(Parsed) /\ Len(SubSeq(s, 1, p)) = p
          /\ \A i \in 1..p : SubSeq(s, 1, p)[i] = s[i]
      BY <1>3, <3>1
    <3> QED
      BY <3>2 DEF s
  <2>2. \A i \in 1..p : i \in 1..(p + b) /\ i <= p
    BY <1>3
  <2> QED
    BY <1>2, <1>3, <1>4, <2>1, <2>2, SeqEqual
<1> QED
  BY <1>8, <1>11, <1>12, <1>13

(* handleOfflineMessage takes the oldest message of the batch.             *)
LEMMA HandleMail ==
    ASSUME MailInv, batch # << >>, batch' = Tail(batch),
           UNCHANGED <<inbox, pulled, arrived, stage>>
    PROVE  MailInv' /\ Handled' = Append(Handled, Head(batch)) /\ Head(batch) \in Parsed
<1>1. batch \in Seq(Parsed) /\ pulled \in Seq(Parsed) /\ Len(batch) <= Len(pulled)
  BY DEF MailInv
<1>2. PICK p \in Nat, b \in Nat : p = Len(pulled) /\ b + 1 = Len(batch) /\ b + 1 <= p
  <2>1. Len(batch) \in Nat /\ Len(batch) # 0 /\ Len(pulled) \in Nat
    BY <1>1, LenProperties, EmptySeq
  <2>2. Len(batch) - 1 \in Nat /\ (Len(batch) - 1) + 1 = Len(batch)
    BY <2>1
  <2> QED
    BY <1>1, <2>1, <2>2
<1>3. /\ Tail(batch) \in Seq(Parsed) /\ Len(Tail(batch)) = b
      /\ \A i \in 1..b : Tail(batch)[i] = batch[i + 1]
      /\ Head(batch) = batch[1] /\ Head(batch) \in Parsed
  BY <1>1, <1>2, HeadTailProperties
<1>4. \A i \in 1..(b + 1) : pulled[(p - (b + 1)) + i] = batch[i]
  BY <1>2 DEF MailInv
<1>5. \A i \in 1..b : i + 1 \in 1..(b + 1) /\ (p - (b + 1)) + (i + 1) = (p - b) + i
  BY <1>2
<1>6. \A i \in 1..b : pulled[(p - b) + i] = Tail(batch)[i]
  BY <1>3, <1>4, <1>5
<1>7. b <= p
  BY <1>2
<1>8. MailInv'
  BY <1>1, <1>2, <1>3, <1>6, <1>7 DEF MailInv
<1>9. PICK d \in Nat : d = p - (b + 1) /\ p - b = d + 1 /\ d + 1 <= p
  BY <1>2
<1>10. Handled = SubSeq(pulled, 1, d) /\ Handled' = SubSeq(pulled, 1, d + 1)
  <2>1. Handled = SubSeq(pulled, 1, p - (b + 1))
    BY <1>2 DEF Handled
  <2>2. Handled' = SubSeq(pulled, 1, p - b)
    BY <1>2, <1>3 DEF Handled
  <2> QED
    BY <1>9, <2>1, <2>2
<1>11. pulled[d + 1] = Head(batch)
  <2>1. 1 \in 1..(b + 1)
    BY <1>2
  <2> QED
    BY <1>3, <1>4, <1>9, <2>1
<1>12. /\ SubSeq(pulled, 1, d) \in Seq(Parsed) /\ Len(SubSeq(pulled, 1, d)) = d
       /\ \A i \in 1..d : SubSeq(pulled, 1, d)[i] = pulled[i]
  BY <1>1, <1>2, <1>9
<1>13. /\ SubSeq(pulled, 1, d + 1) \in Seq(Parsed) /\ Len(SubSeq(pulled, 1, d + 1)) = d + 1
       /\ \A i \in 1..(d + 1) : SubSeq(pulled, 1, d + 1)[i] = pulled[i]
  BY <1>1, <1>2, <1>9
<1>14. /\ Append(SubSeq(pulled, 1, d), Head(batch)) \in Seq(Parsed)
       /\ Len(Append(SubSeq(pulled, 1, d), Head(batch))) = d + 1
       /\ \A i \in 1..d : Append(SubSeq(pulled, 1, d), Head(batch))[i] = pulled[i]
       /\ Append(SubSeq(pulled, 1, d), Head(batch))[d + 1] = Head(batch)
  BY <1>3, <1>9, <1>12, AppendProperties
<1>15. \A i \in 1..(d + 1) : i \in 1..d \/ i = d + 1
  BY <1>9
<1>16. SubSeq(pulled, 1, d + 1) = Append(SubSeq(pulled, 1, d), Head(batch))
  BY <1>9, <1>11, <1>13, <1>14, <1>15, SeqEqual
<1> QED
  BY <1>3, <1>8, <1>10, <1>16

(* Steps that leave the batch alone.                                       *)
LEMMA OtherMail ==
    ASSUME MailInv, UNCHANGED <<batch, pulled>>, inbox' \in Seq(Payloads),
           arrived' \in 0..MaxArrived,
           stage' = stage \/ (stage \notin {"login", "accepted"}
                                /\ stage' \notin {"login", "accepted"})
              \/ stage \in {"login", "accepted"}
    PROVE  MailInv' /\ Handled' = Handled
BY DEF MailInv, Handled

(* Nothing is pulled at the start.                                         *)
LEMMA InitMailInv == FrontEndInit => MailInv
<1> SUFFICES ASSUME FrontEndInit PROVE MailInv
  OBVIOUS
<1>1. inbox = << >> /\ batch = << >> /\ pulled = << >> /\ arrived = 0
  BY DEF FrontEndInit, BackendInit
<1>2. \A X : << >> \in Seq(X) /\ Len(<< >>) = 0
  BY EmptySeq
<1>3. 0 \in 0..MaxArrived
  BY NamesAssumption
<1> QED
  BY <1>1, <1>2, <1>3 DEF MailInv

-----------------------------------------------------------------------------
(* What has come for one conversation. *)
LEMMA ComeType ==
    ASSUME MailInv, NEW c
    PROVE  Come(c) \in Seq(Parsed) /\ Len(Come(c)) \in Nat
<1>1. Kept(Handled, Of(c)) \in Seq(Parsed)
  BY HandledType, KeptType
<1> QED
  BY <1>1, LenProperties DEF Come, Handled, Of

(* What has come depends on what was handled only.                         *)
LEMMA ComeStays ==
    ASSUME Handled' = Handled
    PROVE  \A c : Come(c)' = Come(c)
BY DEF Come, Handled

(* A handled message has come for its own conversation and no other.       *)
LEMMA ComeGrows ==
    ASSUME MailInv, NEW m \in Parsed, Handled' = Append(Handled, m), NEW c
    PROVE  Come(c)' = IF m.conv = c THEN Append(Come(c), m) ELSE Come(c)
<1>1. Kept(Append(Handled, m), Of(c)) =
         IF m \in Of(c) THEN Append(Kept(Handled, Of(c)), m) ELSE Kept(Handled, Of(c))
  BY HandledType, KeptAppend
<1>2. m \in Of(c) <=> m.conv = c
  BY DEF Of
<1>3. Kept(Handled, Of(c)) = Come(c)
  BY DEF Come, Handled, Of
<1>4. Kept(Handled', Of(c)) = Come(c)'
  BY DEF Come, Handled, Of
<1> QED
  BY <1>1, <1>2, <1>3, <1>4

(* What a step does to the mail: the handler takes one message from the    *)
(* batch, no other step changes what has come.                             *)
LEMMA LoginMail ==
    ASSUME LoginStep
    PROVE  UNCHANGED mailVars /\ (stage' = stage \/ stage = "login")
BY DEF LoginStep, Edit, PressLabel, LabelsShown, SwitchToAccountPage, SwitchToSimplePage,
       HandleLogin, TryLogin, CloseWarning, Reject, Open, backendVars

LEMMA UserMail ==
    ASSUME WindowStep \/ SendStep \/ DialogStep
    PROVE  /\ UNCHANGED mailVars
           /\ \/ stage' = stage
              \/ stage = "accepted"
              \/ (stage = "main" /\ stage' = "ended")
<1>1. CASE WindowStep
  BY <1>1 DEF WindowStep, BuildList, OpenChat, CloseChat, CloseList, Input, backendVars
<1>2. CASE SendStep
  BY <1>2 DEF SendStep, SendMessage, ChooseFile, SendFile, AfterCall, backendVars
<1>3. CASE DialogStep
  BY <1>3 DEF DialogStep, ShowMenu, SetRemark, PressAdd, EnterName, AddFriend,
              Dismiss, AfterCall, backendVars
<1> QED
  BY <1>1, <1>2, <1>3

(* A message that reaches the server stays there until the next poll.      *)
LEMMA ArriveMail ==
    ASSUME MailInv, Outside
    PROVE  MailInv' /\ Handled' = Handled
<1>1. PICK c \in Names \cup {NoName} : Arrive(c)
  BY DEF Outside
<1>2. inbox \in Seq(Payloads) /\ arrived \in 0..MaxArrived
  BY DEF MailInv
<1>3. arrived' = arrived + 1 /\ arrived' \in 1..MaxArrived /\ arrived' \in 0..MaxArrived
  BY <1>1, <1>2, NamesAssumption DEF Arrive
<1>4. inbox' = Append(inbox, [conv |-> c, n |-> arrived'])
  BY <1>1 DEF Arrive
<1>5. [conv |-> c, n |-> arrived'] \in Payloads
  BY <1>3 DEF Payloads
<1>6. inbox' \in Seq(Payloads)
  BY <1>2, <1>4, <1>5, AppendProperties
<1>7. UNCHANGED <<stage, batch, pulled>>
  BY <1>1 DEF Arrive
<1> QED
  BY <1>3, <1>6, <1>7, OtherMail

(* A poll that fails leaves the messages at the server or loses them.      *)
LEMMA FaultMail ==
    ASSUME MailInv, FaultStep
    PROVE  MailInv' /\ Handled' = Handled
<1>1. inbox' \in {inbox, << >>} /\ UNCHANGED <<stage, batch, pulled, arrived>>
  BY DEF FaultStep, PollFails
<1>2. inbox' \in Seq(Payloads) /\ arrived' \in 0..MaxArrived
  BY <1>1, EmptySeq DEF MailInv
<1> QED
  BY <1>1, <1>2, OtherMail

(* The mail keeps its invariant in every step.                             *)
LEMMA StepMail ==
    ASSUME MailInv, LoginInv, [FrontEndNext]_vars
    PROVE  /\ MailInv'
           /\ (LoginStep \/ WindowStep \/ SendStep \/ DialogStep \/ Outside \/ PollStep
                 \/ FaultStep \/ UNCHANGED vars) => Handled' = Handled
           /\ HandleStep => /\ Head(batch) \in Parsed
                            /\ Handled' = Append(Handled, Head(batch))
<1>1. ASSUME UNCHANGED mailVars,
             stage' = stage \/ stage \in {"login", "accepted"}
                \/ (stage = "main" /\ stage' = "ended")
      PROVE  MailInv' /\ Handled' = Handled
  <2>1. inbox' \in Seq(Payloads) /\ arrived' \in 0..MaxArrived
    BY <1>1 DEF MailInv, mailVars
  <2>2. UNCHANGED <<batch, pulled>>
    BY <1>1 DEF mailVars
  <2> QED
    BY <1>1, <2>1, <2>2, OtherMail
<1>2. ASSUME LoginStep
      PROVE  MailInv' /\ Handled' = Handled
  BY <1>1, <1>2, LoginMail
<1>3. ASSUME WindowStep \/ SendStep \/ DialogStep
      PROVE  MailInv' /\ Handled' = Handled
  BY <1>1, <1>3, UserMail
<1>4. ASSUME Outside
      PROVE  MailInv' /\ Handled' = Handled
  BY <1>4, ArriveMail
<1>5. ASSUME PollStep
      PROVE  MailInv' /\ Handled' = Handled
  BY <1>5, PollMail DEF PollStep
<1>6. ASSUME HandleStep
      PROVE  MailInv' /\ Head(batch) \in Parsed /\ Handled' = Append(Handled, Head(batch))
  <2>1. /\ batch # << >> /\ batch' = Tail(batch)
        /\ UNCHANGED <<inbox, pulled, arrived, stage>>
    BY <1>6 DEF HandleStep, HandleOfflineMessage
  <2> QED
    BY <2>1, HandleMail
<1>7. ASSUME UNCHANGED vars
      PROVE  MailInv' /\ Handled' = Handled
  <2>1. UNCHANGED mailVars /\ stage' = stage
    BY <1>7 DEF vars, backendVars
  <2> QED
    BY <1>1, <2>1
<1>8. ASSUME FaultStep
      PROVE  MailInv' /\ Handled' = Handled
  BY <1>8, FaultMail
<1> QED
  BY <1>2, <1>3, <1>4, <1>5, <1>6, <1>7, <1>8 DEF FrontEndNext

-----------------------------------------------------------------------------
(* The list.                                                               *)
Rec == [id : Conversations, title : Titles \cup {NoRemark}, unread : Nat]

UniqueIds(list) == \A i, j \in 1..Len(list) : list[i].id = list[j].id => i = j

(* The row i, which is that of c, shows c's remark and what is unread.     *)
RowOK(i, c) ==
    /\ edited[c] # NoName => rows[i].title = Display(c, edited[c])
    /\ rows[i].title \in Conversations => rows[i].title = c
    /\ rows[i].unread = Len(Come(c)) - readAt[c]

(* A conversation without a row: its name may be reserved and the row gone. *)
NoRowOK(c) ==
    /\ edited[c] = NoName
    /\ readAt[c] = Len(Come(c))
    /\ c \notin Reserved => Come(c) = << >>

RowInv ==
    /\ rows \in Seq(Rec) /\ UniqueIds(rows)
    /\ edited \in [Conversations -> Remarks \cup {NoRemark, NoName}]
    /\ readAt \in [Conversations -> Nat]
    /\ \A c \in Conversations :
          /\ readAt[c] <= Len(Come(c))
          /\ c \in Reserved => edited[c] = NoName
          /\ NoRowOK(c) \/ \E i \in 1..Len(rows) : rows[i].id = c
          /\ \A i \in 1..Len(rows) : rows[i].id = c => RowOK(i, c)

(* Steps without anything new for the list.                                *)
LEMMA RowsKept ==
    ASSUME RowInv, UNCHANGED <<rows, edited, readAt>>, Handled' = Handled
    PROVE  RowInv'
<1>1. \A c : Come(c)' = Come(c)
  BY ComeStays
<1> QED
  BY <1>1 DEF RowInv, RowOK, NoRowOK, UniqueIds, Display

(* The list after a step that adds or changes one row only.                *)
OneRow(list, k, c) ==
    /\ list \in Seq(Rec) /\ k \in 1..Len(list) /\ list[k].id = c
    /\ \A i \in 1..Len(list) : i # k => i \in 1..Len(rows) /\ list[i] = rows[i]
    /\ \A i \in 1..Len(rows) : i \in 1..Len(list)
    /\ \A i \in 1..Len(rows) : rows[i].id = c <=> i = k

(* A row that is changed keeps its id, and one that is added has a new     *)
(* one.                                                                    *)
LEMMA OneRowUnique ==
    ASSUME UniqueIds(rows), NEW list, NEW k, NEW c, OneRow(list, k, c)
    PROVE  /\ UniqueIds(list)
           /\ \A i \in 1..Len(list) : list[i].id = c <=> i = k
           /\ \A i \in 1..Len(rows) : list[i].id = rows[i].id
<1>1. \A i \in 1..Len(list) : list[i].id = c <=> i = k
  BY DEF OneRow
<1>2. \A i \in 1..Len(rows) : list[i].id = rows[i].id
  BY DEF OneRow
<1>3. ASSUME NEW i \in 1..Len(list), NEW j \in 1..Len(list), list[i].id = list[j].id
      PROVE  i = j
  <2>1. CASE i = k \/ j = k
    BY <1>1, <1>3, <2>1
  <2>2. CASE i # k /\ j # k
    BY <1>3, <2>2 DEF OneRow, UniqueIds
  <2> QED
    BY <2>1, <2>2
<1> QED
  BY <1>1, <1>2, <1>3 DEF UniqueIds

(* A list whose row k alone differs from the rows keeps the invariant, if  *)
(* the row is right and there is nothing new about other conversations.    *)
LEMMA OneRowKeeps ==
    ASSUME RowInv, NEW k, NEW c \in Conversations, OneRow(rows', k, c),
           edited' \in [Conversations -> Remarks \cup {NoRemark, NoName}],
           readAt' \in [Conversations -> Nat],
           \A d \in Conversations : d # c => /\ edited'[d] = edited[d]
                                             /\ readAt'[d] = readAt[d]
                                             /\ Come(d)' = Come(d),
           readAt'[c] <= Len(Come(c)'), RowOK(k, c)',
           c \in Reserved => edited'[c] = NoName
    PROVE  RowInv'
<1>1. /\ UniqueIds(rows')
      /\ \A i \in 1..Len(rows') : rows'[i].id = c <=> i = k
      /\ \A i \in 1..Len(rows) : rows'[i].id = rows[i].id
  BY OneRowUnique DEF RowInv
<1>2. /\ rows' \in Seq(Rec) /\ k \in 1..Len(rows') /\ rows'[k].id = c
      /\ \A i \in 1..Len(rows') : i # k => i \in 1..Len(rows) /\ rows'[i] = rows[i]
      /\ \A i \in 1..Len(rows) : i \in 1..Len(rows')
  BY DEF OneRow
<1>3. ASSUME NEW d \in Conversations
      PROVE  /\ readAt'[d] <= Len(Come(d)')
             /\ d \in Reserved => edited'[d] = NoName
             /\ NoRowOK(d)' \/ \E i \in 1..Len(rows') : rows'[i].id = d
             /\ \A i \in 1..Len(rows') : rows'[i].id = d => RowOK(i, d)'
  <2>1. CASE d = c
    <3>1. /\ readAt'[d] <= Len(Come(d)')
          /\ d \in Reserved => edited'[d] = NoName
          /\ \E i \in 1..Len(rows') : rows'[i].id = d
      BY <1>2, <2>1
    <3>2. ASSUME NEW i \in 1..Len(rows'), rows'[i].id = d
          PROVE  RowOK(i, d)'
      BY <1>1, <2>1, <3>2
    <3> QED
      BY <3>1, <3>2
  <2>2. CASE d # c
    <3>1. /\ readAt[d] <= Len(Come(d))
          /\ d \in Reserved => edited[d] = NoName
          /\ NoRowOK(d) \/ \E i \in 1..Len(rows) : rows[i].id = d
          /\ \A i \in 1..Len(rows) : rows[i].id = d => RowOK(i, d)
      BY DEF RowInv
    <3>2. Come(d)' = Come(d) /\ edited'[d] = edited[d] /\ readAt'[d] = readAt[d]
      BY <2>2
    <3>3. ASSUME NEW i \in 1..Len(rows'), rows'[i].id = d
          PROVE  RowOK(i, d)'
      <4>1. i # k /\ i \in 1..Len(rows) /\ rows'[i] = rows[i]
        BY <1>2, <2>2, <3>3
      <4>2. RowOK(i, d)
        BY <3>1, <3>3, <4>1
      <4> QED
        BY <3>2, <4>1, <4>2 DEF RowOK, Display
    <3>4. NoRowOK(d)' \/ \E i \in 1..Len(rows') : rows'[i].id = d
      BY <1>1, <1>2, <3>1, <3>2 DEF NoRowOK
    <3> QED
      BY <3>1, <3>2, <3>3, <3>4
  <2> QED
    BY <2>1, <2>2
<1> QED
  BY <1>1, <1>2, <1>3 DEF RowInv

(* RowsOf, by the positions of a sequence.                                 *)
LEMMA NoRows ==
    ASSUME NEW c, \A i \in 1..Len(rows) : rows[i].id # c, rows \in Seq(Rec)
    PROVE  RowsOf(c) = {}
<1>1. DOMAIN rows = 1..Len(rows)
  BY LenProperties
<1> QED
  BY <1>1 DEF RowsOf

(* The first row found is the only one.                                    *)
LEMMA ItsRow ==
    ASSUME NEW c, NEW k \in 1..Len(rows), rows[k].id = c, rows \in Seq(Rec), UniqueIds(rows)
    PROVE  RowsOf(c) = {k} /\ Min(RowsOf(c)) = k
<1>1. DOMAIN rows = 1..Len(rows) /\ Len(rows) \in Nat
  BY LenProperties
<1>2. RowsOf(c) = {k}
  BY <1>1 DEF RowsOf, UniqueIds
<1>3. Min({k}) = k
  BY <1>1 DEF Min
<1> QED
  BY <1>2, <1>3

-----------------------------------------------------------------------------
(* A conversation without a row gets one at the end.                       *)
LEMMA CountedNew ==
    ASSUME rows \in Seq(Rec), NEW c \in Conversations,
           \A i \in 1..Len(rows) : rows[i].id # c
    PROVE  /\ OneRow(Count(c), Place(c), c)
           /\ Place(c) \notin 1..Len(rows)
           /\ Count(c)[Place(c)] = Row(c, c, 1)
<1>1. Count(c) = Append(rows, Row(c, c, 1)) /\ Place(c) = Len(rows) + 1
  BY NoRows DEF Count, Place, NewRow
<1>2. Row(c, c, 1) \in Rec
  BY DEF Row, Rec, Titles
<1>3. PICK n \in Nat : n = Len(rows)
  BY LenProperties
<1>4. /\ Append(rows, Row(c, c, 1)) \in Seq(Rec)
      /\ Len(Append(rows, Row(c, c, 1))) = n + 1
      /\ \A i \in 1..n : Append(rows, Row(c, c, 1))[i] = rows[i]
      /\ Append(rows, Row(c, c, 1))[n + 1] = Row(c, c, 1)
  BY <1>2, <1>3, AppendProperties
<1>5. /\ n + 1 \in 1..(n + 1) /\ n + 1 \notin 1..n
      /\ \A i \in 1..n : i \in 1..(n + 1)
      /\ \A i \in 1..(n + 1) : i # n + 1 => i \in 1..n
  BY <1>3
<1>6. Row(c, c, 1).id = c
  BY DEF Row
<1> QED
  BY <1>1, <1>3, <1>4, <1>5, <1>6 DEF OneRow

(* A change of the row's other fields.                                     *)
LEMMA ChangedRow ==
    ASSUME NEW list \in Seq(Rec), NEW k, NEW c, OneRow(list, k, c),
           NEW r \in Rec, r.id = c
    PROVE  OneRow([list EXCEPT ![k] = r], k, c) /\ [list EXCEPT ![k] = r][k] = r
<1>1. k \in 1..Len(list) /\ DOMAIN list = 1..Len(list)
  BY LenProperties DEF OneRow
<1>2. /\ [list EXCEPT ![k] = r] \in Seq(Rec)
      /\ Len([list EXCEPT ![k] = r]) = Len(list)
      /\ \A i \in 1..Len(list) : [list EXCEPT ![k] = r][i] = IF i = k THEN r ELSE list[i]
  BY <1>1, ExceptSeq
<1> QED
  BY <1>1, <1>2 DEF OneRow

(* The list itself, seen from one of its rows.                             *)
LEMMA OldRow ==
    ASSUME rows \in Seq(Rec), UniqueIds(rows), NEW k \in 1..Len(rows), NEW c,
           rows[k].id = c
    PROVE  OneRow(rows, k, c)
BY DEF OneRow, UniqueIds

(* Counting one more message changes the number only.                      *)
LEMMA OneMore ==
    ASSUME NEW r \in Rec
    PROVE  LET q == [r EXCEPT !.unread = @ + 1]
           IN  q \in Rec /\ q.id = r.id /\ q.title = r.title /\ q.unread = r.unread + 1
<1>1. /\ r = [id |-> r.id, title |-> r.title, unread |-> r.unread]
      /\ r.id \in Conversations /\ r.title \in Titles \cup {NoRemark}
      /\ r.unread \in Nat
  BY DEF Rec
<1>2. r.unread + 1 \in Nat
  BY <1>1
<1>3. [r EXCEPT !.unread = @ + 1]
         = [id |-> r.id, title |-> r.title, unread |-> r.unread + 1]
  BY <1>1
<1>4. [id |-> r.id, title |-> r.title, unread |-> r.unread + 1] \in Rec
  BY <1>1, <1>2 DEF Rec
<1> QED
  BY <1>3, <1>4

(* A conversation with a row has one more unread message in it.            *)
LEMMA CountedOld ==
    ASSUME rows \in Seq(Rec), UniqueIds(rows), NEW c \in Conversations,
           NEW k \in 1..Len(rows), rows[k].id = c
    PROVE  /\ OneRow(Count(c), k, c) /\ Place(c) = k
           /\ Count(c)[k] = [rows[k] EXCEPT !.unread = @ + 1]
<1>1. RowsOf(c) = {k} /\ Min(RowsOf(c)) = k
  BY ItsRow
<1>2. Count(c) = [rows EXCEPT ![k] = [rows[k] EXCEPT !.unread = @ + 1]] /\ Place(c) = k
  BY <1>1 DEF Count, Place
<1>3. rows[k] \in Rec
  BY ElementOfSeq
<1> DEFINE r == [rows[k] EXCEPT !.unread = @ + 1]
<1>4. r \in Rec /\ r.id = c
  BY <1>3, OneMore
<1>5. Count(c) = [rows EXCEPT ![k] = r]
  BY <1>2
<1> HIDE DEF r
<1>6. OneRow(Count(c), k, c) /\ Count(c)[k] = r
  <2>1. OneRow(rows, k, c)
    BY OldRow
  <2>2. OneRow([rows EXCEPT ![k] = r], k, c) /\ [rows EXCEPT ![k] = r][k] = r
    BY <1>4, <2>1, ChangedRow
  <2> QED
    BY <1>5, <2>2
<1> QED
  BY <1>2, <1>6 DEF r

(* The row of the conversation after a message was counted in it.          *)
CountedRow(k, r, c, n) ==
    /\ OneRow(Count(c), k, c) /\ Place(c) = k /\ Count(c)[k] = r
    /\ r \in Rec /\ r.id = c
    /\ edited[c] # NoName => r.title = Display(c, edited[c])
    /\ r.title \in Conversations => r.title = c
    /\ r.unread = (n + 1) - readAt[c]

(* Handling a message: the row counts it, or counts as read if the window  *)
(* is open.  The rows before stay where they are.                          *)
LEMMA HandledRows ==
    ASSUME RowInv, MailInv, NEW m \in Parsed, NEW c, c = m.conv,
           Handled' = Append(Handled, m), UNCHANGED edited,
           \/ /\ rows' = [Count(c) EXCEPT ![Place(c)].unread = 0]
              /\ readAt' = [readAt EXCEPT ![c] = Len(Come(c)) + 1]
           \/ rows' = Count(c) /\ UNCHANGED readAt
    PROVE  /\ RowInv'
           /\ \A i \in 1..Len(rows) : i \in 1..Len(rows') /\ rows'[i].id = rows[i].id
<1>1. c \in Conversations
  BY DEF Parsed
<1>2. PICK n \in Nat : n = Len(Come(c))
  BY ComeType
<1>3. Len(Come(c)') = n + 1 /\ \A d \in Conversations : d # c => Come(d)' = Come(d)
  <2>1. \A d : Come(d)' = IF m.conv = d THEN Append(Come(d), m) ELSE Come(d)
    BY ComeGrows
  <2>2. Come(c)' = Append(Come(c), m)
    BY <2>1
  <2>3. Come(c) \in Seq(Parsed)
    BY ComeType
  <2>4. Len(Append(Come(c), m)) = n + 1
    BY <1>2, <2>3, AppendProperties
  <2> QED
    BY <2>1, <2>2, <2>4
<1>4. /\ rows \in Seq(Rec) /\ UniqueIds(rows)
      /\ edited \in [Conversations -> Remarks \cup {NoRemark, NoName}]
      /\ readAt \in [Conversations -> Nat] /\ readAt[c] <= n
      /\ c \in Reserved => edited'[c] = NoName
      /\ NoRowOK(c) \/ \E i \in 1..Len(rows) : rows[i].id = c
      /\ \A i \in 1..Len(rows) : rows[i].id = c => RowOK(i, c)
  BY <1>1, <1>2 DEF RowInv
<1>5. \E k, r : CountedRow(k, r, c, n)
  <2>1. CASE \A i \in 1..Len(rows) : rows[i].id # c
    <3>1. readAt[c] = n /\ edited[c] = NoName
      BY <1>2, <1>4, <2>1 DEF NoRowOK
    <3>2. OneRow(Count(c), Place(c), c) /\ Count(c)[Place(c)] = Row(c, c, 1)
      BY <1>1, <1>4, <2>1, CountedNew
    <3>3. Row(c, c, 1) \in Rec /\ Row(c, c, 1).id = c /\ Row(c, c, 1).title = c
            /\ Row(c, c, 1).unread = 1
      BY <1>1 DEF Row, Rec, Titles
    <3>4. 1 = (n + 1) - n
      OBVIOUS
    <3>5. CountedRow(Place(c), Row(c, c, 1), c, n)
      BY <3>1, <3>2, <3>3, <3>4 DEF CountedRow
    <3> QED
      BY <3>5
  <2>2. ASSUME NEW k \in 1..Len(rows), rows[k].id = c
        PROVE  \E r : CountedRow(k, r, c, n)
    <3> DEFINE r == [rows[k] EXCEPT !.unread = @ + 1]
    <3>1. OneRow(Count(c), k, c) /\ Place(c) = k /\ Count(c)[k] = r
      BY <1>1, <1>4, <2>2, CountedOld
    <3>2. rows[k] \in Rec
      BY <1>4, ElementOfSeq
    <3>3. /\ r \in Rec /\ r.id = c /\ r.title = rows[k].title
          /\ r.unread = rows[k].unread + 1
      BY <2>2, <3>2, OneMore
    <3>4. RowOK(k, c)
      BY <1>4, <2>2
    <3>5. rows[k].unread = n - readAt[c]
      BY <1>2, <3>4 DEF RowOK
    <3>6. readAt[c] \in Nat
      BY <1>1, <1>4
    <3>7. (n - readAt[c]) + 1 = (n + 1) - readAt[c]
      BY <3>6
    <3> HIDE DEF r
    <3>8. /\ edited[c] # NoName => rows[k].title = Display(c, edited[c])
          /\ rows[k].title \in Conversations => rows[k].title = c
      BY <3>4 DEF RowOK
    <3>9. CountedRow(k, r, c, n)
      BY <3>1, <3>3, <3>5, <3>7, <3>8 DEF CountedRow
    <3> QED
      BY <3>9
  <2> QED
    BY <2>1, <2>2
<1>6. PICK k, r :
         /\ OneRow(Count(c), k, c) /\ Place(c) = k /\ Count(c)[k] = r
         /\ r \in Rec /\ r.id = c
         /\ edited[c] # NoName => r.title = Display(c, edited[c])
         /\ r.title \in Conversations => r.title = c
         /\ r.unread = (n + 1) - readAt[c]
  BY <1>5 DEF CountedRow
<1>7. Count(c) \in Seq(Rec)
  BY <1>6 DEF OneRow
<1>8. CASE rows' = Count(c) /\ UNCHANGED readAt
  <2>1. readAt[c] \in Nat /\ readAt[c] <= n + 1
    <3>1. readAt[c] \in Nat
      BY <1>1, <1>4
    <3> QED
      BY <1>4, <3>1
  <2>2. OneRow(rows', k, c) /\ RowOK(k, c)'
    <3>1. OneRow(rows', k, c)
      BY <1>6, <1>8
    <3>2. rows'[k].unread = Len(Come(c)') - readAt'[c]
      BY <1>3, <1>6, <1>8
    <3> QED
      BY <1>6, <1>8, <3>1, <3>2 DEF RowOK, Display
  <2>3. RowInv'
    BY <1>1, <1>3, <1>4, <1>8, <2>1, <2>2, OneRowKeeps
  <2> QED
    BY <1>4, <2>2, <2>3, OneRowUnique DEF OneRow
<1>9. CASE /\ rows' = [Count(c) EXCEPT ![Place(c)].unread = 0]
           /\ readAt' = [readAt EXCEPT ![c] = Len(Come(c)) + 1]
  <2> DEFINE q == [r EXCEPT !.unread = 0]
  <2>1. q \in Rec /\ q.id = c /\ q.title = r.title /\ q.unread = 0
    BY <1>6 DEF Rec
  <2>2. rows' = [Count(c) EXCEPT ![k] = q]
    BY <1>6, <1>9
  <2> HIDE DEF q
  <2>3. OneRow(rows', k, c) /\ rows'[k] = q
    BY <1>6, <1>7, <2>1, <2>2, ChangedRow
  <2>4. /\ readAt' \in [Conversations -> Nat] /\ readAt'[c] = n + 1
        /\ \A d \in Conversations : d # c => readAt'[d] = readAt[d]
    BY <1>1, <1>2, <1>4, <1>9
  <2>5. RowOK(k, c)'
    <3>1. rows'[k].unread = Len(Come(c)') - readAt'[c]
      <4>1. 0 = (n + 1) - (n + 1)
        OBVIOUS
      <4> QED
        BY <1>3, <2>1, <2>3, <2>4, <4>1
    <3> QED
      BY <1>6, <2>1, <2>3, <3>1 DEF RowOK, Display
  <2>6. readAt'[c] <= Len(Come(c)')
    BY <1>3, <2>4
  <2>7. RowInv'
    BY <1>1, <1>3, <1>4, <2>3, <2>4, <2>5, <2>6, OneRowKeeps
  <2> QED
    BY <1>4, <2>3, <2>7, OneRowUnique DEF OneRow
<1> QED
  BY <1>8, <1>9

-----------------------------------------------------------------------------
(* The title is the remark, or the id if the remark is empty.              *)
LEMMA DisplayTitle ==
    ASSUME NEW c \in Conversations, NEW remark \in Remarks \cup {NoRemark}
    PROVE  /\ Display(c, remark) \in Titles
           /\ Display(c, remark) \in Conversations => Display(c, remark) = c
BY RemarksAssumption DEF Display, Titles

(* Saving a remark.                                                        *)
LEMMA RemarkedRows ==
    ASSUME RowInv, NEW k \in 1..Len(rows), NEW c \in Conversations \ Reserved,
           rows[k].id = c, NEW remark \in Remarks \cup {NoRemark}, Handled' = Handled,
           rows' = [rows EXCEPT ![k].title = Display(c, remark)],
           edited' = [edited EXCEPT ![c] = remark], UNCHANGED readAt
    PROVE  RowInv'
<1> DEFINE r == [rows[k] EXCEPT !.title = Display(c, remark)]
<1>1. /\ rows \in Seq(Rec) /\ UniqueIds(rows) /\ rows[k] \in Rec
      /\ edited \in [Conversations -> Remarks \cup {NoRemark, NoName}]
      /\ readAt \in [Conversations -> Nat]
      /\ readAt[c] <= Len(Come(c)) /\ RowOK(k, c)
  <2>1. /\ rows \in Seq(Rec) /\ UniqueIds(rows)
        /\ edited \in [Conversations -> Remarks \cup {NoRemark, NoName}]
        /\ readAt \in [Conversations -> Nat]
        /\ readAt[c] <= Len(Come(c)) /\ RowOK(k, c)
    BY DEF RowInv
  <2> QED
    BY <2>1, ElementOfSeq
<1>2. r \in Rec /\ r.id = c /\ r.title = Display(c, remark) /\ r.unread = rows[k].unread
  BY <1>1, DisplayTitle DEF Rec
<1>3. rows' = [rows EXCEPT ![k] = r]
  OBVIOUS
<1> HIDE DEF r
<1>4. OneRow(rows', k, c) /\ rows'[k] = r
  <2>1. OneRow(rows, k, c)
    BY <1>1, OldRow
  <2>2. rows \in Seq(Rec) /\ r \in Rec /\ r.id = c
    BY <1>1, <1>2
  <2>3. OneRow([rows EXCEPT ![k] = r], k, c) /\ [rows EXCEPT ![k] = r][k] = r
    BY <2>1, <2>2, ChangedRow
  <2> QED
    BY <1>3, <2>3
<1>5. \A d : Come(d)' = Come(d)
  BY ComeStays
<1>6. /\ edited' \in [Conversations -> Remarks \cup {NoRemark, NoName}] /\ edited'[c] = remark
      /\ \A d \in Conversations : d # c => edited'[d] = edited[d]
  BY <1>1
<1>7. RowOK(k, c)'
  <2>1. rows[k].unread = Len(Come(c)) - readAt[c]
    BY <1>1 DEF RowOK
  <2> QED
    BY <1>2, <1>4, <1>5, <1>6, <2>1, DisplayTitle DEF RowOK, Display
<1> QED
  BY <1>1, <1>4, <1>5, <1>6, <1>7, OneRowKeeps

-----------------------------------------------------------------------------
(* The rows with a name that is not reserved, each once.                   *)
LEMMA FriendsAre ==
    ASSUME rows \in Seq(Rec), UniqueIds(rows)
    PROVE  /\ Friends \in Seq(Rec) /\ UniqueIds(Friends)
           /\ \A i \in 1..Len(Friends) :
                 \E j \in 1..Len(rows) : Friends[i] = rows[j] /\ rows[j].id \notin Reserved
           /\ \A j \in 1..Len(rows) :
                 rows[j].id \notin Reserved => \E i \in 1..Len(Friends) : Friends[i] = rows[j]
<1>1. Friends \in Seq(Rec)
  BY KeptType DEF Friends
<1>2. \A y : In(y, Friends) <=> In(y, rows) /\ y.id \notin Reserved
  <2>1. \A y : In(y, Friends)
                  <=> In(y, rows) /\ y \in {r \in Range(rows) : r.id \notin Reserved}
    BY KeptIn DEF Friends
  <2>2. \A y : y \in Range(rows) <=> In(y, rows)
    BY RangeIsIn
  <2> QED
    BY <2>1, <2>2
<1>3. \A i \in 1..Len(Friends) :
         \E j \in 1..Len(rows) : Friends[i] = rows[j] /\ rows[j].id \notin Reserved
  <2> SUFFICES ASSUME NEW i \in 1..Len(Friends)
               PROVE  \E j \in 1..Len(rows) : Friends[i] = rows[j] /\ rows[j].id \notin Reserved
    OBVIOUS
  <2>1. In(Friends[i], Friends)
    BY DEF In
  <2>2. In(Friends[i], rows) /\ Friends[i].id \notin Reserved
    BY <1>2, <2>1
  <2>3. PICK j \in 1..Len(rows) : rows[j] = Friends[i]
    BY <2>2 DEF In
  <2> QED
    BY <2>2, <2>3
<1>4. \A j \in 1..Len(rows) :
         rows[j].id \notin Reserved => \E i \in 1..Len(Friends) : Friends[i] = rows[j]
  <2> SUFFICES ASSUME NEW j \in 1..Len(rows), rows[j].id \notin Reserved
               PROVE  \E i \in 1..Len(Friends) : Friends[i] = rows[j]
    OBVIOUS
  <2>1. In(rows[j], rows)
    BY DEF In
  <2>2. In(rows[j], Friends)
    BY <1>2, <2>1
  <2> QED
    BY <2>2 DEF In
<1>5. Injective(rows)
  BY DEF UniqueIds, Injective
<1>6. Injective(Friends)
  BY <1>5, KeptInjective DEF Friends
<1>7. UniqueIds(Friends)
  <2> SUFFICES ASSUME NEW i \in 1..Len(Friends), NEW j \in 1..Len(Friends),
                      Friends[i].id = Friends[j].id
               PROVE  i = j
    BY DEF UniqueIds
  <2>1. PICK p \in 1..Len(rows) : Friends[i] = rows[p]
    BY <1>3
  <2>2. PICK q \in 1..Len(rows) : Friends[j] = rows[q]
    BY <1>3
  <2>3. p = q
    BY <2>1, <2>2 DEF UniqueIds
  <2>4. Friends[i] = Friends[j]
    BY <2>1, <2>2, <2>3
  <2> QED
    BY <1>6, <2>4 DEF Injective
<1> QED
  BY <1>1, <1>3, <1>4, <1>7

(* A list of the old rows, without those of reserved names, and of rows    *)
(* for conversations that had none or a reserved name, in any order, keeps *)
(* the invariant.                                                          *)
LEMMA ReorderedRows ==
    ASSUME RowInv, UNCHANGED edited, Handled' = Handled,
           readAt' = [c \in Conversations |->
                        IF c \in Reserved THEN Len(Come(c)) ELSE readAt[c]],
           rows' \in Seq(Rec), UniqueIds(rows'),
           \A j \in 1..Len(rows) : rows[j].id \notin Reserved
              => \E i \in 1..Len(rows') : rows'[i] = rows[j],
           \A i \in 1..Len(rows') :
              \/ \E j \in 1..Len(rows) : rows'[i] = rows[j] /\ rows[j].id \notin Reserved
              \/ /\ \/ rows'[i].id \in Reserved
                    \/ \A j \in 1..Len(rows) : rows[j].id # rows'[i].id
                 /\ rows'[i].title \in Conversations => rows'[i].title = rows'[i].id
                 /\ rows'[i].unread = 0
    PROVE  RowInv'
<1>1. \A c : Come(c)' = Come(c)
  BY ComeStays
<1>2. ASSUME NEW c \in Conversations
      PROVE  /\ readAt'[c] <= Len(Come(c)') /\ readAt'[c] \in Nat
             /\ c \in Reserved => edited'[c] = NoName
             /\ NoRowOK(c)' \/ \E i \in 1..Len(rows') : rows'[i].id = c
             /\ \A i \in 1..Len(rows') : rows'[i].id = c => RowOK(i, c)'
  <2>1. /\ readAt[c] <= Len(Come(c)) /\ readAt[c] \in Nat
        /\ c \in Reserved => edited[c] = NoName
        /\ NoRowOK(c) \/ \E i \in 1..Len(rows) : rows[i].id = c
        /\ \A i \in 1..Len(rows) : rows[i].id = c => RowOK(i, c)
    BY DEF RowInv
  <2>2. /\ c \in Reserved => readAt'[c] = Len(Come(c))
        /\ c \notin Reserved => readAt'[c] = readAt[c]
    OBVIOUS
  <2>3. NoRowOK(c)' \/ \E i \in 1..Len(rows') : rows'[i].id = c
    BY <1>1, <2>1, <2>2 DEF NoRowOK
  <2>4. ASSUME NEW i \in 1..Len(rows'), rows'[i].id = c
        PROVE  RowOK(i, c)'
    <3>1. ASSUME NEW j \in 1..Len(rows), rows'[i] = rows[j], c \notin Reserved
          PROVE  RowOK(i, c)'
      <4>1. RowOK(j, c)
        BY <2>1, <2>4, <3>1
      <4> QED
        BY <1>1, <2>2, <3>1, <4>1 DEF RowOK, Display
    <3>2. ASSUME c \in Reserved \/ \A j \in 1..Len(rows) : rows[j].id # c,
                 rows'[i].title \in Conversations => rows'[i].title = rows'[i].id,
                 rows'[i].unread = 0
          PROVE  RowOK(i, c)'
      <4>1. edited[c] = NoName /\ readAt'[c] = Len(Come(c))
        BY <2>1, <2>2, <3>2 DEF NoRowOK
      <4>2. 0 = Len(Come(c)) - readAt'[c]
        <5>1. Len(Come(c)) \in Nat
          BY <2>1, <2>2, <4>1
        <5> QED
          BY <4>1, <5>1
      <4> QED
        BY <1>1, <2>4, <3>2, <4>1, <4>2 DEF RowOK, Display
    <3> QED
      BY <2>4, <3>1, <3>2
  <2>5. readAt'[c] <= Len(Come(c)') /\ readAt'[c] \in Nat
    BY <1>1, <2>1, <2>2
  <2> QED
    BY <2>1, <2>3, <2>4, <2>5
<1>3. readAt' \in [Conversations -> Nat]
  BY <1>2
<1> QED
  BY <1>2, <1>3 DEF RowInv

(* Adding a friend.                                                        *)
LEMMA AddedRows ==
    ASSUME RowInv, NEW c \in Conversations, NEW remark \in Remarks \cup {NoRemark},
           rows' = WithFriend(c, remark), UNCHANGED edited, Handled' = Handled,
           readAt' = [d \in Conversations |->
                        IF d \in Reserved THEN Len(Come(d)) ELSE readAt[d]]
    PROVE  RowInv'
<1>1. rows \in Seq(Rec) /\ UniqueIds(rows)
  BY DEF RowInv
<1>2. /\ Friends \in Seq(Rec) /\ UniqueIds(Friends)
      /\ \A i \in 1..Len(Friends) :
            \E j \in 1..Len(rows) : Friends[i] = rows[j] /\ rows[j].id \notin Reserved
      /\ \A j \in 1..Len(rows) :
            rows[j].id \notin Reserved => \E i \in 1..Len(Friends) : Friends[i] = rows[j]
  BY <1>1, FriendsAre
<1>0. \A r : r \in Range(Friends) <=> \E i \in 1..Len(Friends) : Friends[i] = r
  BY <1>2, RangeIsIn DEF In
<1>3. CASE \E r \in Range(Friends) : r.id = c
  <2>1. rows' = Friends
    BY <1>3 DEF WithFriend
  <2> QED
    BY <1>2, <2>1, ReorderedRows
<1>4. CASE ~\E r \in Range(Friends) : r.id = c
  <2> DEFINE r == Row(c, Display(c, remark), 0)
  <2>1. /\ r \in Rec /\ r.id = c /\ r.unread = 0
        /\ r.title \in Conversations => r.title = c
    BY DisplayTitle DEF Row, Rec
  <2>2. rows' = <<r>> \o Friends
    BY <1>4 DEF WithFriend
  <2>3. /\ \A i \in 1..Len(Friends) : Friends[i].id # c
        /\ c \in Reserved \/ \A j \in 1..Len(rows) : rows[j].id # c
    <3>1. \A i \in 1..Len(Friends) : Friends[i].id # c
      BY <1>0, <1>4
    <3> QED
      BY <1>2, <3>1
  <2> HIDE DEF r
  <2>4. PICK n \in Nat : n = Len(Friends)
    BY <1>2, LenProperties
  <2>5. <<r>> \in Seq(Rec) /\ Len(<<r>>) = 1 /\ <<r>>[1] = r
    BY <2>1
  <2>6. /\ rows' \in Seq(Rec) /\ Len(rows') = n + 1
        /\ \A i \in 1..(n + 1) : rows'[i] = IF i <= 1 THEN <<r>>[i] ELSE Friends[i - 1]
    <3>1. 1 + n = n + 1
      BY <2>4
    <3> QED
      BY <1>2, <2>2, <2>4, <2>5, <3>1, ConcatProperties
  <2>7. /\ 1 \in 1..(n + 1) /\ 1 <= 1
        /\ \A i \in 1..(n + 1) : i # 1 => ~(i <= 1) /\ i - 1 \in 1..n
        /\ \A i \in 1..n : i + 1 \in 1..(n + 1) /\ ~(i + 1 <= 1) /\ (i + 1) - 1 = i
        /\ \A i, j \in 1..(n + 1) : i - 1 = j - 1 => i = j
    BY <2>4
  <2>8. rows'[1] = r /\ \A i \in 1..(n + 1) : i # 1 => rows'[i] = Friends[i - 1]
    BY <2>5, <2>6, <2>7
  <2>9. \A i \in 1..n : rows'[i + 1] = Friends[i]
    BY <2>6, <2>7
  <2>10. \A i \in 1..(n + 1) : i # 1 =>
            /\ rows'[i].id # c
            /\ \E j \in 1..Len(rows) : rows'[i] = rows[j] /\ rows[j].id \notin Reserved
    BY <1>2, <2>3, <2>4, <2>7, <2>8
  <2>11. UniqueIds(rows')
    <3> SUFFICES ASSUME NEW i \in 1..(n + 1), NEW j \in 1..(n + 1), rows'[i].id = rows'[j].id
                 PROVE  i = j
      BY <2>6 DEF UniqueIds
    <3>1. CASE i = 1 /\ j = 1
      BY <3>1
    <3>2. CASE i = 1 /\ j # 1
      BY <2>1, <2>8, <2>10, <3>2
    <3>3. CASE i # 1 /\ j = 1
      BY <2>1, <2>8, <2>10, <3>3
    <3>4. CASE i # 1 /\ j # 1
      <4>1. Friends[i - 1].id = Friends[j - 1].id /\ i - 1 \in 1..n /\ j - 1 \in 1..n
        BY <2>7, <2>8, <3>4
      <4>2. i - 1 = j - 1
        BY <1>2, <2>4, <4>1 DEF UniqueIds
      <4> QED
        BY <2>7, <4>2
    <3> QED
      BY <3>1, <3>2, <3>3, <3>4
  <2>12. \A j \in 1..Len(rows) : rows[j].id \notin Reserved
            => \E i \in 1..Len(rows') : rows'[i] = rows[j]
    <3> SUFFICES ASSUME NEW j \in 1..Len(rows), rows[j].id \notin Reserved
                 PROVE  \E i \in 1..Len(rows') : rows'[i] = rows[j]
      OBVIOUS
    <3>1. PICK i \in 1..n : Friends[i] = rows[j]
      BY <1>2, <2>4
    <3>2. i + 1 \in 1..Len(rows') /\ rows'[i + 1] = rows[j]
      BY <2>6, <2>7, <2>9, <3>1
    <3> QED
      BY <3>2
  <2>13. ASSUME NEW i \in 1..Len(rows')
         PROVE  \/ \E j \in 1..Len(rows) : rows'[i] = rows[j] /\ rows[j].id \notin Reserved
                \/ /\ \/ rows'[i].id \in Reserved
                      \/ \A j \in 1..Len(rows) : rows[j].id # rows'[i].id
                   /\ rows'[i].title \in Conversations => rows'[i].title = rows'[i].id
                   /\ rows'[i].unread = 0
    BY <2>1, <2>3, <2>6, <2>8, <2>10
  <2> QED
    BY <2>6, <2>11, <2>12, <2>13, ReorderedRows
<1> QED
  BY <1>3, <1>4

-----------------------------------------------------------------------------
(* The list at the start.                                                  *)
LEMMA BuiltRows ==
    ASSUME RowInv, rows = << >>, UNCHANGED <<edited, readAt>>, Handled' = Handled,
           NEW friends \in SUBSET Names,
           NEW remarkOf \in [friends -> Remarks \cup {NoRemark}],
           NEW order \in SetToSeqs(friends),
           rows' = IF friends = {} THEN <<Placeholder>>
                   ELSE [i \in DOMAIN order |->
                           Row(order[i], Display(order[i], remarkOf[order[i]]), 0)]
    PROVE  RowInv'
<1>1. \A j \in 1..Len(rows) : FALSE
  <2>1. Len(rows) = 0
    BY EmptySeq
  <2> QED
    BY <2>1
<1>4. readAt' = [c \in Conversations |->
                   IF c \in Reserved THEN Len(Come(c)) ELSE readAt[c]]
  <2>1. readAt \in [Conversations -> Nat]
    BY DEF RowInv
  <2>2. \A c \in Conversations : readAt[c] = Len(Come(c))
    BY <1>1 DEF RowInv, NoRowOK
  <2> QED
    BY <2>1, <2>2
<1>2. CASE friends = {}
  <2>1. /\ Placeholder \in Rec /\ Placeholder.title = NoRemark
        /\ Placeholder.unread = 0 /\ Placeholder.id \in Reserved
    BY RemarksAssumption DEF Placeholder, Row, Rec, Conversations
  <2>2. rows' = <<Placeholder>>
    BY <1>2
  <2> HIDE DEF Placeholder
  <2>3. <<Placeholder>> \in Seq(Rec) /\ Len(<<Placeholder>>) = 1
          /\ <<Placeholder>>[1] = Placeholder
    BY <2>1
  <2>4. /\ rows' \in Seq(Rec) /\ UniqueIds(rows')
        /\ \A i \in 1..Len(rows') : rows'[i] = Placeholder
    BY <2>2, <2>3 DEF UniqueIds
  <2>5. Placeholder.title \notin Conversations
    BY <2>1, RemarksAssumption
  <2> QED
    BY <1>1, <1>4, <2>1, <2>4, <2>5, ReorderedRows
<1>3. CASE friends # {}
  <2>1. /\ IsFiniteSet(friends)
        /\ Cardinality(friends) \in Nat
    <3>1. IsFiniteSet(Names)
      BY NamesAssumption
    <3> QED
      BY <3>1, FS_Subset, FS_CardinalityType
  <2>2. PICK n \in Nat : n = Cardinality(friends)
    BY <2>1
  <2>3. /\ order \in [1..n -> friends]
        /\ \A i, j \in 1..n : i # j => order[i] # order[j]
    BY <2>2 DEF SetToSeqs
  <2>4. rows' = [i \in 1..n |-> Row(order[i], Display(order[i], remarkOf[order[i]]), 0)]
    BY <1>3, <2>3
  <2>5. ASSUME NEW i \in 1..n
        PROVE  /\ rows'[i] \in Rec /\ rows'[i].id = order[i] /\ rows'[i].unread = 0
               /\ rows'[i].title \in Conversations => rows'[i].title = rows'[i].id
    <3>1. order[i] \in Conversations /\ remarkOf[order[i]] \in Remarks \cup {NoRemark}
      BY <2>3 DEF Conversations
    <3>2. rows'[i] = Row(order[i], Display(order[i], remarkOf[order[i]]), 0)
      BY <2>4
    <3> QED
      BY <3>1, <3>2, DisplayTitle DEF Row, Rec
  <2>6. rows' \in [1..n -> Rec]
    BY <2>4, <2>5
  <2>7. rows' \in Seq(Rec) /\ Len(rows') = n
    BY <2>2, <2>6
  <2>8. UniqueIds(rows')
    BY <2>3, <2>5, <2>7 DEF UniqueIds
  <2> QED
    BY <1>1, <1>4, <2>5, <2>7, <2>8, ReorderedRows
<1> QED
  BY <1>2, <1>3

-----------------------------------------------------------------------------
(* What an open dialog holds on to is still there.                         *)
ModalInv ==
    /\ stage \in {"login", "accepted"} => rows = << >> /\ modal = NoModal /\ opened = {}
    /\ modal.kind = "remark" => /\ modal.id \in Conversations \ Reserved
                                /\ modal.row \in 1..Len(rows)
                                /\ rows[modal.row].id = modal.id
    /\ modal.kind = "addRemark" => modal.id \in Names
    /\ modal.kind = "file" => modal.id \in opened

(* No message is under way before there is a main window.                  *)
LEMMA NothingToHandle ==
    ASSUME MailInv, stage \in {"login", "accepted"}
    PROVE  batch = << >>
<1>1. batch \in Seq(Parsed) /\ Len(batch) <= Len(pulled) /\ pulled = << >>
  BY DEF MailInv
<1>2. Len(pulled) = 0 /\ Len(batch) \in Nat
  BY <1>1, LenProperties, EmptySeq
<1>3. Len(batch) = 0
  BY <1>1, <1>2
<1> QED
  BY <1>1, <1>3, EmptySeq

(* Steps that leave the list alone, and what the dialog they open has to   *)
(* hold on to.                                                             *)
LEMMA QuietRows ==
    ASSUME RowInv, ModalInv, UNCHANGED <<rows, edited, readAt>>, Handled' = Handled,
           \/ stage' = stage
           \/ stage \in {"login", "accepted"} /\ UNCHANGED <<modal, opened>>
           \/ stage' \notin {"login", "accepted"},
           \/ UNCHANGED <<modal, opened>>
           \/ stage \notin {"login", "accepted"} /\ modal' = NoModal
           \/ /\ UNCHANGED opened /\ stage' \notin {"login", "accepted"}
              /\ modal'.kind = "remark" => /\ modal'.id \in Conversations \ Reserved
                                           /\ modal'.row \in 1..Len(rows)
                                           /\ rows[modal'.row].id = modal'.id
              /\ modal'.kind = "addRemark" => modal'.id \in Names
              /\ modal'.kind = "file" => modal'.id \in opened
    PROVE  RowInv' /\ ModalInv'
<1>1. RowInv'
  BY RowsKept
<1>2. NoModal.kind = "none"
  BY DEF NoModal
<1>3. ModalInv'
  BY <1>2 DEF ModalInv, NoModal
<1> QED
  BY <1>1, <1>3

(* Building the list, opening and closing windows.                         *)
LEMMA WindowRows ==
    ASSUME RowInv, ModalInv, WindowStep, Handled' = Handled
    PROVE  RowInv' /\ ModalInv'
<1>1. ASSUME NEW friends \in SUBSET Names, NEW ok \in BOOLEAN, BuildList(friends, ok)
      PROVE  RowInv' /\ ModalInv'
  <2>1. stage = "accepted" /\ stage' = "main" /\ UNCHANGED <<modal, opened, edited, readAt>>
    BY <1>1 DEF BuildList
  <2>2. rows = << >> /\ modal = NoModal /\ opened = {}
    BY <2>1 DEF ModalInv
  <2>3. PICK remarkOf \in [friends -> Remarks \cup {NoRemark}], order \in SetToSeqs(friends) :
           rows' = IF friends = {} THEN <<Placeholder>>
                   ELSE [i \in DOMAIN order |->
                           Row(order[i], Display(order[i], remarkOf[order[i]]), 0)]
    BY <1>1 DEF BuildList
  <2>4. RowInv'
    BY <2>1, <2>2, <2>3, BuiltRows
  <2>5. ModalInv'
    BY <2>1, <2>2 DEF ModalInv, NoModal
  <2> QED
    BY <2>4, <2>5
<1>2. ASSUME NEW i \in DOMAIN rows, OpenChat(i)
      PROVE  RowInv' /\ ModalInv'
  <2>1. /\ stage = "main" /\ modal = NoModal
        /\ UNCHANGED <<rows, edited, readAt, stage, modal>>
    BY <1>2 DEF OpenChat, Input, backendVars
  <2> QED
    BY <2>1, QuietRows
<1>3. ASSUME NEW id \in Conversations, CloseChat(id)
      PROVE  RowInv' /\ ModalInv'
  <2>1. /\ stage = "main" /\ modal = NoModal /\ stage' \in {"main", "ended"}
        /\ UNCHANGED <<rows, edited, readAt, modal>>
    BY <1>3 DEF CloseChat, Input
  <2> QED
    BY <2>1, QuietRows
<1>4. ASSUME CloseList
      PROVE  RowInv' /\ ModalInv'
  <2>1. /\ stage = "main" /\ modal = NoModal /\ stage' \in {"main", "ended"}
        /\ UNCHANGED <<rows, edited, readAt, modal>>
    BY <1>4 DEF CloseList, Input
  <2> QED
    BY <2>1, QuietRows
<1> QED
  BY <1>1, <1>2, <1>3, <1>4 DEF WindowStep

(* Sending from a window does not touch the list.                          *)
LEMMA SendRows ==
    ASSUME RowInv, ModalInv, SendStep, Handled' = Handled
    PROVE  RowInv' /\ ModalInv'
<1>1. ASSUME NEW id \in Conversations, NEW ok \in BOOLEAN, NEW late \in BOOLEAN,
             SendMessage(id, ok, late)
      PROVE  RowInv' /\ ModalInv'
  <2>1. UNCHANGED <<rows, edited, readAt, stage, modal, opened>>
    BY <1>1 DEF SendMessage, AfterCall
  <2> QED
    BY <2>1, QuietRows
<1>2. ASSUME NEW id \in Conversations, ChooseFile(id)
      PROVE  RowInv' /\ ModalInv'
  <2>1. /\ UNCHANGED <<rows, edited, readAt, stage, opened>> /\ id \in opened
        /\ modal' = Modal("file", id, 0) /\ stage = "main"
    BY <1>2 DEF ChooseFile, Input, backendVars
  <2>2. modal'.kind = "file" /\ modal'.id = id
    BY <2>1 DEF Modal
  <2> QED
    BY <2>1, <2>2, QuietRows
<1>3. ASSUME NEW ok \in BOOLEAN, NEW late \in BOOLEAN, SendFile(ok, late)
      PROVE  RowInv' /\ ModalInv'
  <2>1. /\ UNCHANGED <<rows, edited, readAt, stage, opened>>
        /\ modal' = NoModal /\ modal.kind = "file"
    BY <1>3 DEF SendFile, AfterCall
  <2>2. stage \notin {"login", "accepted"}
    BY <2>1 DEF ModalInv, NoModal
  <2> QED
    BY <2>1, <2>2, QuietRows
<1> QED
  BY <1>1, <1>2, <1>3 DEF SendStep

(* The menu of a row and the dialogs of handleAddFriend.                   *)
LEMMA DialogRows ==
    ASSUME RowInv, ModalInv, DialogStep, Handled' = Handled
    PROVE  RowInv' /\ ModalInv'
<1>0. ASSUME RowInv', stage \notin {"login", "accepted"}, UNCHANGED <<stage, opened>>,
             modal' = NoModal \/ modal' = Modal("box", NoName, 0)
      PROVE  ModalInv'
  BY <1>0 DEF ModalInv, NoModal, Modal
<1>1. ASSUME NEW i \in DOMAIN rows, ShowMenu(i)
      PROVE  RowInv' /\ ModalInv'
  <2>1. /\ UNCHANGED <<rows, edited, readAt, stage, opened>> /\ rows[i].id \notin Reserved
        /\ modal' = Modal("remark", rows[i].id, i) /\ stage = "main"
    BY <1>1 DEF ShowMenu, Input, backendVars
  <2>2. rows \in Seq(Rec)
    BY DEF RowInv
  <2>3. i \in 1..Len(rows) /\ rows[i] \in Rec
    BY <2>2, LenProperties, ElementOfSeq
  <2>4. rows[i].id \in Conversations
    BY <2>1, <2>3 DEF Rec
  <2>5. modal'.kind = "remark" /\ modal'.id = rows[i].id /\ modal'.row = i
    BY <2>1 DEF Modal
  <2> QED
    BY <2>1, <2>3, <2>4, <2>5, QuietRows
<1>2. ASSUME NEW r \in Remarks \cup {NoRemark}, NEW ok \in BOOLEAN, SetRemark(r, ok)
      PROVE  RowInv' /\ ModalInv'
  <2>1. modal.kind = "remark" /\ UNCHANGED <<stage, opened, readAt>>
    BY <1>2 DEF SetRemark, AfterCall
  <2>2. /\ modal.id \in Conversations \ Reserved /\ modal.row \in 1..Len(rows)
        /\ rows[modal.row].id = modal.id /\ stage \notin {"login", "accepted"}
    BY <2>1 DEF ModalInv, NoModal
  <2>3. CASE ok
    <3>1. /\ rows' = [rows EXCEPT ![modal.row].title = Display(modal.id, r)]
          /\ edited' = [edited EXCEPT ![modal.id] = r] /\ modal' = NoModal
      BY <1>2, <2>3 DEF SetRemark
    <3>2. RowInv'
      BY <2>1, <2>2, <3>1, RemarkedRows
    <3> QED
      BY <1>0, <2>1, <2>2, <3>1, <3>2
  <2>4. CASE ~ok
    <3>1. modal' = Modal("box", NoName, 0) /\ UNCHANGED <<rows, edited>>
      BY <1>2, <2>4 DEF SetRemark
    <3>2. RowInv'
      BY <2>1, <3>1, RowsKept
    <3> QED
      BY <1>0, <2>1, <2>2, <3>1, <3>2
  <2> QED
    BY <2>3, <2>4
<1>3. ASSUME PressAdd
      PROVE  RowInv' /\ ModalInv'
  <2>1. /\ UNCHANGED <<rows, edited, readAt, stage, opened>>
        /\ modal' = Modal("name", NoName, 0) /\ stage = "main"
    BY <1>3 DEF PressAdd, Input, backendVars
  <2>2. modal'.kind = "name"
    BY <2>1 DEF Modal
  <2> QED
    BY <2>1, <2>2, QuietRows
<1>4. ASSUME NEW name \in Names, EnterName(name)
      PROVE  RowInv' /\ ModalInv'
  <2>1. /\ UNCHANGED <<rows, edited, readAt, stage, opened>>
        /\ modal' = Modal("addRemark", name, 0) /\ modal.kind = "name"
    BY <1>4 DEF EnterName, backendVars
  <2>2. modal'.kind = "addRemark" /\ modal'.id = name /\ stage \notin {"login", "accepted"}
    BY <2>1 DEF Modal, ModalInv, NoModal
  <2> QED
    BY <2>1, <2>2, QuietRows
<1>5. ASSUME NEW r \in Remarks \cup {NoRemark}, NEW ok \in BOOLEAN, AddFriend(r, ok)
      PROVE  RowInv' /\ ModalInv'
  <2>1. /\ modal.kind = "addRemark" /\ UNCHANGED <<stage, opened, edited>>
        /\ modal' = Modal("box", NoName, 0)
        /\ ok => /\ rows' = WithFriend(modal.id, r)
                 /\ readAt' = [c \in Conversations |->
                                 IF c \in Reserved THEN Len(Come(c)) ELSE readAt[c]]
        /\ ~ok => UNCHANGED <<rows, readAt>>
    BY <1>5 DEF AddFriend, AfterCall
  <2>2. modal.id \in Conversations /\ stage \notin {"login", "accepted"}
    BY <2>1 DEF ModalInv, NoModal, Conversations
  <2>3. RowInv'
    <3>1. CASE ok
      BY <2>1, <2>2, <3>1, AddedRows
    <3>2. CASE ~ok
      BY <2>1, <3>2, RowsKept
    <3> QED
      BY <3>1, <3>2
  <2> QED
    BY <1>0, <2>1, <2>2, <2>3
<1>6. ASSUME Dismiss
      PROVE  RowInv' /\ ModalInv'
  <2>1. /\ UNCHANGED <<rows, edited, readAt, stage, opened>>
        /\ modal' = NoModal /\ modal # NoModal
    BY <1>6 DEF Dismiss, backendVars
  <2>2. stage \notin {"login", "accepted"}
    BY <2>1 DEF ModalInv
  <2> QED
    BY <2>1, <2>2, QuietRows
<1> QED
  BY <1>1, <1>2, <1>3, <1>4, <1>5, <1>6 DEF DialogStep

(* A message is handled under whatever dialog is open: the row the dialog  *)
(* holds stays where it is.                                                *)
LEMMA HandleRows ==
    ASSUME RowInv, ModalInv, MailInv, HandleStep,
           Head(batch) \in Parsed, Handled' = Append(Handled, Head(batch))
    PROVE  RowInv' /\ ModalInv'
<1>1. PICK late \in BOOLEAN : HandleOfflineMessage(late)
  BY DEF HandleStep
<1>2. /\ batch # << >> /\ UNCHANGED <<stage, modal, opened, edited>>
      /\ \/ /\ rows' = [Count(Head(batch).conv) EXCEPT ![Place(Head(batch).conv)].unread = 0]
            /\ readAt' = [readAt EXCEPT ![Head(batch).conv] = Len(Come(Head(batch).conv)) + 1]
         \/ rows' = Count(Head(batch).conv) /\ UNCHANGED readAt
  BY <1>1 DEF HandleOfflineMessage
<1>3. /\ RowInv'
      /\ \A i \in 1..Len(rows) : i \in 1..Len(rows') /\ rows'[i].id = rows[i].id
  BY <1>2, HandledRows
<1>4. stage \notin {"login", "accepted"}
  BY <1>2, NothingToHandle
<1>5. ModalInv'
  BY <1>2, <1>3, <1>4 DEF ModalInv
<1> QED
  BY <1>3, <1>5

(* Every step keeps the list and what the dialogs hold.                    *)
LEMMA NextRows ==
    ASSUME LoginInv, MailInv, RowInv, ModalInv, [FrontEndNext]_vars
    PROVE  RowInv' /\ ModalInv'
<1>1. /\ (LoginStep \/ WindowStep \/ SendStep \/ DialogStep \/ Outside \/ PollStep
            \/ FaultStep \/ UNCHANGED vars) => Handled' = Handled
      /\ HandleStep => /\ Head(batch) \in Parsed
                       /\ Handled' = Append(Handled, Head(batch))
  BY StepMail
<1>2. CASE LoginStep
  <2>1. UNCHANGED chatVars /\ (stage' = stage \/ stage = "login")
    BY <1>2, LoginMail DEF LoginStep
  <2>2. UNCHANGED <<rows, edited, readAt, modal, opened>>
    BY <2>1 DEF chatVars
  <2>3. Handled' = Handled
    BY <1>1, <1>2
  <2> QED
    BY <2>1, <2>2, <2>3, QuietRows
<1>3. CASE Outside \/ PollStep \/ FaultStep
  <2>1. UNCHANGED <<rows, edited, readAt, modal, opened, stage>>
    BY <1>3 DEF Outside, PollStep, FaultStep, Arrive, Poll, PollFails, chatVars
  <2>2. Handled' = Handled
    BY <1>1, <1>3
  <2> QED
    BY <2>1, <2>2, QuietRows
<1>4. CASE UNCHANGED vars
  <2>1. UNCHANGED <<rows, edited, readAt, modal, opened, stage>>
    BY <1>4 DEF vars, chatVars, backendVars
  <2>2. Handled' = Handled
    BY <1>1, <1>4
  <2> QED
    BY <2>1, <2>2, QuietRows
<1>5. CASE WindowStep
  BY <1>1, <1>5, WindowRows
<1>6. CASE SendStep
  BY <1>1, <1>6, SendRows
<1>7. CASE DialogStep
  BY <1>1, <1>7, DialogRows
<1>8. CASE HandleStep
  BY <1>1, <1>8, HandleRows
<1> QED
  BY <1>2, <1>3, <1>4, <1>5, <1>6, <1>7, <1>8 DEF FrontEndNext

(* The list is empty during the login.                                     *)
LEMMA InitRows == FrontEndInit => RowInv /\ ModalInv
<1> SUFFICES ASSUME FrontEndInit PROVE RowInv /\ ModalInv
  OBVIOUS
<1>1. /\ rows = << >> /\ modal = NoModal /\ opened = {}
      /\ readAt = [c \in Conversations |-> 0] /\ edited = [c \in Conversations |-> NoName]
      /\ pulled = << >> /\ batch = << >>
  BY DEF FrontEndInit, BackendInit, ChatInit
<1>2. << >> \in Seq(Rec) /\ Len(<< >>) = 0 /\ \A i \in 1..0 : FALSE
  BY EmptySeq
<1>3. ASSUME NEW c
      PROVE  Come(c) = << >>
  <2>1. SubSeq(<< >>, 1, 0 - 0) = << >>
    <3>1. 0 - 0 = 0
      OBVIOUS
    <3> QED
      BY <1>2, <3>1, SubSeqFull
  <2> QED
    BY <1>1, <1>2, <2>1, KeptEmpty DEF Come
<1>4. RowInv
  BY <1>1, <1>2, <1>3 DEF RowInv, NoRowOK, UniqueIds
<1>5. ModalInv
  BY <1>1 DEF ModalInv, NoModal
<1> QED
  BY <1>4, <1>5

-----------------------------------------------------------------------------
(* The windows.  What a window shows is written with a wider range of      *)
(* numbers than Items: only incoming messages have to be in theirs.        *)
Wide == [kind : {"divider", "in", "out", "failure", "sentFile"}, n : Nat]

Numbers(s) == [i \in DOMAIN s |-> s[i].n]
Since(c) == SubSeq(Come(c), openedAt[c] + 1, Len(Come(c)))

WindowOK(c) ==
    /\ c \in opened => Incoming(items[c]) = Numbers(Since(c))
    /\ c \notin opened => items[c] = << >>
    /\ items[c] # << >> => Head(items[c]) = Divider

WindowInv ==
    /\ opened \subseteq Conversations /\ sent \in Nat
    /\ items \in [Conversations -> Seq(Wide)]
    /\ openedAt \in [Conversations -> Nat]
    /\ \A c \in Conversations : openedAt[c] <= Len(Come(c)) /\ WindowOK(c)

(* The numbers of a sequence of items or messages.                         *)
LEMMA NumbersType ==
    ASSUME NEW X, \A x \in X : x.n \in Nat, NEW s \in Seq(X)
    PROVE  /\ Numbers(s) \in Seq(Nat) /\ Len(Numbers(s)) = Len(s)
           /\ \A i \in 1..Len(s) : Numbers(s)[i] = s[i].n
<1>1. Len(s) \in Nat /\ DOMAIN s = 1..Len(s) /\ \A i \in 1..Len(s) : s[i] \in X
  BY LenProperties, ElementOfSeq
<1>2. Numbers(s) = [i \in 1..Len(s) |-> s[i].n]
  BY <1>1 DEF Numbers
<1>3. Numbers(s) \in [1..Len(s) -> Nat]
  BY <1>1, <1>2
<1> HIDE DEF Numbers
<1>4. Numbers(s) \in Seq(Nat) /\ Len(Numbers(s)) = Len(s)
  BY <1>1, <1>3
<1> QED
  BY <1>2, <1>4

(* No items, no numbers.                                                   *)
LEMMA NumbersEmpty == Numbers(<< >>) = << >>
<1>1. << >> \in Seq(Parsed) /\ Len(<< >>) = 0 /\ \A x \in Parsed : x.n \in Nat
  BY EmptySeq, NamesAssumption DEF Parsed
<1>2. Numbers(<< >>) \in Seq(Nat) /\ Len(Numbers(<< >>)) = 0
  BY <1>1, NumbersType
<1> QED
  BY <1>2, EmptySeq

(* One item more, one number more.                                         *)
LEMMA NumbersAppend ==
    ASSUME NEW X, \A x \in X : x.n \in Nat, NEW s \in Seq(X), NEW x \in X
    PROVE  Numbers(Append(s, x)) = Append(Numbers(s), x.n)
<1>1. PICK n \in Nat : n = Len(s)
  BY LenProperties
<1>2. /\ Append(s, x) \in Seq(X) /\ Len(Append(s, x)) = n + 1
      /\ \A i \in 1..n : Append(s, x)[i] = s[i]
      /\ Append(s, x)[n + 1] = x
  BY <1>1, AppendProperties
<1>3. /\ Numbers(s) \in Seq(Nat) /\ Len(Numbers(s)) = n
      /\ \A i \in 1..n : Numbers(s)[i] = s[i].n
  BY <1>1, NumbersType
<1>4. /\ Numbers(Append(s, x)) \in Seq(Nat) /\ Len(Numbers(Append(s, x))) = n + 1
      /\ \A i \in 1..(n + 1) : Numbers(Append(s, x))[i] = Append(s, x)[i].n
  BY <1>2, NumbersType
<1>5. /\ Append(Numbers(s), x.n) \in Seq(Nat) /\ Len(Append(Numbers(s), x.n)) = n + 1
      /\ \A i \in 1..n : Append(Numbers(s), x.n)[i] = Numbers(s)[i]
      /\ Append(Numbers(s), x.n)[n + 1] = x.n
  BY <1>3, AppendProperties
<1>6. \A i \in 1..(n + 1) : i \in 1..n \/ i = n + 1
  BY <1>1
<1>7. \A i \in 1..(n + 1) : Numbers(Append(s, x))[i] = Append(Numbers(s), x.n)[i]
  BY <1>2, <1>3, <1>4, <1>5, <1>6
<1> QED
  BY <1>1, <1>4, <1>5, <1>7, SeqEqual

(* An empty window shows nothing as incoming.                              *)
LEMMA IncomingEmpty == Incoming(<< >>) = << >>
<1>1. Incoming(<< >>) = Numbers(Kept(<< >>, {m \in Items : m.kind = "in"}))
  BY DEF Incoming, Numbers
<1> QED
  BY <1>1, KeptEmpty, NumbersEmpty

(* An item counts as incoming by its kind.                                 *)
LEMMA IncomingAppend ==
    ASSUME NEW list \in Seq(Wide), NEW x \in Wide
    PROVE  Incoming(Append(list, x)) =
              IF x \in Items /\ x.kind = "in" THEN Append(Incoming(list), x.n)
              ELSE Incoming(list)
<1> DEFINE S == {m \in Items : m.kind = "in"}
<1>1. \A s : Incoming(s) = Numbers(Kept(s, S))
  BY DEF Incoming, Numbers
<1>2. Kept(Append(list, x), S) = IF x \in S THEN Append(Kept(list, S), x) ELSE Kept(list, S)
  BY KeptAppend
<1>3. x \in S <=> x \in Items /\ x.kind = "in"
  OBVIOUS
<1> HIDE DEF S
<1>4. Kept(list, S) \in Seq(Wide)
  BY KeptType
<1>5. \A y \in Wide : y.n \in Nat
  BY DEF Wide
<1>6. Numbers(Append(Kept(list, S), x)) = Append(Numbers(Kept(list, S)), x.n)
  BY <1>4, <1>5, NumbersAppend
<1> QED
  BY <1>1, <1>2, <1>3, <1>6

(* Appending changes the head of an empty sequence only.                   *)
LEMMA HeadAppend ==
    ASSUME NEW X, NEW s \in Seq(X), NEW x \in X
    PROVE  /\ Append(s, x) \in Seq(X) /\ Append(s, x) # << >>
           /\ Head(Append(s, x)) = IF s = << >> THEN x ELSE Head(s)
<1>1. PICK n \in Nat : n = Len(s)
  BY LenProperties
<1>2. /\ Append(s, x) \in Seq(X) /\ Len(Append(s, x)) = n + 1
      /\ \A i \in 1..n : Append(s, x)[i] = s[i]
      /\ Append(s, x)[n + 1] = x
  BY <1>1, AppendProperties
<1>3. Append(s, x) # << >>
  BY <1>1, <1>2, EmptySeq
<1>4. Head(Append(s, x)) = Append(s, x)[1]
  BY <1>2, <1>3, HeadTailProperties
<1>5. CASE s = << >>
  <2>1. n + 1 = 1
    BY <1>1, <1>5, EmptySeq
  <2> QED
    BY <1>2, <1>3, <1>4, <1>5, <2>1
<1>6. CASE s # << >>
  <2>1. 1 \in 1..n
    BY <1>1, <1>6, EmptySeq
  <2>2. Head(s) = s[1]
    BY <1>6, HeadTailProperties
  <2> QED
    BY <1>2, <1>3, <1>4, <1>6, <2>1, <2>2
<1> QED
  BY <1>5, <1>6

(* The model's append: a divider where there is none, then the item.       *)
LEMMA Appended ==
    ASSUME NEW list \in Seq(Wide), list # << >> => Head(list) = Divider,
           NEW item \in Wide, NEW late
    PROVE  /\ AppendMessage(list, item, late) \in Seq(Wide)
           /\ Head(AppendMessage(list, item, late)) = Divider
           /\ AppendMessage(list, item, late) # << >>
           /\ Incoming(AppendMessage(list, item, late)) =
                 IF item \in Items /\ item.kind = "in" THEN Append(Incoming(list), item.n)
                 ELSE Incoming(list)
<1> DEFINE with == WithDivider(list, late)
<1>1. Divider \in Wide /\ Divider.kind # "in"
  BY DEF Divider, Item, Wide
<1>2. with \in Seq(Wide) /\ with # << >> /\ Head(with) = Divider
        /\ Incoming(with) = Incoming(list)
  <2>1. CASE list = << >> \/ late
    <3>1. with = Append(list, Divider)
      BY <2>1 DEF WithDivider
    <3> QED
      BY <1>1, <3>1, HeadAppend, IncomingAppend
  <2>2. CASE ~(list = << >> \/ late)
    BY <2>2 DEF WithDivider
  <2> QED
    BY <2>1, <2>2
<1>3. AppendMessage(list, item, late) = Append(with, item)
  BY DEF AppendMessage
<1> HIDE DEF with
<1> QED
  BY <1>2, <1>3, HeadAppend, IncomingAppend

(* A suffix of a sequence grows with the sequence.                         *)
LEMMA SinceGrows ==
    ASSUME NEW X, NEW s \in Seq(X), NEW x \in X, NEW k \in Nat, k <= Len(s)
    PROVE  SubSeq(Append(s, x), k + 1, Len(s) + 1) = Append(SubSeq(s, k + 1, Len(s)), x)
<1>1. PICK n \in Nat : n = Len(s)
  BY LenProperties
<1>2. PICK d \in Nat : d = n - k /\ n = k + d
  <2>1. k <= n
    BY <1>1
  <2>2. n - k \in Nat /\ n = k + (n - k)
    BY <2>1
  <2> QED
    BY <2>2
<1> DEFINE t == Append(s, x)
<1>3. t \in Seq(X) /\ Len(t) = n + 1 /\ t[n + 1] = x /\ \A i \in 1..n : t[i] = s[i]
  BY <1>1, AppendProperties
<1> HIDE DEF t
<1>4. \A i \in 1..n : s[i] \in X
  BY <1>1, ElementOfSeq
<1>5. \A i \in 1..(n + 1) : t[i] \in X
  BY <1>3, ElementOfSeq
<1>6. /\ SubSeq(s, k + 1, n) \in Seq(X) /\ Len(SubSeq(s, k + 1, n)) = d
      /\ \A i \in 1..d : SubSeq(s, k + 1, n)[i] = s[k + i]
  <2>1. \A i \in (k + 1)..n : s[i] \in X
    BY <1>1, <1>4
  <2>2. k + 1 \in Int /\ n \in Int
    BY <1>1
  <2>3. /\ SubSeq(s, k + 1, n) \in Seq(X)
        /\ Len(SubSeq(s, k + 1, n)) = IF k + 1 <= n THEN n - (k + 1) + 1 ELSE 0
        /\ \A i \in 1..(n - (k + 1) + 1) : SubSeq(s, k + 1, n)[i] = s[(k + 1) + i - 1]
    BY <2>1, <2>2, SubSeqProperties
  <2>4. /\ (IF k + 1 <= n THEN n - (k + 1) + 1 ELSE 0) = d /\ n - (k + 1) + 1 = d
        /\ \A i \in 1..d : (k + 1) + i - 1 = k + i
    BY <1>1, <1>2
  <2> QED
    BY <2>3, <2>4
<1>7. /\ SubSeq(t, k + 1, n + 1) \in Seq(X) /\ Len(SubSeq(t, k + 1, n + 1)) = d + 1
      /\ \A i \in 1..(d + 1) : SubSeq(t, k + 1, n + 1)[i] = t[k + i]
  <2>1. \A i \in (k + 1)..(n + 1) : t[i] \in X
    BY <1>1, <1>5
  <2>2. k + 1 \in Int /\ n + 1 \in Int
    BY <1>1
  <2>3. /\ SubSeq(t, k + 1, n + 1) \in Seq(X)
        /\ Len(SubSeq(t, k + 1, n + 1)) = IF k + 1 <= n + 1 THEN n + 1 - (k + 1) + 1 ELSE 0
        /\ \A i \in 1..(n + 1 - (k + 1) + 1) :
              SubSeq(t, k + 1, n + 1)[i] = t[(k + 1) + i - 1]
    BY <2>1, <2>2, SubSeqProperties
  <2>4. /\ (IF k + 1 <= n + 1 THEN n + 1 - (k + 1) + 1 ELSE 0) = d + 1
        /\ n + 1 - (k + 1) + 1 = d + 1
        /\ \A i \in 1..(d + 1) : (k + 1) + i - 1 = k + i
    BY <1>1, <1>2
  <2> QED
    BY <2>3, <2>4
<1> DEFINE u == SubSeq(s, k + 1, n)
<1>8. u \in Seq(X) /\ Len(u) = d /\ \A i \in 1..d : u[i] = s[k + i]
  BY <1>6
<1> HIDE DEF u
<1>9. /\ Append(u, x) \in Seq(X) /\ Len(Append(u, x)) = d + 1
      /\ \A i \in 1..d : Append(u, x)[i] = u[i]
      /\ Append(u, x)[d + 1] = x
  BY <1>8, AppendProperties
<1>10. /\ \A i \in 1..(d + 1) : i \in 1..d \/ i = d + 1
       /\ \A i \in 1..d : k + i \in 1..n
       /\ k + (d + 1) = n + 1
  BY <1>2
<1>11. \A i \in 1..(d + 1) : SubSeq(t, k + 1, n + 1)[i] = Append(u, x)[i]
  BY <1>3, <1>7, <1>8, <1>9, <1>10
<1>12. SubSeq(t, k + 1, n + 1) = Append(u, x)
  BY <1>7, <1>9, <1>11, SeqEqual
<1> QED
  BY <1>1, <1>12 DEF t, u

(* Steps without anything new for the windows.                             *)
LEMMA WindowsKept ==
    ASSUME WindowInv, UNCHANGED <<items, opened, openedAt>>, sent' \in Nat, Handled' = Handled
    PROVE  WindowInv'
<1>1. \A c : Come(c)' = Come(c)
  BY ComeStays
<1>2. \A c \in Conversations : Since(c)' = Since(c)
  BY <1>1 DEF Since
<1> QED
  BY <1>1, <1>2 DEF WindowInv, WindowOK

(* A step of one window.                                                   *)
LEMMA OneWindow ==
    ASSUME WindowInv, NEW c \in Conversations, NEW list \in Seq(Wide),
           items' = [items EXCEPT ![c] = list],
           opened' \subseteq Conversations, sent' \in Nat,
           openedAt' \in [Conversations -> Nat],
           \A d \in Conversations : d # c => /\ d \in opened' <=> d \in opened
                                             /\ openedAt'[d] = openedAt[d]
                                             /\ Come(d)' = Come(d),
           openedAt'[c] <= Len(Come(c)'), WindowOK(c)'
    PROVE  WindowInv'
<1>1. /\ items' \in [Conversations -> Seq(Wide)]
      /\ \A d \in Conversations : d # c => items'[d] = items[d]
  BY DEF WindowInv
<1>2. ASSUME NEW d \in Conversations
      PROVE  openedAt'[d] <= Len(Come(d)') /\ WindowOK(d)'
  <2>1. CASE d = c
    BY <2>1
  <2>2. CASE d # c
    <3>1. openedAt[d] <= Len(Come(d)) /\ WindowOK(d)
      BY DEF WindowInv
    <3>2. /\ items'[d] = items[d] /\ (d \in opened' <=> d \in opened)
          /\ openedAt'[d] = openedAt[d] /\ Come(d)' = Come(d)
      BY <1>1, <2>2
    <3>3. Since(d)' = Since(d)
      BY <3>2 DEF Since
    <3> QED
      BY <3>1, <3>2, <3>3 DEF WindowOK
  <2> QED
    BY <2>1, <2>2
<1> QED
  BY <1>1, <1>2 DEF WindowInv

-----------------------------------------------------------------------------
(* What the user sends is not incoming.                                    *)
LEMMA SentItem ==
    ASSUME WindowInv, NEW kind \in {"out", "sentFile"}
    PROVE  /\ Item(kind, MaxArrived + sent + 1) \in Wide
           /\ Item(kind, MaxArrived + sent + 1).kind # "in"
           /\ sent + 1 \in Nat
BY NamesAssumption DEF WindowInv, Item, Wide

(* Neither is the notice of a failure.                                     *)
LEMMA FailureItem == Failure \in Wide /\ Failure.kind # "in"
BY DEF Failure, Item, Wide

(* Something that is not an incoming message is added to an open window.   *)
LEMMA OwnItem ==
    ASSUME WindowInv, NEW c \in opened, NEW list \in Seq(Wide),
           items' = [items EXCEPT ![c] = list], list # << >>, Head(list) = Divider,
           Incoming(list) = Incoming(items[c]), sent' \in Nat,
           UNCHANGED <<opened, openedAt>>, Handled' = Handled
    PROVE  WindowInv'
<1>1. \A d : Come(d)' = Come(d)
  BY ComeStays
<1>2. /\ c \in Conversations /\ opened \subseteq Conversations
      /\ items \in [Conversations -> Seq(Wide)]
      /\ openedAt \in [Conversations -> Nat]
  BY DEF WindowInv
<1>3. openedAt[c] <= Len(Come(c)) /\ WindowOK(c)
  BY <1>2 DEF WindowInv
<1>4. items'[c] = list
  BY <1>2
<1>5. Since(c)' = Since(c)
  BY <1>1 DEF Since
<1>6. WindowOK(c)'
  BY <1>3, <1>4, <1>5 DEF WindowOK
<1> QED
  BY <1>1, <1>2, <1>3, <1>6, OneWindow

(* A window that is opened, for the first time or again, starts empty, and *)
(* one that is closed leaves nothing.                                      *)
LEMMA WindowWindows ==
    ASSUME WindowInv, RowInv, MailInv, WindowStep, Handled' = Handled
    PROVE  WindowInv'
<1>0. \A d : Come(d)' = Come(d)
  BY ComeStays
<1>1. /\ opened \subseteq Conversations /\ sent \in Nat
      /\ items \in [Conversations -> Seq(Wide)]
      /\ openedAt \in [Conversations -> Nat]
      /\ << >> \in Seq(Wide)
  BY EmptySeq DEF WindowInv
<1>2. ASSUME NEW friends \in SUBSET Names, NEW ok \in BOOLEAN, BuildList(friends, ok)
      PROVE  WindowInv'
  <2>1. UNCHANGED <<items, opened, openedAt, sent>>
    BY <1>2 DEF BuildList
  <2> QED
    BY <1>1, <2>1, WindowsKept
<1>3. ASSUME NEW i \in DOMAIN rows, OpenChat(i)
      PROVE  WindowInv'
  <2>0. PICK id : id = rows[i].id
    OBVIOUS
  <2>1. /\ id \notin Reserved /\ opened' = opened \cup {id} /\ sent' = sent
        /\ items' = [items EXCEPT ![id] = << >>]
        /\ openedAt' = [openedAt EXCEPT ![id] = Len(Come(id))]
    BY <1>3, <2>0 DEF OpenChat
  <2>2. id \in Conversations
    <3>1. rows \in Seq(Rec)
      BY DEF RowInv
    <3>2. rows[i] \in Rec
      BY <3>1, LenProperties, ElementOfSeq
    <3> QED
      BY <2>0, <2>1, <3>2 DEF Rec
  <2>3. PICK n \in Nat : n = Len(Come(id))
    BY ComeType
  <2>4. /\ openedAt' \in [Conversations -> Nat] /\ openedAt'[id] = n
        /\ \A d \in Conversations : d # id => openedAt'[d] = openedAt[d]
    BY <1>1, <2>1, <2>2, <2>3
  <2>5. items'[id] = << >>
    BY <1>1, <2>1, <2>2
  <2>6. Since(id)' = << >>
    <3>1. Since(id)' = SubSeq(Come(id), n + 1, n)
      BY <1>0, <2>3, <2>4 DEF Since
    <3>2. n + 1 \in Int /\ n \in Int /\ n < n + 1
      BY <2>3
    <3> QED
      BY <3>1, <3>2, SubSeqEmpty
  <2>7. WindowOK(id)'
    <3>1. Incoming(items'[id]) = Numbers(Since(id)')
      BY <2>5, <2>6, IncomingEmpty, NumbersEmpty
    <3>2. Incoming(items[id])' = Incoming(items'[id]) /\ Numbers(Since(id))' = Numbers(Since(id)')
      BY DEF Incoming, Numbers
    <3> QED
      BY <2>1, <2>5, <3>1, <3>2 DEF WindowOK
  <2>8. /\ opened' \subseteq Conversations
        /\ \A d \in Conversations : d # id => (d \in opened' <=> d \in opened)
    BY <1>1, <2>1, <2>2
  <2>9. openedAt'[id] <= Len(Come(id)')
    BY <1>0, <2>3, <2>4
  <2> QED
    BY <1>0, <1>1, <2>1, <2>2, <2>4, <2>7, <2>8, <2>9, OneWindow
<1>4. ASSUME NEW id \in Conversations, CloseChat(id)
      PROVE  WindowInv'
  <2>1. /\ opened' = opened \ {id} /\ items' = [items EXCEPT ![id] = << >>]
        /\ UNCHANGED <<openedAt, sent>>
    BY <1>4 DEF CloseChat
  <2>2. items'[id] = << >>
    BY <1>1, <2>1
  <2>3. WindowOK(id)'
    BY <2>1, <2>2 DEF WindowOK
  <2>4. openedAt'[id] <= Len(Come(id)')
    BY <1>0, <2>1 DEF WindowInv
  <2>5. /\ opened' \subseteq Conversations /\ sent' \in Nat
        /\ openedAt' \in [Conversations -> Nat]
        /\ \A d \in Conversations : d # id => /\ d \in opened' <=> d \in opened
                                              /\ openedAt'[d] = openedAt[d]
                                              /\ Come(d)' = Come(d)
    BY <1>0, <1>1, <2>1
  <2> QED
    BY <1>1, <2>1, <2>3, <2>4, <2>5, OneWindow
<1>5. ASSUME CloseList
      PROVE  WindowInv'
  <2>1. UNCHANGED <<items, opened, openedAt, sent>>
    BY <1>5 DEF CloseList
  <2> QED
    BY <1>1, <2>1, WindowsKept
<1> QED
  BY <1>2, <1>3, <1>4, <1>5 DEF WindowStep

(* A text, a file and the notice of a failure; the file's window is open   *)
(* while its dialog is.                                                    *)
LEMMA SendWindows ==
    ASSUME WindowInv, ModalInv, SendStep, Handled' = Handled
    PROVE  WindowInv'
<1>1. /\ opened \subseteq Conversations /\ sent \in Nat
      /\ items \in [Conversations -> Seq(Wide)]
  BY DEF WindowInv
<1>2. ASSUME NEW c \in opened
      PROVE  items[c] \in Seq(Wide) /\ (items[c] # << >> => Head(items[c]) = Divider)
  <2>1. WindowOK(c)
    BY <1>1 DEF WindowInv
  <2> QED
    BY <1>1, <2>1 DEF WindowOK
<1>3. ASSUME NEW c \in Conversations, NEW ok \in BOOLEAN, NEW late \in BOOLEAN,
             SendMessage(c, ok, late)
      PROVE  WindowInv'
  <2> DEFINE out == Item("out", MaxArrived + sent + 1)
             shown == AppendMessage(items[c], out, late)
             list == IF ok THEN shown ELSE AppendMessage(shown, Failure, FALSE)
  <2>1. /\ c \in opened /\ items' = [items EXCEPT ![c] = list] /\ sent' = sent + 1
        /\ UNCHANGED <<opened, openedAt>>
    BY <1>3 DEF SendMessage, AfterCall
  <2>2. out \in Wide /\ out.kind # "in" /\ sent' \in Nat
    BY <2>1, SentItem
  <2> HIDE DEF out
  <2>3. /\ shown \in Seq(Wide) /\ Head(shown) = Divider /\ shown # << >>
        /\ Incoming(shown) = Incoming(items[c])
    BY <1>2, <2>1, <2>2, Appended
  <2> HIDE DEF shown
  <2>4. /\ list \in Seq(Wide) /\ Head(list) = Divider /\ list # << >>
        /\ Incoming(list) = Incoming(items[c])
    BY <2>3, Appended, FailureItem
  <2> HIDE DEF list
  <2> QED
    BY <2>1, <2>2, <2>4, OwnItem
<1>4. ASSUME NEW id \in Conversations, ChooseFile(id)
      PROVE  WindowInv'
  <2>1. UNCHANGED <<items, opened, openedAt, sent>>
    BY <1>4 DEF ChooseFile
  <2> QED
    BY <1>1, <2>1, WindowsKept
<1>5. ASSUME NEW ok \in BOOLEAN, NEW late \in BOOLEAN, SendFile(ok, late)
      PROVE  WindowInv'
  <2> DEFINE note == IF ok THEN Item("sentFile", MaxArrived + sent + 1) ELSE Failure
             c == modal.id
             list == AppendMessage(items[c], note, late)
  <2>1. /\ modal.kind = "file" /\ items' = [items EXCEPT ![c] = list] /\ sent' = sent + 1
        /\ UNCHANGED <<opened, openedAt>>
    BY <1>5 DEF SendFile, AfterCall
  <2>2. c \in opened
    BY <2>1 DEF ModalInv
  <2>3. note \in Wide /\ note.kind # "in" /\ sent' \in Nat
    BY <2>1, SentItem, FailureItem
  <2> HIDE DEF note, c
  <2>4. /\ list \in Seq(Wide) /\ Head(list) = Divider /\ list # << >>
        /\ Incoming(list) = Incoming(items[c])
    BY <1>2, <2>2, <2>3, Appended
  <2> HIDE DEF list
  <2> QED
    BY <2>1, <2>2, <2>3, <2>4, OwnItem
<1> QED
  BY <1>3, <1>4, <1>5 DEF SendStep

(* The dialogs of the list do not touch the windows.                       *)
LEMMA DialogWindows ==
    ASSUME WindowInv, DialogStep, Handled' = Handled
    PROVE  WindowInv'
<1>1. UNCHANGED <<items, opened, openedAt, sent>>
  BY DEF DialogStep, ShowMenu, SetRemark, PressAdd, EnterName, AddFriend, Dismiss, AfterCall
<1>2. sent' \in Nat
  BY <1>1 DEF WindowInv
<1> QED
  BY <1>1, <1>2, WindowsKept

(* A message appears in its window if that is open.                        *)
LEMMA HandleWindows ==
    ASSUME WindowInv, MailInv, HandleStep, NEW m \in Parsed, m = Head(batch),
           Handled' = Append(Handled, m)
    PROVE  WindowInv'
<1> DEFINE c == m.conv
<1>1. PICK late \in BOOLEAN : HandleOfflineMessage(late)
  BY DEF HandleStep
<1>2. /\ UNCHANGED <<opened, openedAt, sent>>
      /\ c \in opened => items' = [items EXCEPT ![c] =
                                     AppendMessage(@, Item("in", m.n), late)]
      /\ c \notin opened => items' = items
  BY <1>1 DEF HandleOfflineMessage
<1>3. /\ opened \subseteq Conversations /\ sent \in Nat
      /\ items \in [Conversations -> Seq(Wide)]
      /\ openedAt \in [Conversations -> Nat]
  BY DEF WindowInv
<1>4. c \in Conversations /\ m.n \in 1..MaxArrived
  BY DEF Parsed
<1> HIDE DEF c
<1>5. openedAt[c] <= Len(Come(c)) /\ WindowOK(c)
  BY <1>4 DEF WindowInv
<1>6. /\ Come(c)' = Append(Come(c), m)
      /\ \A d \in Conversations : d # c => Come(d)' = Come(d)
  <2>1. \A d : Come(d)' = IF m.conv = d THEN Append(Come(d), m) ELSE Come(d)
    BY ComeGrows
  <2> QED
    BY <2>1 DEF c
<1>7. Come(c) \in Seq(Parsed)
  BY ComeType
<1>8. PICK n \in Nat, k \in Nat : n = Len(Come(c)) /\ k = openedAt[c] /\ k <= n
  BY <1>3, <1>4, <1>5, <1>7, LenProperties
<1>9. Len(Come(c)') = n + 1
  BY <1>6, <1>7, <1>8, AppendProperties
<1>10. openedAt'[c] <= Len(Come(c)')
  <2>1. k <= n + 1
    BY <1>8
  <2> QED
    BY <1>2, <1>8, <1>9, <2>1
<1>11. Since(c)' = Append(Since(c), m) /\ Since(c) \in Seq(Parsed)
  <2>1. SubSeq(Append(Come(c), m), k + 1, n + 1) = Append(SubSeq(Come(c), k + 1, n), m)
    BY <1>7, <1>8, SinceGrows
  <2>2. Since(c)' = SubSeq(Append(Come(c), m), k + 1, n + 1)
    BY <1>2, <1>6, <1>8, <1>9 DEF Since
  <2>3. Since(c) = SubSeq(Come(c), k + 1, n)
    BY <1>8 DEF Since
  <2>4. \A i \in 1..n : Come(c)[i] \in Parsed
    BY <1>7, <1>8, ElementOfSeq
  <2>5. (\A i \in (k + 1)..n : Come(c)[i] \in Parsed) /\ k + 1 \in Int /\ n \in Int
    BY <1>8, <2>4
  <2>6. SubSeq(Come(c), k + 1, n) \in Seq(Parsed)
    BY <2>5, SubSeqProperties
  <2> QED
    BY <2>1, <2>2, <2>3, <2>6
<1>12. CASE c \in opened
  <2> DEFINE in == Item("in", m.n)
             list == AppendMessage(items[c], in, late)
  <2>1. in \in Wide /\ in \in Items /\ in.kind = "in" /\ in.n = m.n
    <3>1. m.n \in Nat /\ m.n \in 0..(MaxArrived + MaxSent)
      BY <1>4, NamesAssumption, RemarksAssumption
    <3> QED
      BY <3>1 DEF Item, Wide, Items
  <2> HIDE DEF in
  <2>2. items[c] \in Seq(Wide) /\ (items[c] # << >> => Head(items[c]) = Divider)
          /\ Incoming(items[c]) = Numbers(Since(c))
    BY <1>3, <1>4, <1>5, <1>12 DEF WindowOK
  <2>3. /\ list \in Seq(Wide) /\ Head(list) = Divider /\ list # << >>
        /\ Incoming(list) = Append(Incoming(items[c]), m.n)
    BY <2>1, <2>2, Appended
  <2>4. items' = [items EXCEPT ![c] = list]
    BY <1>2, <1>12 DEF in
  <2> HIDE DEF list
  <2>5. items'[c] = list
    BY <1>3, <1>4, <2>4
  <2>6. Numbers(Append(Since(c), m)) = Append(Numbers(Since(c)), m.n)
    <3>1. \A x \in Parsed : x.n \in Nat
      BY NamesAssumption DEF Parsed
    <3> QED
      BY <1>11, <3>1, NumbersAppend
  <2>7. Incoming(items'[c]) = Numbers(Since(c)')
    BY <1>11, <2>2, <2>3, <2>5, <2>6
  <2>8. Incoming(items[c])' = Incoming(items'[c]) /\ Numbers(Since(c))' = Numbers(Since(c)')
    BY DEF Incoming, Numbers
  <2>9. WindowOK(c)'
    BY <1>2, <1>12, <2>3, <2>5, <2>7, <2>8 DEF WindowOK
  <2>10. /\ opened' \subseteq Conversations /\ sent' \in Nat
         /\ openedAt' \in [Conversations -> Nat]
         /\ \A d \in Conversations : d # c => /\ d \in opened' <=> d \in opened
                                              /\ openedAt'[d] = openedAt[d]
                                              /\ Come(d)' = Come(d)
    BY <1>2, <1>3, <1>6
  <2> QED
    BY <1>4, <1>10, <2>3, <2>4, <2>9, <2>10, OneWindow
<1>13. CASE c \notin opened
  <2>1. items' = [items EXCEPT ![c] = items[c]] /\ items[c] \in Seq(Wide) /\ items'[c] = items[c]
    BY <1>2, <1>3, <1>4, <1>13
  <2>2. WindowOK(c)'
    BY <1>2, <1>5, <1>13, <2>1 DEF WindowOK
  <2>3. /\ opened' \subseteq Conversations /\ sent' \in Nat
        /\ openedAt' \in [Conversations -> Nat]
        /\ \A d \in Conversations : d # c => /\ d \in opened' <=> d \in opened
                                             /\ openedAt'[d] = openedAt[d]
                                             /\ Come(d)' = Come(d)
    BY <1>2, <1>3, <1>6
  <2> QED
    BY <1>4, <1>10, <2>1, <2>2, <2>3, OneWindow
<1> QED
  BY <1>12, <1>13

(* Every step keeps the windows.                                           *)
LEMMA NextWindows ==
    ASSUME LoginInv, MailInv, RowInv, ModalInv, WindowInv, [FrontEndNext]_vars
    PROVE  WindowInv'
<1>1. /\ (LoginStep \/ WindowStep \/ SendStep \/ DialogStep \/ Outside \/ PollStep
            \/ FaultStep \/ UNCHANGED vars) => Handled' = Handled
      /\ HandleStep => /\ Head(batch) \in Parsed
                       /\ Handled' = Append(Handled, Head(batch))
  BY StepMail
<1>2. CASE LoginStep \/ Outside \/ PollStep \/ FaultStep \/ UNCHANGED vars
  <2>1. UNCHANGED chatVars
    BY <1>2 DEF LoginStep, Outside, PollStep, FaultStep, vars
  <2>2. UNCHANGED <<items, opened, openedAt, sent>>
    BY <2>1 DEF chatVars
  <2>3. sent' \in Nat
    BY <2>2 DEF WindowInv
  <2>4. Handled' = Handled
    BY <1>1, <1>2
  <2> QED
    BY <2>2, <2>3, <2>4, WindowsKept
<1>3. CASE WindowStep
  BY <1>1, <1>3, WindowWindows
<1>4. CASE SendStep
  BY <1>1, <1>4, SendWindows
<1>5. CASE DialogStep
  BY <1>1, <1>5, DialogWindows
<1>6. CASE HandleStep
  BY <1>1, <1>6, HandleWindows
<1> QED
  BY <1>2, <1>3, <1>4, <1>5, <1>6 DEF FrontEndNext

(* No window is open at the start.                                         *)
LEMMA InitWindows == FrontEndInit => WindowInv
<1> SUFFICES ASSUME FrontEndInit PROVE WindowInv
  OBVIOUS
<1>1. /\ opened = {} /\ sent = 0 /\ items = [c \in Conversations |-> << >>]
      /\ openedAt = [c \in Conversations |-> 0]
  BY DEF FrontEndInit, ChatInit
<1>2. MailInv
  BY InitMailInv
<1>3. ASSUME NEW c \in Conversations
      PROVE  openedAt[c] <= Len(Come(c)) /\ WindowOK(c)
  <2>1. Len(Come(c)) \in Nat
    BY <1>2, ComeType
  <2> QED
    BY <1>1, <2>1 DEF WindowOK
<1>4. << >> \in Seq(Wide)
  BY EmptySeq
<1> QED
  BY <1>1, <1>3, <1>4 DEF WindowInv

-----------------------------------------------------------------------------
FrontEndInv == LoginInv /\ MailInv /\ RowInv /\ ModalInv /\ WindowInv

(* The conjunction holds of every reachable state.                         *)
LEMMA FrontEndInductive == FrontEndSpec => []FrontEndInv
<1>1. FrontEndInit => FrontEndInv
  BY InitLoginInv, InitMailInv, InitRows, InitWindows DEF FrontEndInv
<1>2. FrontEndInv /\ [FrontEndNext]_vars => FrontEndInv'
  <2> SUFFICES ASSUME FrontEndInv, [FrontEndNext]_vars PROVE FrontEndInv'
    OBVIOUS
  <2>1. LoginInv /\ MailInv /\ RowInv /\ ModalInv /\ WindowInv
    BY DEF FrontEndInv
  <2>2. LoginInv'
    BY <2>1, NextLoginInv
  <2>3. MailInv'
    BY <2>1, StepMail
  <2>4. RowInv' /\ ModalInv'
    BY <2>1, NextRows
  <2>5. WindowInv'
    BY <2>1, NextWindows
  <2> QED
    BY <2>2, <2>3, <2>4, <2>5 DEF FrontEndInv
<1> QED
  BY <1>1, <1>2, PTL DEF FrontEndSpec

(* No conversation has two rows, although rows are added by messages while *)
(* the dialogs of handleAddFriend are open.                                *)
THEOREM OneRowEach == FrontEndSpec => []RowsUnique
<1>1. FrontEndInv => RowsUnique
  <2> SUFFICES ASSUME FrontEndInv PROVE RowsUnique
    OBVIOUS
  <2>1. rows \in Seq(Rec) /\ UniqueIds(rows)
    BY DEF FrontEndInv, RowInv
  <2>2. DOMAIN rows = 1..Len(rows)
    BY <2>1, LenProperties
  <2> QED
    BY <2>1, <2>2 DEF RowsUnique, UniqueIds
<1> QED
  BY <1>1, FrontEndInductive, PTL

(* Every row is right.                                                     *)
LEMMA RowsAreRight ==
    ASSUME RowInv, NEW i \in DOMAIN rows
    PROVE  rows[i].id \in Conversations /\ RowOK(i, rows[i].id)
<1>1. rows \in Seq(Rec)
  BY DEF RowInv
<1>2. i \in 1..Len(rows) /\ rows[i] \in Rec
  BY <1>1, LenProperties, ElementOfSeq
<1>3. rows[i].id \in Conversations
  BY <1>2 DEF Rec
<1> QED
  BY <1>2, <1>3 DEF RowInv

(* The remark saved from a menu is the title of that conversation's row    *)
(* and no other's, although the menu and its dialog hold an index.         *)
THEOREM RemarksStay == FrontEndSpec => []RemarkHitsItsRow
<1>1. FrontEndInv => RemarkHitsItsRow
  BY RowsAreRight DEF FrontEndInv, RemarkHitsItsRow, RowOK
<1> QED
  BY <1>1, FrontEndInductive, PTL

(* Every pulled message has a row, unless its conversation's name is one   *)
(* that begins with "__", and every row counts what came since a message   *)
(* last came into an open window.                                          *)
THEOREM BadgesAreRight == FrontEndSpec => []BadgesCount
<1>1. FrontEndInv => BadgesCount
  <2> SUFFICES ASSUME FrontEndInv PROVE BadgesCount
    OBVIOUS
  <2>1. RowInv
    BY DEF FrontEndInv
  <2>2. ASSUME NEW c \in Conversations \ Reserved, Come(c) # << >>
        PROVE  RowsOf(c) # {}
    <3>1. PICK i \in 1..Len(rows) : rows[i].id = c
      BY <2>1, <2>2 DEF RowInv, NoRowOK
    <3>2. rows \in Seq(Rec)
      BY <2>1 DEF RowInv
    <3>3. i \in DOMAIN rows
      BY <3>2, LenProperties
    <3> QED
      BY <3>1, <3>3 DEF RowsOf
  <2>3. ASSUME NEW i \in DOMAIN rows
        PROVE  rows[i].unread = Len(Come(rows[i].id)) - readAt[rows[i].id]
    BY <2>1, <2>3, RowsAreRight DEF RowOK
  <2> QED
    BY <2>2, <2>3 DEF BadgesCount
<1> QED
  BY <1>1, FrontEndInductive, PTL

(* An open window shows, in order, exactly what came for its conversation  *)
(* since it was last opened.                                               *)
THEOREM WindowsShowAll == FrontEndSpec => []WindowShowsArrivals
<1>1. FrontEndInv => WindowShowsArrivals
  <2> SUFFICES ASSUME FrontEndInv, NEW c \in Conversations
               PROVE  /\ c \in opened =>
                            Incoming(items[c]) = Numbers(Since(c))
                      /\ c \notin opened => items[c] = << >>
                      /\ items[c] # << >> => Head(items[c]) = Divider
    BY DEF WindowShowsArrivals, Numbers, Since
  <2> QED
    BY DEF FrontEndInv, WindowInv, WindowOK
<1> QED
  BY <1>1, FrontEndInductive, PTL
=============================================================================
