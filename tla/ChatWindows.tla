----------------------------- MODULE ChatWindows -----------------------------
(***************************************************************************)
(* MainListWindow with its list of conversations, the ChatWindows it opens *)
(* and the MessageModel of each.  One GUI thread runs all of it, but the   *)
(* modal dialogs run event loops of their own: while one is open no other  *)
(* window takes input, yet the timer goes on polling and                   *)
(* handleOfflineMessage changes the list under it.                         *)
(***************************************************************************)
EXTENDS BackendAdapter

CONSTANTS
    Remarks,    \* remarks the user enters
    NoRemark,   \* an empty remark
    Reserved,   \* the names that begin with "__"
    PlaceholderId,  \* "__placeholder__"
    MaxSent     \* bound: texts and files the user sends

ASSUME RemarksAssumption ==
    /\ PlaceholderId \in Reserved /\ Reserved \subseteq Names
    /\ NoRemark \notin Remarks \cup Conversations
    /\ Remarks \cap Conversations = {}
    /\ MaxSent \in Nat

VARIABLES
    rows,       \* model_: the rows of the list
    listShown,  \* the main window has not been closed
    modal,      \* the dialog that is open, and what its handler holds
    opened,     \* chatWindows_
    items,      \* messageModel_ of each window
    sent,       \* history: how many messages the user has sent
    openedAt,   \* history: messages that had come when a window was (re)opened
    readAt,     \* history: messages that had come when one last came to a
                \* window, or when the row that counted them went
    edited      \* history: the remark last saved from the list

chatVars == <<rows, listShown, modal, opened, items, sent, openedAt, readAt,
              edited>>

Titles == Conversations \cup Remarks
Row(id, title, unread) == [id |-> id, title |-> title, unread |-> unread]

(* The row of an empty list.  Its id is a name like any other: a message   *)
(* of that account is counted in it.                                       *)
Placeholder == Row(PlaceholderId, NoRemark, 0)

Items == [kind : {"divider", "in", "out", "failure", "sentFile"},
          n : 0..(MaxArrived + MaxSent)]
Item(kind, n) == [kind |-> kind, n |-> n]
Divider == Item("divider", 0)
Failure == Item("failure", 0)

NoModal == [kind |-> "none", id |-> NoName, row |-> 0]
Modal(kind, id, row) == [kind |-> kind, id |-> id, row |-> row]

ChatTypeOK ==
    /\ rows \in Seq([id : Conversations, title : Titles \cup {NoRemark},
                     unread : 0..MaxArrived])
    /\ listShown \in BOOLEAN
    /\ modal \in [kind : {"none", "remark", "name", "addRemark",
                          "file", "box"},
                  id : Conversations \cup {NoName}, row : 0..Len(rows)]
    /\ opened \subseteq Conversations
    /\ items \in [Conversations -> Seq(Items)]
    /\ sent \in 0..MaxSent
    /\ <<openedAt, readAt>> \in [1..2 -> [Conversations -> 0..MaxArrived]]
    /\ edited \in [Conversations -> Remarks \cup {NoRemark, NoName}]

(* Nothing of the main window exists during the login. *)
ChatInit ==
    /\ rows = << >>
    /\ listShown = FALSE
    /\ modal = NoModal
    /\ opened = {}
    /\ items = [c \in Conversations |-> << >>]
    /\ sent = 0
    /\ openedAt = [c \in Conversations |-> 0]
    /\ readAt = openedAt
    /\ edited = [c \in Conversations |-> NoName]

Input == stage = "main" /\ Idle /\ modal = NoModal

(* displayName, and the title of a row whose remark was entered. *)
Display(id, remark) == IF remark = NoRemark THEN id ELSE remark

(* The messages that have come for a conversation. *)
Come(c) ==
    Kept(SubSeq(pulled, 1, Len(pulled) - Len(batch)), {m \in Parsed : m.conv = c})

(* The row handleOfflineMessage and handleAddFriend look for. *)
RowsOf(c) == {i \in DOMAIN rows : rows[i].id = c}
-----------------------------------------------------------------------------
(* MainListWindow's constructor: the server's friends, in their order, or  *)
(* the placeholder if there are none or listFriends fails.                 *)
BuildList(friends, ok) ==
    /\ stage = "accepted"
    /\ CallCore(ok)
    /\ ok \/ friends = {}
    /\ \E remarkOf \in [friends -> Remarks \cup {NoRemark}],
          order \in SetToSeqs(friends) :
             rows' = IF friends = {} THEN <<Placeholder>>
                     ELSE [i \in DOMAIN order |->
                             Row(order[i], Display(order[i], remarkOf[order[i]]), 0)]
    /\ stage' = "main"
    /\ listShown' = TRUE
    /\ UNCHANGED <<mailVars, modal, opened, items, sent, openedAt, readAt,
                   edited>>

OpenChat_KeepsItems(i) ==       \* mutant: an open window keeps its messages
    LET id == rows[i].id IN
    /\ Input /\ listShown /\ id \notin Reserved
    /\ opened' = opened \cup {id}
    /\ openedAt' = [openedAt EXCEPT ![id] = Len(Come(id))]
    /\ UNCHANGED <<backendVars, rows, listShown, modal, items, sent, readAt, edited>>

(* openChatForIndex: a click, a double click or Return on a row.  A new    *)
(* window and one that is open already both start without messages.        *)
OpenChat(i) ==
    LET id == rows[i].id IN
    /\ Input /\ listShown /\ id \notin Reserved
    /\ opened' = opened \cup {id}
    /\ items' = [items EXCEPT ![id] = << >>]
    /\ openedAt' = [openedAt EXCEPT ![id] = Len(Come(id))]
    /\ UNCHANGED <<backendVars, rows, listShown, modal, sent, readAt, edited>>

(* A window is deleted as it closes and leaves chatWindows_. *)
CloseChat(id) ==
    /\ Input /\ id \in opened
    /\ opened' = opened \ {id}
    /\ items' = [items EXCEPT ![id] = << >>]
    /\ stage' = IF listShown \/ opened' # {} THEN stage ELSE "ended"
    /\ UNCHANGED <<coreVars, mailVars, rows, listShown, modal, sent, openedAt,
                   readAt, edited>>

(* The program ends with its last window, not with the main one. *)
CloseList ==
    /\ Input /\ listShown
    /\ listShown' = FALSE
    /\ stage' = IF opened # {} THEN stage ELSE "ended"
    /\ UNCHANGED <<coreVars, mailVars, rows, modal, opened, items, sent,
                   openedAt, readAt, edited>>
-----------------------------------------------------------------------------
(* MessageModel *)

(* maybeInsertDivider: before the first message, and after five minutes    *)
(* without one (late).                                                     *)
WithDivider(list, late) ==
    IF list = << >> \/ late THEN Append(list, Divider) ELSE list

AppendMessage(list, item, late) == Append(WithDivider(list, late), item)
-----------------------------------------------------------------------------
(* Incoming messages *)

NewRow_OnTop(c) == <<Row(c, c, 1)>> \o rows     \* mutant: the newest first

NewRow(c) == Append(rows, Row(c, c, 1))

Count(c) ==
    IF RowsOf(c) = {} THEN NewRow(c)
    ELSE [rows EXCEPT ![Min(RowsOf(c))].unread = @ + 1]

Place(c) == IF RowsOf(c) = {} THEN Len(rows) + 1 ELSE Min(RowsOf(c))

HandleOfflineMessage_AnyWindow(late) ==     \* mutant: any open window reads it
    LET c == Head(batch).conv IN
    /\ batch # << >>
    /\ batch' = Tail(batch)
    /\ rows' = IF opened # {} THEN [Count(c) EXCEPT ![Place(c)].unread = 0]
               ELSE Count(c)
    /\ IF c \in opened
       THEN /\ items' = [items EXCEPT ![c] =
                           AppendMessage(@, Item("in", Head(batch).n), late)]
            /\ readAt' = [readAt EXCEPT ![c] = Len(Come(c)) + 1]
       ELSE ~late /\ UNCHANGED <<items, readAt>>
    /\ UNCHANGED <<stage, coreVars, inbox, pulled, arrived, listShown, modal,
                   opened, sent, openedAt, edited>>

(* handleOfflineMessage: counted as unread, unless its window is open: then *)
(* it is shown there and the row counts as read.                            *)
HandleOfflineMessage(late) ==
    LET c == Head(batch).conv IN
    /\ batch # << >>
    /\ batch' = Tail(batch)
    /\ IF c \in opened
       THEN /\ items' = [items EXCEPT ![c] =
                           AppendMessage(@, Item("in", Head(batch).n), late)]
            /\ rows' = [Count(c) EXCEPT ![Place(c)].unread = 0]
            /\ readAt' = [readAt EXCEPT ![c] = Len(Come(c)) + 1]
       ELSE rows' = Count(c) /\ ~late /\ UNCHANGED <<items, readAt>>
    /\ UNCHANGED <<stage, coreVars, inbox, pulled, arrived, listShown, modal,
                   opened, sent, openedAt, edited>>
-----------------------------------------------------------------------------
(* Outgoing messages *)

AfterCall == UNCHANGED <<stage, mailVars, listShown, opened, openedAt>>

(* sendMessage: the text is shown before it is sent; a failure is said     *)
(* below it.                                                               *)
SendMessage(id, ok, late) ==
    LET shown == AppendMessage(items[id], Item("out", MaxArrived + sent + 1), late) IN
    /\ Input /\ id \in opened /\ sent < MaxSent
    /\ CallCore(ok)
    /\ items' = [items EXCEPT ![id] =
                   IF ok THEN shown ELSE AppendMessage(shown, Failure, FALSE)]
    /\ sent' = sent + 1
    /\ UNCHANGED <<rows, modal, readAt, edited>> /\ AfterCall

(* sendFilePlaceholder: the menu and the file dialog, then the call.       *)
ChooseFile(id) ==
    /\ Input /\ id \in opened /\ sent < MaxSent
    /\ modal' = Modal("file", id, 0)
    /\ UNCHANGED <<backendVars, rows, listShown, opened, items, sent, openedAt,
                   readAt, edited>>

SendFile(ok, late) ==
    LET note == IF ok THEN Item("sentFile", MaxArrived + sent + 1) ELSE Failure IN
    /\ Idle /\ modal.kind = "file"
    /\ CallCore(ok)
    /\ items' = [items EXCEPT ![modal.id] = AppendMessage(@, note, late)]
    /\ sent' = sent + 1
    /\ modal' = NoModal
    /\ UNCHANGED <<rows, readAt, edited>> /\ AfterCall
-----------------------------------------------------------------------------
(* The context menu of a row and the dialog after it: the row's index is   *)
(* held while both are open.                                               *)

ShowMenu(i) ==
    /\ Input /\ listShown /\ rows[i].id \notin Reserved
    /\ modal' = Modal("remark", rows[i].id, i)
    /\ UNCHANGED <<backendVars, rows, listShown, opened, items, sent, openedAt,
                   readAt, edited>>

SetRemark(remark, ok) ==
    /\ Idle /\ modal.kind = "remark"
    /\ CallCore(ok)
    /\ IF ok
       THEN /\ rows' = [rows EXCEPT ![modal.row].title = Display(modal.id, remark)]
            /\ edited' = [edited EXCEPT ![modal.id] = remark]
            /\ modal' = NoModal
       ELSE modal' = Modal("box", NoName, 0) /\ UNCHANGED <<rows, edited>>
    /\ UNCHANGED <<items, sent, readAt>> /\ AfterCall
-----------------------------------------------------------------------------
(* handleAddFriend: two dialogs, the call, the list, a message box.        *)

PressAdd ==
    /\ Input /\ listShown
    /\ modal' = Modal("name", NoName, 0)
    /\ UNCHANGED <<backendVars, rows, listShown, opened, items, sent, openedAt,
                   readAt, edited>>

EnterName(name) ==
    /\ Idle /\ modal.kind = "name"
    /\ modal' = Modal("addRemark", name, 0)
    /\ UNCHANGED <<backendVars, rows, listShown, opened, items, sent, openedAt,
                   readAt, edited>>

Friends == Kept(rows, {r \in Range(rows) : r.id \notin Reserved})

WithFriend_Unchecked(name, remark) ==       \* mutant: no look whether it exists
    <<Row(name, Display(name, remark), 0)>> \o Friends

(* Every row with a reserved name goes, the placeholder or not; a new      *)
(* friend comes first, and one that has still a row, which may have come   *)
(* in the meantime, gets no other.                                         *)
WithFriend(name, remark) ==
    IF \E r \in Range(Friends) : r.id = name THEN Friends
    ELSE <<Row(name, Display(name, remark), 0)>> \o Friends

(* What a row that went had counted is forgotten. *)
AddFriend(remark, ok) ==
    /\ Idle /\ modal.kind = "addRemark"
    /\ CallCore(ok)
    /\ IF ok
       THEN /\ rows' = WithFriend(modal.id, remark)
            /\ readAt' = [c \in Conversations |->
                            IF c \in Reserved THEN Len(Come(c)) ELSE readAt[c]]
       ELSE UNCHANGED <<rows, readAt>>
    /\ modal' = Modal("box", NoName, 0)
    /\ UNCHANGED <<items, sent, edited>> /\ AfterCall

(* A dialog is cancelled, left empty, or a message box confirmed.          *)
Dismiss ==
    /\ Idle /\ modal # NoModal
    /\ modal' = NoModal
    /\ UNCHANGED <<backendVars, rows, listShown, opened, items, sent, openedAt,
                   readAt, edited>>
=============================================================================
