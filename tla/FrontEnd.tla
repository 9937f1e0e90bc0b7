------------------------------ MODULE FrontEnd ------------------------------
(***************************************************************************)
(* The program of qq_main_list as main() puts it together: the adapter is  *)
(* initialised, the login dialog runs, and when it was accepted the main   *)
(* window is built and the event loop entered.  Messages may arrive at the *)
(* server at any time.                                                     *)
(***************************************************************************)
EXTENDS LoginDialog, ChatWindows

vars == <<backendVars, loginVars, chatVars>>

FrontEndTypeOK == BackendTypeOK /\ LoginTypeOK /\ ChatTypeOK

FrontEndInit == BackendInit /\ LoginInit /\ ChatInit

LoginStep ==
    /\ \/ Edit
       \/ PressLabel
       \/ HandleLogin
       \/ CloseWarning
       \/ Reject
    /\ UNCHANGED chatVars

Outside ==
    /\ stage # "ended"
    /\ \E c \in Names \cup {NoName} : Arrive(c)
    /\ UNCHANGED <<loginVars, chatVars>>

PollStep == Poll /\ UNCHANGED <<loginVars, chatVars>>

FaultStep == PollFails /\ UNCHANGED <<loginVars, chatVars>>

HandleStep ==
    /\ \E late \in BOOLEAN : HandleOfflineMessage(late)
    /\ UNCHANGED loginVars

WindowStep ==
    /\ \/ \E friends \in SUBSET Names, ok \in BOOLEAN : BuildList(friends, ok)
       \/ \E i \in DOMAIN rows : OpenChat(i)
       \/ \E id \in Conversations : CloseChat(id)
       \/ CloseList
    /\ UNCHANGED loginVars

SendStep ==
    /\ \/ \E id \in Conversations, ok, late \in BOOLEAN : SendMessage(id, ok, late)
       \/ \E id \in Conversations : ChooseFile(id)
       \/ \E ok, late \in BOOLEAN : SendFile(ok, late)
    /\ UNCHANGED loginVars

DialogStep ==
    /\ \/ \E i \in DOMAIN rows : ShowMenu(i)
       \/ \E r \in Remarks \cup {NoRemark}, ok \in BOOLEAN : SetRemark(r, ok)
       \/ PressAdd
       \/ \E name \in Names : EnterName(name)
       \/ \E r \in Remarks \cup {NoRemark}, ok \in BOOLEAN : AddFriend(r, ok)
       \/ Dismiss
    /\ UNCHANGED loginVars

FrontEndNext ==
    \/ LoginStep \/ WindowStep \/ SendStep \/ DialogStep
    \/ Outside \/ PollStep \/ FaultStep \/ HandleStep

FrontEndSpec == FrontEndInit /\ [][FrontEndNext]_vars

(* The timer keeps firing, and while the session holds a poll gets through *)
(* in the end; a handler ends.  Nobody has to use a window, close a dialog *)
(* or send a message.                                                      *)
FairFrontEndSpec ==
    FrontEndSpec /\ WF_vars(PollStep) /\ WF_vars(HandleStep)
-----------------------------------------------------------------------------
(* No conversation has two rows: a row may appear while the dialogs of     *)
(* handleAddFriend are open.                                               *)
RowsUnique ==
    \A i, j \in DOMAIN rows : rows[i].id = rows[j].id => i = j

(* The remark that was saved from a row's menu is the title of that        *)
(* conversation's row and of no other's, although rows come while the menu *)
(* and the dialog hold the row's index.                                    *)
RemarkHitsItsRow ==
    \A i \in DOMAIN rows :
       /\ edited[rows[i].id] # NoName =>
             rows[i].title = Display(rows[i].id, edited[rows[i].id])
       /\ rows[i].title \in Conversations => rows[i].title = rows[i].id

Incoming(list) ==
    LET in == Kept(list, {m \in Items : m.kind = "in"})
    IN  [i \in DOMAIN in |-> in[i].n]

(* An open window shows what has come for its conversation since it was    *)
(* last opened, in the order it was sent, and nothing else as incoming;    *)
(* its first entry is a time.                                              *)
WindowShowsArrivals ==
    \A c \in Conversations :
       /\ c \in opened =>
             LET come == Come(c)
                 since == SubSeq(come, openedAt[c] + 1, Len(come))
             IN  Incoming(items[c]) = [i \in DOMAIN since |-> since[i].n]
       /\ c \notin opened => items[c] = << >>
       /\ items[c] # << >> => Head(items[c]) = Divider

(* Whatever the adapter pulled has a row, whatever dialog was open, and a  *)
(* row counts what came since a message last came into an open window.     *)
(* But a row whose name begins with "__" goes when the next friend is      *)
(* added, and what it counted with it: only for other names is no pulled   *)
(* message without a trace.                                                *)
BadgesCount ==
    /\ \A c \in Conversations \ Reserved : Come(c) # << >> => RowsOf(c) # {}
    /\ \A i \in DOMAIN rows :
          rows[i].unread = Len(Come(rows[i].id)) - readAt[rows[i].id]

(* Nobody is logged in without having ticked the agreement: the first page *)
(* logs in without looking at it, but cannot be reached with a password.   *)
AgreedBeforeLogin == loggedIn => agreed

(* A message that waits while the program is in use comes to its row, even *)
(* if the user never closes the dialog that is open, unless the session or *)
(* its channel is lost: then nothing comes any more.  The row is there as  *)
(* the message comes (it may be one that goes again, see BadgesCount).     *)
ArrivalsGetListed ==
    \A n \in 1..MaxArrived :
       (stage = "main" /\ \E i \in DOMAIN inbox : inbox[i].n = n)
          ~> (\/ stage = "ended" \/ lost
              \/ \E c \in Conversations :
                    RowsOf(c) # {} /\ \E i \in DOMAIN Come(c) : Come(c)[i].n = n)
=============================================================================
