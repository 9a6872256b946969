------------------------------ MODULE Messages ------------------------------
(***************************************************************************)
(* Direct messages and the unread badge: MessagesService.create and        *)
(* markAsRead, and ChatsService.resetUnreadMessageCount, for one chat and  *)
(* the messages to one of its users, the reader.                           *)
(*                                                                         *)
(* A message is a document of its own; the badge is a row of the chat's    *)
(* unReadMessage array, and the chat also repeats the latest message for   *)
(* the chat list.  A send writes the message first and the chat second,    *)
(* and a read marks the messages first and clears the row second.          *)
(***************************************************************************)
EXTENDS Naturals, FiniteSets, SequencesExt

CONSTANTS
    Call,       \* bound: requests in all, each used once; a send names its message
    Kinds       \* "socket" and "rest" sends, "markAsRead", "reset"

ASSUME CallAssumption == IsFiniteSet(Call)
ASSUME KindsAssumption == Kinds \subseteq {"socket", "rest", "markAsRead", "reset"}

VARIABLES
    isRead,         \* [m]: the isRead field of message m, Nothing before the insert
    unReadMessage,  \* the counts of the reader's rows, in array order
    latestMessage,  \* chat.latestMessage, Nothing for none
    call,           \* [kind, pc] of each request
    \* History, read by the properties only:
    created,        \* the messages in the order they were inserted
    unseen,         \* messages inserted since the reader's row was last cleared
    overlapping,    \* a request was sent with another still at work
    aborted         \* a request did not finish

chat == <<unReadMessage, latestMessage>>
messageHistory == <<created, unseen, overlapping, aborted>>
messageVars == <<isRead, chat, call, messageHistory>>

Nothing == "none"
\* The schema gives isRead no default, so a document may lack the field.
ReadFlag == {"true", "false", "absent"}

NoCall == [kind |-> "none", pc |-> "idle"]
CallAt(r, label) == [call EXCEPT ![r].pc = label]
InProgress == {r \in Call : call[r].pc \notin {"idle", "done"}}

MessagesInit ==
    /\ isRead = [m \in Call |-> Nothing]
    /\ unReadMessage = <<>>
    /\ latestMessage = Nothing
    /\ call = [r \in Call |-> NoCall]
    /\ created = <<>>
    /\ unseen = {}
    /\ overlapping = FALSE
    /\ aborted = FALSE

CallStart(kind) ==
    CASE kind \in {"socket", "rest"} -> "insert"
      [] kind = "markAsRead"         -> "markMessages"
      [] kind = "reset"              -> "clearRow"

ReceiveCall(r) ==
    /\ call[r].pc = "idle"
    /\ \E kind \in Kinds :
          call' = [call EXCEPT ![r] = [kind |-> kind, pc |-> CallStart(kind)]]
    /\ overlapping' = (overlapping \/ InProgress # {})
    /\ UNCHANGED <<isRead, chat, created, unseen, aborted>>

-----------------------------------------------------------------------------
(* MessagesService.create                                                  *)

\* The gateway sends isRead: false; a REST body may carry it or not.
InitialIsRead(kind) == IF kind = "socket" THEN {"false"} ELSE {"false", "absent"}

Insert(r) ==
    /\ call[r].pc = "insert"
    /\ \E flag \in InitialIsRead(call[r].kind) :
          isRead' = [isRead EXCEPT ![r] = flag]
    /\ created' = Append(created, r)
    /\ unseen' = unseen \cup {r}
    /\ call' = CallAt(r, "increment")
    /\ UNCHANGED <<chat, overlapping, aborted>>

\* findOneAndUpdate on the reader's row: $inc touches the first one only.
IncrementRow(r) ==
    /\ call[r].pc = "increment"
    /\ unReadMessage # <<>>
    /\ unReadMessage' = [unReadMessage EXCEPT ![1] = @ + 1]
    /\ latestMessage' = r
    /\ call' = CallAt(r, "done")
    /\ UNCHANGED <<isRead, messageHistory>>

\* Mutant: the first update is an upsert, and the push still follows.
NoRowUpserts(r) ==
    /\ call[r].pc = "increment"
    /\ unReadMessage = <<>>
    /\ unReadMessage' = <<1>>
    /\ call' = CallAt(r, "pushRow")
    /\ UNCHANGED <<isRead, latestMessage, messageHistory>>

\* No row matched, and the chat is left as it was.
NoRow(r) ==
    /\ call[r].pc = "increment"
    /\ unReadMessage = <<>>
    /\ call' = CallAt(r, "pushRow")
    /\ UNCHANGED <<isRead, chat, messageHistory>>

\* Mutants: the new row starts at zero; the list entry is left alone.
PushRowZero(r) ==
    /\ call[r].pc = "pushRow"
    /\ unReadMessage' = Append(unReadMessage, 0)
    /\ latestMessage' = r
    /\ call' = CallAt(r, "done")
    /\ UNCHANGED <<isRead, messageHistory>>

PushRowOnly(r) ==
    /\ call[r].pc = "pushRow"
    /\ unReadMessage' = Append(unReadMessage, 1)
    /\ call' = CallAt(r, "done")
    /\ UNCHANGED <<isRead, latestMessage, messageHistory>>

\* findOneAndUpdate $push {userId, unReadMessageCount: 1}
PushRow(r) ==
    /\ call[r].pc = "pushRow"
    /\ unReadMessage' = Append(unReadMessage, 1)
    /\ latestMessage' = r
    /\ call' = CallAt(r, "done")
    /\ UNCHANGED <<isRead, messageHistory>>

-----------------------------------------------------------------------------
(* MessagesService.markAsRead, ChatsService.resetUnreadMessageCount        *)

\* updateMany {isRead: false}: a message without the field does not match.
SetIsRead(r) ==
    /\ call[r].pc = "markMessages"
    /\ isRead' = [m \in Call |-> IF isRead[m] = "false" THEN "true" ELSE isRead[m]]
    /\ call' = CallAt(r, "clearRow")
    /\ UNCHANGED <<chat, messageHistory>>

\* $set of the first matching row, or nothing when there is none.
ClearBadge(r) ==
    /\ call[r].pc = "clearRow"
    /\ unReadMessage' = IF unReadMessage = <<>> THEN unReadMessage
                        ELSE [unReadMessage EXCEPT ![1] = 0]
    /\ unseen' = {}
    /\ call' = CallAt(r, "done")
    /\ UNCHANGED <<isRead, latestMessage, created, overlapping, aborted>>

\* A call throws or the process restarts.
Abort(r) ==
    /\ r \in InProgress
    /\ call' = CallAt(r, "done")
    /\ aborted' = TRUE
    /\ UNCHANGED <<isRead, chat, created, unseen, overlapping>>

MessagesNext ==
    \E r \in Call :
        \/ ReceiveCall(r)
        \/ Insert(r) \/ IncrementRow(r) \/ NoRow(r) \/ PushRow(r)
        \/ SetIsRead(r) \/ ClearBadge(r)
        \/ Abort(r)

MessagesSpec == MessagesInit /\ [][MessagesNext]_messageVars

-----------------------------------------------------------------------------
(* Properties.                                                             *)

Badge == FoldSeq(+, 0, unReadMessage)
NoneInProgress == InProgress = {}

\* However sends and reads interleave and fail, the badge never counts more
\* messages than were sent: a row that is pushed twice splits the count, it
\* does not inflate it.
BadgeNotInflated ==
    Badge + Cardinality({r \in Call : call[r].pc \in {"increment", "pushRow"}})
        <= Len(created)

\* With no read in play, no interleaving of sends loses a count, duplicate
\* rows included: every message is in the badge exactly once.
NoCountLostBySends ==
    NoneInProgress /\ ~aborted /\ (\A r \in Call : call[r].kind \in {"none", "socket", "rest"})
        => Badge = Len(created)

\* One request at a time, the badge is the number of messages the reader has
\* not yet opened and the chat list shows the newest one; and even after failures
\* the reader has one row, because $ would never reach a second one to clear it.
BadgeExactOneAtATime ==
    ~overlapping =>
        /\ Len(unReadMessage) <= 1
        /\ NoneInProgress /\ ~aborted =>
               /\ Badge = Cardinality(unseen)
               /\ created # <<>> => latestMessage = Last(created)
=============================================================================
