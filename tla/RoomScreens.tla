------------------------------ MODULE RoomScreens ------------------------------
(***************************************************************************)
(* The pages on rooms, their transcripts and the start of a session.       *)
(***************************************************************************)
EXTENDS ScreenParts

\* The rooms of the selected organization are kept by the store.
RoomsOf(requests) == Selected(List("page", requests))

EditRoom == InDialog("edit", Request("dialog", "reload"))
DeleteRoom == OnRow(Request("none", "patch"))
InviteToRoom == OnRow(Request("row", "nothing"))
RoomsPage == Refreshed(RoomsOf([edit |-> EditRoom, delete |-> DeleteRoom, invite |-> InviteToRoom]))

CreateRoomModal == InDialog("create", Request("dialog", "patch"))
EditRoomModal == InDialog("edit", Request("dialog", "patch"))
DeleteRoomEarlier == OnRow(Request("none", "patch"))
InviteEarlier == OnRow(Request("row", "nothing"))
RoomsEarlier == RoomsOf([create |-> CreateRoomModal, delete |-> DeleteRoomEarlier])
RoomsEarlierDialogs == RoomsOf([edit |-> EditRoomModal, invite |-> InviteEarlier])

DeleteFromHome == OnRow(Request("none", "reload"))
DashboardHome == Uncovered(List("tab", [delete |-> DeleteFromHome]))

CreateRoomHere == InDialog("create", Request("screen", "leaves"))
InviteHere == OnRow(Request("row", "nothing"))
DashboardEarlier == List("page", [create |-> CreateRoomHere, invite |-> InviteHere])
BotStatuses == Polled(Uncovered(List("tab", NoRequest)))
SubscriptionCard == Emptied(Uncovered(List("tab", NoRequest)))

\* The spinner ends with the list of sessions, before the transcripts come;
\* transcripts that cannot be loaded are emptied, those of a room whose
\* sessions cannot be are left.
DeleteTranscript == OnRow(Request("row", "patch"))
TranscriptsView == Selected(HalfEmptied(Uncovered(List("tab", [delete |-> DeleteTranscript]))))
SessionList == List("tab", NoRequest)

DeleteTranscriptEarlier == OnRow(Request("row", "patch"))
TranscriptsEarlier == Selected(List("tab", [delete |-> DeleteTranscriptEarlier]))
HistoryPage == List("tab", NoRequest)

StartConversation == Request("screen", "leaves")
StartGroup == Request("screen", "leaves")
StartBroadcast == Request("screen", "leaves")
LaunchRoom == Request("screen", "leaves")
ModePages ==
    {Form([start |-> r]) : r \in {StartConversation, StartGroup, StartBroadcast, LaunchRoom}}

JoinBySlug == Request("screen", "leaves")
JoinRoomPage == List("tab", [join |-> JoinBySlug])

RoomScreenSet ==
    ModePages \cup {RoomsPage, RoomsEarlier, RoomsEarlierDialogs, DashboardHome, DashboardEarlier,
                    BotStatuses, SubscriptionCard, TranscriptsView, SessionList,
                    TranscriptsEarlier, HistoryPage, JoinRoomPage}
=============================================================================
